------------------------ MODULE AnalysisCache_proof ------------------------
(***************************************************************************)
(* What the cache of analyses keeps right when op_arrays are freed, their  *)
(* addresses given out again and requests of other threads come and go,    *)
(* for any number of threads, op_arrays and addresses (module              *)
(* AnalysisCache).                                                         *)
(***************************************************************************)
EXTENDS AnalysisCache, FiniteSetTheorems, SequenceTheorems, TLAPS

-----------------------------------------------------------------------------
\* The inductive invariant.

\* The frames of a thread.
Open(t) == Range(stack[t])

\* Frames are of op_arrays that are where the engine puts them, and an address
\* is that of one live op_array.
PlacesInv ==
  /\ \A t \in Threads : reused[t] \cap Shared = {}
  /\ \A t \in Threads : \A f \in Open(t) :
       IF f.fn \in Shared THEN f.opcodes = f.fn ELSE f.opcodes \in Addresses
  /\ \A t, u \in Threads : \A f \in Open(t), g \in Open(u) : f.opcodes = g.opcodes => f.fn = g.fn

\* Between requests a thread has nothing.
IdleInv ==
  \A t \in Threads : ~request[t] =>
    stack[t] = <<>> /\ DOMAIN files[t] = {} /\ ran[t] = {} /\ visited[t] = {}

\* A mark in progress is of the innermost frame, and has its analysis unless
\* another thread's request may have freed it.
MarkingInv ==
  \A t \in DOMAIN marking :
    /\ stack[t] # <<>> /\ coverage_active[t]
    /\ marking[t].block \in Blocks(Last(stack[t]).fn)
    /\ \/ marking[t].analysis = DANGLING /\ t \in overlapped
       \/ /\ marking[t].analysis = Last(stack[t]).opcodes
          /\ marking[t].analysis \in DOMAIN fxd_analysis_cache

\* An analysis is cached for the op_array that is at its address, unless that
\* address had another before.
CacheInv ==
  /\ \A p \in DOMAIN fxd_analysis_cache :
       \E t \in Threads : request[t] /\ (t \in overlapped \/ p \in visited[t])
  /\ \A p \in DOMAIN fxd_analysis_cache \cap Shared : fxd_analysis_cache[p].of = p
  /\ \A t \in Threads \ overlapped : \A f \in Open(t) :
       f.fn \notin reused[t] /\ f.opcodes \in DOMAIN fxd_analysis_cache =>
         fxd_analysis_cache[f.opcodes].of = f.fn

\* A thread outside `overlapped' runs alone, and no mark is of a session to come.
AloneInv ==
  /\ \A t, u \in Threads : request[t] /\ request[u] /\ t # u => t \in overlapped
  /\ \A t \in Threads \ overlapped : request[t] =>
       \A p \in DOMAIN fxd_analysis_cache : fxd_analysis_cache[p].saturated <= sat_generation[t]
  /\ \A t \in Threads : coverage_active[t] => sat_generation[t] > 0

RanBlocks == \A t \in Threads, fn \in OpArrays : RanOf(t, fn) \subseteq Blocks(fn)

Marked(t, p) ==
  p \in DOMAIN fxd_analysis_cache /\ fxd_analysis_cache[p].saturated = sat_generation[t]

Full(t, fn) == Blocks(fn) \subseteq HitOf(t, fn)

\* A mark of the session, and the slot, tell that nothing is left to record.
MarksTrue(t) ==
  /\ \A f \in Open(t) : f.fn \notin reused[t] /\ Marked(t, f.opcodes) => Full(t, f.fn)
  /\ \A fn \in Shared : Marked(t, fn) => Full(t, fn)
  /\ coverage_active[t] /\ sat_last_opcodes[t] # NULL => Marked(t, sat_last_opcodes[t])

MarkInv ==
  \A t \in Threads \ overlapped : request[t] /\ sat_generation[t] > 0 => MarksTrue(t)

IInv ==
  /\ TypeOK /\ PlacesInv /\ IdleInv /\ MarkingInv /\ CacheInv /\ AloneInv /\ RanBlocks /\ MarkInv
  /\ RecordsUnlessReused

-----------------------------------------------------------------------------
\* Tables, frames and what ran.

LEMMA EmptyFacts == DOMAIN EmptyTable = {} /\ Range(EmptyTable) = {}
BY DEF EmptyTable, Range

\* The types of what is in the tables.
LEMMA TableTypes ==
  ASSUME TypeOK
  PROVE  /\ \A p \in DOMAIN fxd_analysis_cache : fxd_analysis_cache[p] \in Analyses
         /\ \A t \in Threads : \A fn \in DOMAIN files[t] : files[t][fn] \in Runtimes
         /\ \A t \in DOMAIN marking : t \in Threads /\ marking[t] \in Marks
BY DEF TypeOK, Range

LEMMA OpenFacts ==
  ASSUME TypeOK, NEW t \in Threads
  PROVE  /\ stack[t] \in Seq(Frames) /\ Len(stack[t]) \in Nat
         /\ Open(t) \subseteq Frames
         /\ \A f \in Open(t) : f \in Frames /\ f.fn \in OpArrays /\ f.opcodes \in Pointers
         /\ stack[t] # <<>> => Last(stack[t]) \in Open(t)
<1>1. stack[t] \in Seq(Frames)
  BY DEF TypeOK
<1>2. Len(stack[t]) \in Nat /\ DOMAIN stack[t] = 1 .. Len(stack[t])
  BY <1>1, LenProperties
<1>3. \A k \in 1 .. Len(stack[t]) : stack[t][k] \in Frames
  BY <1>1, ElementOfSeq
<1>4. Open(t) \subseteq Frames
  BY <1>2, <1>3 DEF Open, Range
<1>5. \A f \in Frames : f.fn \in OpArrays /\ f.opcodes \in Pointers
  BY DEF Frames
<1>6. stack[t] # <<>> => Last(stack[t]) \in Open(t)
  <2>1. stack[t] # <<>> => Len(stack[t]) \in 1 .. Len(stack[t])
    BY <1>1, <1>2, EmptySeq
  <2> QED
    BY <1>2, <2>1 DEF Open, Range, Last
<1> QED
  BY <1>1, <1>2, <1>4, <1>5, <1>6

LEMMA RanPairs ==
  ASSUME NEW t \in Threads
  PROVE  /\ ran[t] \subseteq OpArrays \X Nat =>
              \A fn, b : b \in RanOf(t, fn) <=> <<fn, b>> \in ran[t]
         /\ ran'[t] \subseteq OpArrays \X Nat =>
              \A fn, b : b \in RanOf(t, fn)' <=> <<fn, b>> \in ran'[t]
<1>1. ASSUME NEW r \in SUBSET (OpArrays \X Nat), NEW fn, NEW b
      PROVE  b \in {x[2] : x \in {y \in r : y[1] = fn}} <=> <<fn, b>> \in r
  <2>1. ASSUME <<fn, b>> \in r
        PROVE  b \in {x[2] : x \in {y \in r : y[1] = fn}}
    <3> DEFINE z == <<fn, b>>
    <3>1. z \in r /\ z[1] = fn /\ z[2] = b
      BY <2>1
    <3> HIDE DEF z
    <3> QED
      BY <3>1
  <2>2. ASSUME NEW y \in r, y[1] = fn, y[2] = b
        PROVE  <<fn, b>> \in r
    <3>1. y = <<y[1], y[2]>>
      BY <2>2
    <3> QED
      BY <2>2, <3>1
  <2> QED
    BY <2>1, <2>2
<1> QED
  BY <1>1 DEF RanOf

-----------------------------------------------------------------------------
\* What a step does to the frames.

LEMMA EnterFacts ==
  ASSUME TypeOK, NEW t \in Threads, NEW fn \in OpArrays, Enter(t, fn)
  PROVE  \E p \in Places(fn) :
           /\ p \in Pointers
           /\ Open(t)' = Open(t) \cup {[fn |-> fn, opcodes |-> p]}
           /\ \A u \in Threads \ {t} : Open(u)' = Open(u) /\ stack'[u] = stack[u]
           /\ stack' \in [Threads -> Seq(Frames)]
           /\ Len(stack'[t]) = Len(stack[t]) + 1
           /\ reused' = IF p \in visited[t] \ Shared
                        THEN [reused EXCEPT ![t] = @ \cup {fn}] ELSE reused
<1>1. PICK p \in Places(fn) :
        /\ stack' = [stack EXCEPT ![t] = Append(@, [fn |-> fn, opcodes |-> p])]
        /\ reused' = IF p \in visited[t] \ Shared
                     THEN [reused EXCEPT ![t] = @ \cup {fn}] ELSE reused
  BY DEF Enter
<1> DEFINE f == [fn |-> fn, opcodes |-> p]
<1>2. p \in Pointers /\ f \in Frames
  BY <1>1 DEF Places, Pointers, Frames
<1> HIDE DEF f
<1>3. stack[t] \in Seq(Frames) /\ Len(stack[t]) \in Nat /\ DOMAIN stack[t] = 1 .. Len(stack[t])
  BY OpenFacts, LenProperties
<1>4. stack'[t] = Append(stack[t], f) /\ \A u \in Threads \ {t} : stack'[u] = stack[u]
  BY <1>1 DEF TypeOK, f
<1>5. /\ Append(stack[t], f) \in Seq(Frames)
      /\ Len(Append(stack[t], f)) = Len(stack[t]) + 1
      /\ \A k \in 1 .. Len(stack[t]) : Append(stack[t], f)[k] = stack[t][k]
      /\ Append(stack[t], f)[Len(stack[t]) + 1] = f
  BY <1>2, <1>3, AppendProperties
<1>6. stack' \in [Threads -> Seq(Frames)]
  BY <1>1, <1>5 DEF TypeOK, f
<1>7. Open(t)' = Open(t) \cup {f}
  <2> DEFINE n == Len(stack[t])
             s2 == stack'[t]
  <2>1. DOMAIN s2 = 1 .. n + 1
    BY <1>4, <1>5, LenProperties
  <2>2. \A k \in 1 .. n + 1 : k \in 1 .. n \/ k = n + 1
    BY <1>3
  <2>3. \A k \in 1 .. n : k \in 1 .. n + 1
    BY <1>3
  <2>4. n + 1 \in 1 .. n + 1
    BY <1>3
  <2>5. (\A k \in 1 .. n : s2[k] = stack[t][k]) /\ s2[n + 1] = f
    BY <1>4, <1>5
  <2> HIDE DEF n, s2
  <2>6. {s2[k] : k \in DOMAIN s2} = {stack[t][k] : k \in 1 .. n} \cup {f}
    BY <2>1, <2>2, <2>3, <2>4, <2>5
  <2> QED
    BY <1>3, <2>6 DEF Open, Range, n, s2
<1>8. \A u \in Threads \ {t} : Open(u)' = Open(u)
  BY <1>4 DEF Open
<1> QED
  BY <1>1, <1>2, <1>4, <1>5, <1>6, <1>7, <1>8 DEF f

LEMMA LeaveFacts ==
  ASSUME TypeOK, NEW t \in Threads, Leave(t)
  PROVE  /\ \A u \in Threads : Open(u)' \subseteq Open(u) /\ Len(stack'[u]) <= Len(stack[u])
         /\ \A u \in Threads : stack[u] = <<>> => stack'[u] = <<>>
         /\ stack' \in [Threads -> Seq(Frames)]
<1>1. stack[t] \in Seq(Frames) /\ Len(stack[t]) \in Nat /\ DOMAIN stack[t] = 1 .. Len(stack[t])
  BY OpenFacts, LenProperties
<1>2. /\ stack' = [stack EXCEPT ![t] = Front(@)] /\ stack[t] # <<>>
      /\ stack'[t] = Front(stack[t]) /\ \A u \in Threads \ {t} : stack'[u] = stack[u]
  BY DEF Leave, TypeOK
<1>3. /\ Front(stack[t]) \in Seq(Frames) /\ Len(Front(stack[t])) = Len(stack[t]) - 1
      /\ \A k \in 1 .. Len(stack[t]) - 1 : Front(stack[t])[k] = stack[t][k]
  <2>1. Front(stack[t]) = SubSeq(stack[t], 1, Len(stack[t]) - 1)
    BY DEF Front
  <2>2. Len(stack[t]) >= 1
    BY <1>1, <1>2, EmptySeq
  <2> QED
    BY <1>1, <2>1, <2>2, SubSeqProperties
<1>4. stack' \in [Threads -> Seq(Frames)]
  BY <1>2, <1>3 DEF TypeOK
<1>5. Open(t)' \subseteq Open(t)
  <2> DEFINE n == Len(stack[t])
             s2 == stack'[t]
  <2>1. DOMAIN s2 = 1 .. n - 1
    BY <1>2, <1>3, LenProperties
  <2>2. \A k \in 1 .. n - 1 : k \in 1 .. n
    BY <1>1
  <2>3. \A k \in 1 .. n - 1 : s2[k] = stack[t][k]
    BY <1>2, <1>3
  <2> HIDE DEF n, s2
  <2>4. {s2[k] : k \in DOMAIN s2} \subseteq {stack[t][k] : k \in 1 .. n}
    BY <2>1, <2>2, <2>3
  <2> QED
    BY <1>1, <2>4 DEF Open, Range, n, s2
<1>6. \A u \in Threads \ {t} : Open(u)' = Open(u)
  BY <1>2 DEF Open
<1>7. \A u \in Threads : Len(stack[u]) \in Nat
  BY OpenFacts
<1> QED
  BY <1>1, <1>2, <1>3, <1>4, <1>5, <1>6, <1>7

-----------------------------------------------------------------------------
\* What fxd_mark does to the tables.

\* The table gets an analysis for some op_arrays of the thread's frames.
Filled(t) ==
  /\ DOMAIN fxd_analysis_cache \subseteq DOMAIN fxd_analysis_cache'
  /\ \A p \in DOMAIN fxd_analysis_cache : fxd_analysis_cache'[p] = fxd_analysis_cache[p]
  /\ \A p \in DOMAIN fxd_analysis_cache' \ DOMAIN fxd_analysis_cache :
       /\ \E f \in Open(t) : f.opcodes = p /\ fxd_analysis_cache'[p] = NewAnalysis(f.fn)
       /\ t \in overlapped \/ p \in visited'[t]
  /\ visited' \in [Threads -> SUBSET Pointers] /\ visited[t] \subseteq visited'[t]
  /\ \A u \in Threads : u # t => visited'[u] = visited[u]

\* In the table only saturation marks of the thread's session are added.
MarkedTable(t) ==
  /\ DOMAIN fxd_analysis_cache' = DOMAIN fxd_analysis_cache
  /\ \A p \in DOMAIN fxd_analysis_cache :
       /\ fxd_analysis_cache'[p] \in Analyses
       /\ fxd_analysis_cache'[p].of = fxd_analysis_cache[p].of
       /\ \/ fxd_analysis_cache'[p] = fxd_analysis_cache[p]
          \/ fxd_analysis_cache'[p].saturated = sat_generation[t]

\* Of the runtimes only the function's can change.
MarkedFiles(t, f) ==
  /\ DOMAIN files' = Threads
  /\ \A u \in Threads : u # t => files'[u] = files[u]
  /\ DOMAIN files[t] \subseteq DOMAIN files'[t]
  /\ DOMAIN files'[t] \subseteq DOMAIN files[t] \cup {f.fn}
  /\ \A fn \in DOMAIN files'[t] : files'[t][fn] \in Runtimes
  /\ \A fn \in DOMAIN files[t] : fn # f.fn => files'[t][fn] = files[t][fn]

\* The slot of the thread stays, or names the function that is now marked.
MarkedSlot(t, f) ==
  /\ sat_last_opcodes' \in [Threads -> Pointers \cup {NULL}]
  /\ \A u \in Threads : u # t => sat_last_opcodes'[u] = sat_last_opcodes[u]
  /\ sat_last_opcodes'[t] = sat_last_opcodes[t] \/ sat_last_opcodes'[t] = f.opcodes

\* The block that ran is noted.
MarkedRan(t, fn, b) == ran' = [ran EXCEPT ![t] = @ \cup Noted(t, {<<fn, b>>})]

LEMMA BlocksAreNat == ASSUME NEW fn \in OpArrays PROVE \A b \in Blocks(fn) : b \in Nat
<1>1. NumBlocks[fn] \in Nat
  BY AnalysisCacheAssumption
<1> QED
  BY <1>1 DEF Blocks

\* The lookup: a block of a function that the slot names is passed over, and
\* for any other the analysis is looked up.
LEMMA LookupFacts ==
  ASSUME TypeOK, NEW t \in Threads, Lookup(t), NEW f, f = Last(stack[t])
  PROVE  /\ f \in Open(t) /\ f \in Frames /\ stack[t] # <<>> /\ coverage_active[t]
         /\ UNCHANGED <<request, stack, coverage_active, sat_generation, sat_last_opcodes, files,
                        reused, overlapped>>
         /\ Filled(t)
         /\ \E b \in Blocks(f.fn) :
              /\ b \in Nat
              /\ \/ /\ sat_last_opcodes[t] = f.opcodes
                    /\ MarkedRan(t, f.fn, b) /\ UNCHANGED <<fxd_analysis_cache, marking>>
                 \/ /\ ran' = ran
                    /\ f.opcodes \in DOMAIN fxd_analysis_cache'
                    /\ DOMAIN marking' = DOMAIN marking \cup {t}
                    /\ marking'[t] = [block |-> b, analysis |-> f.opcodes]
                    /\ \A u \in DOMAIN marking : u # t => marking'[u] = marking[u]
<1> DEFINE T == fxd_analysis_cache
           T2 == fxd_analysis_cache'
           p == f.opcodes
<1>1. /\ f \in Open(t) /\ f \in Frames /\ f.fn \in OpArrays /\ p \in Pointers
      /\ stack[t] # <<>> /\ coverage_active[t]
  BY OpenFacts DEF Lookup
<1>2. /\ UNCHANGED <<request, stack, coverage_active, sat_generation, sat_last_opcodes, files,
                     reused, overlapped>>
      /\ visited' = [visited EXCEPT ![t] = @ \cup Noted(t, {p})]
  BY DEF Lookup, engineVars, globals
<1>3. PICK b \in Blocks(f.fn) :
        IF sat_last_opcodes[t] = p
        THEN Ran(t, b) /\ UNCHANGED <<fxd_analysis_cache, marking>>
        ELSE /\ T2 = Stored(T, p, AnalysisFor(f))
             /\ marking' = Stored(marking, t, [block |-> b, analysis |-> p])
             /\ UNCHANGED ran
  BY DEF Lookup
<1>4. b \in Nat
  BY <1>1, <1>3, BlocksAreNat
<1>5. /\ visited' \in [Threads -> SUBSET Pointers] /\ visited[t] \subseteq visited'[t]
      /\ \A u \in Threads : u # t => visited'[u] = visited[u]
      /\ t \in overlapped \/ p \in visited'[t]
  <2>1. Noted(t, {p}) \subseteq {p} /\ (t \notin overlapped => Noted(t, {p}) = {p})
    BY DEF Noted
  <2> QED
    BY <1>1, <1>2, <2>1 DEF TypeOK
<1>6. CASE sat_last_opcodes[t] = p
  <2>1. MarkedRan(t, f.fn, b) /\ UNCHANGED <<fxd_analysis_cache, marking>>
    BY <1>3, <1>6 DEF Ran, MarkedRan
  <2>2. Filled(t)
    BY <1>5, <2>1 DEF Filled
  <2> QED
    BY <1>1, <1>2, <1>3, <1>4, <1>6, <2>1, <2>2
<1>7. CASE sat_last_opcodes[t] # p
  <2>1. /\ T2 = Stored(T, p, AnalysisFor(f))
        /\ marking' = Stored(marking, t, [block |-> b, analysis |-> p])
        /\ ran' = ran
    BY <1>3, <1>7
  <2>2. /\ DOMAIN T2 = DOMAIN T \cup {p} /\ T2[p] = AnalysisFor(f)
        /\ \A q \in DOMAIN T : q # p => T2[q] = T[q]
    BY <2>1 DEF Stored
  <2>3. p \in DOMAIN T => T2[p] = T[p]
    BY <2>2 DEF AnalysisFor
  <2>4. p \notin DOMAIN T => T2[p] = NewAnalysis(f.fn)
    BY <2>2 DEF AnalysisFor
  <2>5. Filled(t)
    BY <1>1, <1>5, <2>2, <2>3, <2>4 DEF Filled
  <2>6. /\ DOMAIN marking' = DOMAIN marking \cup {t}
        /\ marking'[t] = [block |-> b, analysis |-> p]
        /\ \A u \in DOMAIN marking : u # t => marking'[u] = marking[u]
    BY <2>1 DEF Stored
  <2> QED
    BY <1>1, <1>2, <1>3, <1>4, <2>1, <2>2, <2>5, <2>6
<1> QED
  BY <1>6, <1>7

LEMMA RuntimeForType ==
  ASSUME TypeOK, NEW t \in Threads, NEW fn \in OpArrays, Owner(t) \in OpArrays \cup {DANGLING}
  PROVE  /\ RuntimeFor(t, fn) \in Runtimes
         /\ RuntimeFor(t, fn).block_hit = HitOf(t, fn)
         /\ RuntimeFor(t, fn).analysis =
              IF fn \in DOMAIN files[t] THEN files[t][fn].analysis ELSE Owner(t)
BY TableTypes DEF RuntimeFor, HitOf, Runtimes

\* A saturation mark that is set.
LEMMA Saturated ==
  ASSUME TypeOK, NEW t \in Threads, Saturate(t),
         marking[t].analysis # DANGLING => marking[t].analysis \in DOMAIN fxd_analysis_cache
  PROVE  /\ MarkedTable(t)
         /\ marking[t].analysis # DANGLING =>
              /\ fxd_analysis_cache'[marking[t].analysis].saturated = sat_generation[t]
              /\ \A p \in DOMAIN fxd_analysis_cache :
                   p # marking[t].analysis => fxd_analysis_cache'[p] = fxd_analysis_cache[p]
<1> DEFINE T == fxd_analysis_cache
           gen == sat_generation[t]
<1>1. gen \in Nat /\ \A p \in DOMAIN T : T[p] \in Analyses
  BY TableTypes DEF TypeOK
<1>2. ASSUME NEW p \in DOMAIN T, T' = [T EXCEPT ![p].saturated = gen]
      PROVE  /\ MarkedTable(t) /\ T'[p].saturated = gen
             /\ \A q \in DOMAIN T : q # p => T'[q] = T[q]
  <2>1. /\ DOMAIN T' = DOMAIN T /\ \A q \in DOMAIN T : q # p => T'[q] = T[q]
        /\ T'[p] = [T[p] EXCEPT !.saturated = gen]
    BY <1>2
  <2>2. \A an \in Analyses : LET x == [an EXCEPT !.saturated = gen]
                             IN  x \in Analyses /\ x.of = an.of /\ x.saturated = gen
    BY <1>1 DEF Analyses
  <2>3. T'[p] \in Analyses /\ T'[p].of = T[p].of /\ T'[p].saturated = gen
    BY <1>1, <2>1, <2>2
  <2> HIDE DEF T
  <2>4. \A q \in DOMAIN T : T'[q] \in Analyses /\ T'[q].of = T[q].of /\ (T'[q] = T[q] \/ T'[q].saturated = gen)
    BY <1>1, <2>1, <2>3
  <2> QED
    BY <2>1, <2>3, <2>4 DEF MarkedTable, T
<1>3. UNCHANGED T => MarkedTable(t)
  BY <1>1 DEF MarkedTable
<1>4. CASE marking[t].analysis # DANGLING
  BY <1>2, <1>4 DEF Saturate
<1>5. CASE marking[t].analysis = DANGLING
  BY <1>2, <1>3, <1>5 DEF Saturate
<1> QED
  BY <1>4, <1>5

RuntimeAfter(t, fn, b) == [RuntimeFor(t, fn) EXCEPT !.block_hit = @ \cup {b}]

LEMMA FilesStored ==
  ASSUME TypeOK, NEW t \in Threads, NEW f \in Frames, Owner(t) \in OpArrays \cup {DANGLING},
         NEW b \in Nat,
         files' = [files EXCEPT ![t] = Stored(@, f.fn, RuntimeAfter(t, f.fn, b))]
  PROVE  /\ MarkedFiles(t, f) /\ HitOf(t, f.fn)' = HitOf(t, f.fn) \cup {b}
         /\ files'[t][f.fn].analysis =
              IF f.fn \in DOMAIN files[t] THEN files[t][f.fn].analysis ELSE Owner(t)
<1> DEFINE rt == RuntimeFor(t, f.fn)
           rt2 == RuntimeAfter(t, f.fn, b)
<1>1. /\ rt \in Runtimes /\ rt.block_hit = HitOf(t, f.fn)
      /\ rt.analysis = IF f.fn \in DOMAIN files[t] THEN files[t][f.fn].analysis ELSE Owner(t)
  BY RuntimeForType DEF Frames
<1>2. rt2 = [rt EXCEPT !.block_hit = @ \cup {b}]
  BY DEF RuntimeAfter
<1> HIDE DEF rt, rt2
<1>3. rt2 \in Runtimes /\ rt2.block_hit = HitOf(t, f.fn) \cup {b} /\ rt2.analysis = rt.analysis
  BY <1>1, <1>2 DEF Runtimes
<1> DEFINE T == files[t]
           T2 == files'[t]
<1>4. /\ DOMAIN files' = Threads /\ \A u \in Threads : u # t => files'[u] = files[u]
      /\ T2 = Stored(T, f.fn, rt2)
  BY DEF rt2, TypeOK
<1>5. DOMAIN T2 = DOMAIN T \cup {f.fn} /\ T2[f.fn] = rt2 /\ \A fn \in DOMAIN T : fn # f.fn => T2[fn] = T[fn]
  BY <1>4 DEF Stored
<1>6. \A fn \in DOMAIN T : T[fn] \in Runtimes
  BY TableTypes
<1> HIDE DEF T, T2
<1>7. \A fn \in DOMAIN T2 : T2[fn] \in Runtimes
  BY <1>3, <1>5, <1>6
<1>8. HitOf(t, f.fn)' = HitOf(t, f.fn) \cup {b}
  BY <1>3, <1>5 DEF HitOf, T2
<1>9. MarkedFiles(t, f)
  BY <1>4, <1>5, <1>7 DEF MarkedFiles, T, T2
<1> QED
  BY <1>1, <1>3, <1>5, <1>8, <1>9 DEF T2

\* The block that is recorded, if any, and the function's runtime.
MarkedHit(t, f, b) ==
  /\ HitOf(t, f.fn) \subseteq HitOf(t, f.fn)' /\ HitOf(t, f.fn)' \subseteq HitOf(t, f.fn) \cup {b}
  /\ f.fn \in DOMAIN files'[t] =>
       files'[t][f.fn].analysis =
         IF f.fn \in DOMAIN files[t] THEN files[t][f.fn].analysis ELSE Owner(t)

LEMMA UnderFacts ==
  ASSUME TypeOK, NEW t \in Threads, NEW f \in Frames, f = Last(stack[t]),
         Owner(t) \in OpArrays \cup {DANGLING},
         marking[t].analysis # DANGLING => marking[t].analysis \in DOMAIN fxd_analysis_cache,
         NEW b \in Nat, NEW an, NEW total, MarkUnder(t, b, an, total)
  PROVE  /\ MarkedTable(t) /\ MarkedFiles(t, f) /\ MarkedSlot(t, f) /\ MarkedHit(t, f, b)
         /\ \/ /\ an.saturated = sat_generation[t]
               /\ UNCHANGED <<fxd_analysis_cache, files>>
            \/ /\ an.saturated # sat_generation[t] /\ b \notin Blocks(an.of)
               /\ UNCHANGED <<fxd_analysis_cache, sat_last_opcodes, files>>
            \/ /\ an.saturated # sat_generation[t]
               /\ HitOf(t, f.fn)' = HitOf(t, f.fn) \cup {b}
               /\ \/ UNCHANGED <<fxd_analysis_cache, sat_last_opcodes>>
                  \/ /\ b \notin HitOf(t, f.fn)
                     /\ Cardinality(HitOf(t, f.fn)) + 1 >= total
                     /\ Saturate(t)
<1> DEFINE gen == sat_generation[t]
           hit == RuntimeFor(t, f.fn).block_hit
           complete == b \notin hit /\ Cardinality(hit) + 1 >= total
           slot == sat_last_opcodes' = [sat_last_opcodes EXCEPT ![t] = f.opcodes]
<1>1. IF an.saturated = gen THEN slot /\ UNCHANGED <<fxd_analysis_cache, files>>
      ELSE IF b \notin Blocks(an.of) THEN UNCHANGED <<fxd_analysis_cache, sat_last_opcodes, files>>
      ELSE /\ files' = [files EXCEPT ![t] = Stored(@, f.fn, RuntimeAfter(t, f.fn, b))]
           /\ IF complete THEN slot /\ Saturate(t)
              ELSE UNCHANGED <<fxd_analysis_cache, sat_last_opcodes>>
  BY DEF MarkUnder, RuntimeAfter
<1>2. slot => MarkedSlot(t, f)
  BY DEF MarkedSlot, TypeOK, Frames
<1>3. UNCHANGED sat_last_opcodes => MarkedSlot(t, f)
  BY DEF MarkedSlot, TypeOK
<1>4. UNCHANGED fxd_analysis_cache => MarkedTable(t)
  BY TableTypes DEF MarkedTable
<1>5. UNCHANGED files => MarkedFiles(t, f) /\ MarkedHit(t, f, b)
  BY TableTypes DEF MarkedFiles, MarkedHit, HitOf, TypeOK
<1>6. hit = HitOf(t, f.fn)
  BY RuntimeForType DEF Frames
<1> HIDE DEF gen, hit, slot
<1>7. CASE an.saturated = gen
  BY <1>1, <1>2, <1>4, <1>5, <1>7 DEF gen
<1>8. CASE an.saturated # gen /\ b \notin Blocks(an.of)
  BY <1>1, <1>3, <1>4, <1>5, <1>8 DEF gen
<1>9. CASE an.saturated # gen /\ b \in Blocks(an.of)
  <2>1. files' = [files EXCEPT ![t] = Stored(@, f.fn, RuntimeAfter(t, f.fn, b))]
    BY <1>1, <1>9
  <2>2. /\ MarkedFiles(t, f) /\ HitOf(t, f.fn)' = HitOf(t, f.fn) \cup {b}
        /\ files'[t][f.fn].analysis =
             IF f.fn \in DOMAIN files[t] THEN files[t][f.fn].analysis ELSE Owner(t)
    BY <2>1, FilesStored
  <2>5. MarkedHit(t, f, b)
    BY <2>2 DEF MarkedHit
  <2>3. CASE complete
    <3>1. slot /\ Saturate(t)
      BY <1>1, <1>9, <2>3
    <3>2. MarkedTable(t)
      BY <3>1, Saturated
    <3> QED
      BY <1>2, <1>6, <1>9, <2>2, <2>3, <2>5, <3>1, <3>2 DEF gen
  <2>4. CASE ~complete
    <3>1. UNCHANGED <<fxd_analysis_cache, sat_last_opcodes>>
      BY <1>1, <1>9, <2>4
    <3> QED
      BY <1>3, <1>4, <1>9, <2>2, <2>5, <3>1 DEF gen
  <2> QED
    BY <2>3, <2>4
<1> QED
  BY <1>7, <1>8, <1>9

\* What is recorded through a pointer that leads to the analysis of the
\* frame's address.
LEMMA LiveRecord ==
  ASSUME TypeOK, MarkingInv, NEW t \in Threads, Record(t), NEW f, f = Last(stack[t]),
         marking[t].analysis # DANGLING
  PROVE  LET an == fxd_analysis_cache[f.opcodes]
             b == marking[t].block
         IN  /\ f \in Open(t) /\ f \in Frames /\ b \in Nat
             /\ f.opcodes \in DOMAIN fxd_analysis_cache /\ an \in Analyses
             /\ Owner(t) = an.of
             /\ MarkUnder(t, b, an, NumBlocks[an.of])
             /\ marking[t].analysis = f.opcodes
<1>1. /\ t \in DOMAIN marking /\ marking[t].analysis = f.opcodes
      /\ f.opcodes \in DOMAIN fxd_analysis_cache /\ stack[t] # <<>>
  BY DEF MarkingInv, Record
<1>2. f \in Open(t) /\ f \in Frames
  BY <1>1, OpenFacts
<1>3. marking[t].block \in Nat /\ fxd_analysis_cache[f.opcodes] \in Analyses
  BY <1>1, TableTypes DEF Marks
<1>4. Owner(t) = fxd_analysis_cache[f.opcodes].of
  BY <1>1 DEF Owner
<1>5. LET an == fxd_analysis_cache[f.opcodes]
      IN  MarkUnder(t, marking[t].block, an, NumBlocks[an.of])
  BY <1>1 DEF Record
<1> QED
  BY <1>1, <1>2, <1>3, <1>4, <1>5

\* What every record does.
LEMMA RecordFacts ==
  ASSUME TypeOK, MarkingInv, NEW t \in Threads, Record(t), NEW f, f = Last(stack[t])
  PROVE  /\ f \in Open(t) /\ f \in Frames /\ stack[t] # <<>> /\ coverage_active[t]
         /\ UNCHANGED <<request, stack, coverage_active, sat_generation, visited, reused,
                        overlapped>>
         /\ t \in DOMAIN marking /\ DOMAIN marking' = DOMAIN marking \ {t}
         /\ \A u \in DOMAIN marking' : marking'[u] = marking[u]
         /\ marking[t].block \in Blocks(f.fn) /\ marking[t].block \in Nat
         /\ MarkedRan(t, f.fn, marking[t].block)
         /\ MarkedTable(t) /\ MarkedFiles(t, f) /\ MarkedSlot(t, f)
<1>1. /\ t \in DOMAIN marking /\ stack[t] # <<>> /\ coverage_active[t]
      /\ marking[t].block \in Blocks(f.fn) /\ marking[t].block \in Nat
      /\ UNCHANGED <<request, stack, coverage_active, sat_generation, visited, reused, overlapped>>
      /\ marking' = [u \in DOMAIN marking \ {t} |-> marking[u]]
      /\ MarkedRan(t, f.fn, marking[t].block)
  BY TableTypes DEF Record, MarkingInv, Marks, Ran, MarkedRan, engineVars
<1>2. f \in Open(t) /\ f \in Frames
  BY <1>1, OpenFacts
<1>3. CASE marking[t].analysis # DANGLING
  <2>1. PICK an : an = fxd_analysis_cache[f.opcodes]
    OBVIOUS
  <2>2. /\ an \in Analyses /\ Owner(t) = an.of /\ MarkUnder(t, marking[t].block, an, NumBlocks[an.of])
        /\ marking[t].analysis \in DOMAIN fxd_analysis_cache
    BY <1>3, <2>1, LiveRecord
  <2>3. Owner(t) \in OpArrays
    BY <2>2 DEF Analyses
  <2>4. MarkedTable(t) /\ MarkedFiles(t, f) /\ MarkedSlot(t, f)
    BY <1>1, <1>2, <2>2, <2>3, UnderFacts
  <2> QED
    BY <1>1, <1>2, <2>4
<1>4. CASE marking[t].analysis = DANGLING
  <2>1. PICK an \in Contents, other \in OpArrays :
          \E b \in Blocks(an.of) \cup {NumBlocks[an.of]} : MarkUnder(t, b, an, NumBlocks[other])
    BY <1>4 DEF Record
  <2>2. PICK b \in Blocks(an.of) \cup {NumBlocks[an.of]} : MarkUnder(t, b, an, NumBlocks[other])
    BY <2>1
  <2>3. an.of \in OpArrays /\ NumBlocks[an.of] \in Nat
    BY <2>1, AnalysisCacheAssumption DEF Contents
  <2>4. b \in Nat
    BY <2>2, <2>3, BlocksAreNat
  <2>5. Owner(t) = DANGLING
    BY <1>4 DEF Owner
  <2>6. MarkedTable(t) /\ MarkedFiles(t, f) /\ MarkedSlot(t, f)
    BY <1>2, <1>4, <2>2, <2>4, <2>5, UnderFacts
  <2> QED
    BY <1>1, <1>2, <2>6
<1> QED
  BY <1>3, <1>4

-----------------------------------------------------------------------------
\* What the other actions do.

\* fxd_coverage_start: the frames of the thread are visited, and get analyses.
LEMMA StartFacts ==
  ASSUME TypeOK, NEW t \in Threads, Start(t)
  PROVE  Filled(t)
<1> DEFINE T == fxd_analysis_cache
           T2 == fxd_analysis_cache'
           at == {f.opcodes : f \in Open(t)}
           new == {f \in Open(t) : f.opcodes \notin DOMAIN T}
           pick(p) == CHOOSE f \in new : f.opcodes = p
<1>1. /\ T2 = [p \in DOMAIN T \cup {f.opcodes : f \in new} |->
                 IF p \in DOMAIN T THEN T[p] ELSE NewAnalysis(pick(p).fn)]
      /\ visited' = [visited EXCEPT ![t] = @ \cup Noted(t, at)]
  BY DEF Start, Snapshot, Open
<1>2. /\ visited[t] \subseteq visited'[t] /\ \A u \in Threads : u # t => visited'[u] = visited[u]
      /\ visited' \in [Threads -> SUBSET Pointers]
      /\ t \notin overlapped => at \subseteq visited'[t]
  <2>1. at \subseteq Pointers
    BY OpenFacts
  <2>2. Noted(t, at) \subseteq at /\ (t \notin overlapped => Noted(t, at) = at)
    BY DEF Noted
  <2> HIDE DEF at
  <2> QED
    BY <1>1, <2>1, <2>2 DEF TypeOK
<1>3. \A p \in {f.opcodes : f \in new} : pick(p) \in Open(t) /\ pick(p).opcodes = p
  <2> SUFFICES ASSUME NEW p \in {f.opcodes : f \in new}
               PROVE  pick(p) \in new /\ pick(p).opcodes = p
    OBVIOUS
  <2>1. \E f \in new : f.opcodes = p
    OBVIOUS
  <2> QED
    BY <2>1
<1>4. \A p \in {f.opcodes : f \in new} : p \in at
  OBVIOUS
<1> HIDE DEF T, T2, pick, at
<1>5. DOMAIN T \subseteq DOMAIN T2 /\ \A p \in DOMAIN T : T2[p] = T[p]
  BY <1>1
<1>6. \A p \in DOMAIN T2 \ DOMAIN T : p \in {f.opcodes : f \in new} /\ T2[p] = NewAnalysis(pick(p).fn)
  BY <1>1
<1> HIDE DEF new
<1>7. \A p \in DOMAIN T2 \ DOMAIN T :
        /\ \E f \in Open(t) : f.opcodes = p /\ T2[p] = NewAnalysis(f.fn)
        /\ t \in overlapped \/ p \in visited'[t]
  BY <1>2, <1>3, <1>4, <1>6
<1> QED
  BY <1>2, <1>5, <1>7 DEF Filled, T, T2

\* A request that ends frees the analyses of all threads.
LEMMA RShutdownFacts ==
  ASSUME TypeOK, NEW t \in Threads, RShutdown(t)
  PROVE  /\ DOMAIN fxd_analysis_cache' = {}
         /\ DOMAIN files' = Threads /\ DOMAIN files'[t] = {}
         /\ \A u \in Threads : u # t =>
              /\ DOMAIN files'[u] = DOMAIN files[u]
              /\ \A fn \in DOMAIN files[u] : files'[u][fn] \in Runtimes
         /\ DOMAIN marking' = DOMAIN marking
         /\ \A u \in DOMAIN marking : /\ marking'[u] \in Marks /\ marking'[u].block = marking[u].block
                                      /\ marking'[u].analysis = DANGLING
         /\ request' = [request EXCEPT ![t] = FALSE]
         /\ ran' = [ran EXCEPT ![t] = {}] /\ visited' = [visited EXCEPT ![t] = {}]
         /\ reused' = [reused EXCEPT ![t] = {}]
<1>1. /\ fxd_analysis_cache' = EmptyTable
      /\ files' = [u \in Threads |->
           IF u = t THEN EmptyTable
           ELSE [fn \in DOMAIN files[u] |-> [files[u][fn] EXCEPT !.analysis = DANGLING]]]
      /\ marking' = [u \in DOMAIN marking |-> [marking[u] EXCEPT !.analysis = DANGLING]]
      /\ request' = [request EXCEPT ![t] = FALSE]
      /\ ran' = [ran EXCEPT ![t] = {}] /\ visited' = [visited EXCEPT ![t] = {}]
      /\ reused' = [reused EXCEPT ![t] = {}]
  BY DEF RShutdown, FreeTables, Dangle
<1>2. ASSUME NEW u \in Threads, u # t
      PROVE  /\ DOMAIN files'[u] = DOMAIN files[u]
             /\ \A fn \in DOMAIN files[u] : files'[u][fn] \in Runtimes
  <2>1. files'[u] = [fn \in DOMAIN files[u] |-> [files[u][fn] EXCEPT !.analysis = DANGLING]]
    BY <1>1, <1>2
  <2>2. \A fn \in DOMAIN files[u] : files[u][fn] \in Runtimes
    BY TableTypes
  <2>3. \A rt \in Runtimes : [rt EXCEPT !.analysis = DANGLING] \in Runtimes
    BY DEF Runtimes
  <2>4. \A fn \in DOMAIN files[u] : files'[u][fn] = [files[u][fn] EXCEPT !.analysis = DANGLING]
    BY <2>1
  <2> QED
    BY <2>1, <2>2, <2>3, <2>4
<1>3. /\ DOMAIN marking' = DOMAIN marking
      /\ \A u \in DOMAIN marking : /\ marking'[u] \in Marks /\ marking'[u].block = marking[u].block
                                   /\ marking'[u].analysis = DANGLING
  <2>1. \A u \in DOMAIN marking : marking[u] \in Marks
    BY TableTypes
  <2>2. \A m \in Marks : LET d == [m EXCEPT !.analysis = DANGLING]
                         IN  d \in Marks /\ d.block = m.block /\ d.analysis = DANGLING
    BY DEF Marks
  <2>3. DOMAIN marking' = DOMAIN marking
        /\ \A u \in DOMAIN marking : marking'[u] = [marking[u] EXCEPT !.analysis = DANGLING]
    BY <1>1
  <2> SUFFICES ASSUME NEW u \in DOMAIN marking
               PROVE  /\ marking'[u] \in Marks /\ marking'[u].block = marking[u].block
                      /\ marking'[u].analysis = DANGLING
    BY <2>3
  <2>4. PICK m \in Marks : m = marking[u]
    BY <2>1
  <2>5. marking'[u] = [m EXCEPT !.analysis = DANGLING]
    BY <2>3, <2>4
  <2> QED
    BY <2>2, <2>4, <2>5
<1>4. DOMAIN files' = Threads /\ DOMAIN files'[t] = {}
  BY <1>1, EmptyFacts
<1> QED
  BY <1>1, <1>2, <1>3, <1>4, EmptyFacts

\* A request that begins has no runtimes, and alone it has no history.
LEMMA RInitFacts ==
  ASSUME TypeOK, NEW t \in Threads, RInit(t)
  PROVE  /\ DOMAIN files' = Threads /\ DOMAIN files'[t] = {}
         /\ \A u \in Threads : u # t => files'[u] = files[u]
         /\ request' = [request EXCEPT ![t] = TRUE] /\ ~request[t]
         /\ request'[t] /\ \A u \in Threads : u # t => request'[u] = request[u]
         /\ coverage_active' = [coverage_active EXCEPT ![t] = FALSE]
         /\ UNCHANGED <<stack, fxd_analysis_cache, marking, sat_generation, sat_last_opcodes>>
         /\ \/ /\ \A u \in Threads : ~request[u]
               /\ overlapped' = {} /\ UNCHANGED <<ran, visited, reused>>
            \/ /\ \E u \in Threads : request[u]
               /\ \A u \in Threads : request'[u] => u \in overlapped'
               /\ overlapped \subseteq overlapped' /\ overlapped' \subseteq Threads
               /\ \A u \in Threads : ran'[u] = {} /\ visited'[u] = {} /\ reused'[u] = {}
               /\ ran' = [u \in Threads |-> {}] /\ visited' = ran' /\ reused' = ran'
<1>1. /\ DOMAIN files' = Threads /\ DOMAIN files'[t] = {}
      /\ \A u \in Threads : u # t => files'[u] = files[u]
      /\ request' = [request EXCEPT ![t] = TRUE] /\ ~request[t]
      /\ request'[t] /\ \A u \in Threads : u # t => request'[u] = request[u]
      /\ coverage_active' = [coverage_active EXCEPT ![t] = FALSE]
      /\ UNCHANGED <<stack, fxd_analysis_cache, marking, sat_generation, sat_last_opcodes>>
  BY EmptyFacts DEF RInit, TypeOK
<1>2. CASE Running = {}
  BY <1>1, <1>2 DEF RInit, Running
<1>3. CASE Running # {}
  <2>1. /\ overlapped' = overlapped \cup Running \cup {t}
        /\ ran' = [u \in Threads |-> {}] /\ visited' = ran' /\ reused' = ran'
    BY <1>3 DEF RInit
  <2>2. overlapped' \subseteq Threads /\ \E u \in Threads : request[u]
    BY <1>3, <2>1 DEF TypeOK, Running
  <2>3. \A u \in Threads : request'[u] => u \in overlapped'
    BY <1>1, <2>1 DEF Running
  <2> QED
    BY <1>1, <2>1, <2>2, <2>3
<1> QED
  BY <1>2, <1>3

\* What has run of each function after a mark.
RanGrown(t, fn, b) ==
  \A u \in Threads, g \in OpArrays :
    RanOf(u, g)' = RanOf(u, g) \cup Noted(t, IF u = t /\ g = fn THEN {b} ELSE {})

LEMMA RanAfterMark ==
  ASSUME TypeOK, NEW t \in Threads, NEW fn \in OpArrays, NEW b, b \in Nat,
         MarkedRan(t, fn, b)
  PROVE  /\ ran' \in [Threads -> SUBSET (OpArrays \X Nat)]
         /\ \A u \in Threads : u # t => ran'[u] = ran[u]
         /\ RanGrown(t, fn, b)
<1> DEFINE R == OpArrays \X Nat
           x == <<fn, b>>
<1>1. /\ ran \in [Threads -> SUBSET R]
      /\ ran'[t] = ran[t] \cup Noted(t, {x}) /\ \A u \in Threads : u # t => ran'[u] = ran[u]
  BY DEF TypeOK, MarkedRan
<1>2. x \in R
  OBVIOUS
<1> HIDE DEF R
<1>3. ran' \in [Threads -> SUBSET R]
  <2>1. Noted(t, {x}) \subseteq R
    BY <1>2 DEF Noted
  <2>2. ran' = [ran EXCEPT ![t] = @ \cup Noted(t, {x})]
    BY DEF MarkedRan
  <2> HIDE DEF x
  <2> QED
    BY <1>1, <2>1, <2>2
<1>4. \A g, c : x = <<g, c>> <=> g = fn /\ c = b
  OBVIOUS
<1> HIDE DEF x
<1>5. /\ \A g, c : c \in RanOf(t, g) <=> <<g, c>> \in ran[t]
      /\ \A g, c : c \in RanOf(t, g)' <=> <<g, c>> \in ran'[t]
  BY <1>1, <1>3, RanPairs DEF R
<1>6. \A g, c : c \in RanOf(t, g)' <=> c \in RanOf(t, g) \/ (t \notin overlapped /\ g = fn /\ c = b)
  <2> SUFFICES ASSUME NEW g, NEW c
               PROVE  <<g, c>> \in ran'[t] <=>
                        <<g, c>> \in ran[t] \/ (t \notin overlapped /\ g = fn /\ c = b)
    BY <1>5
  <2> DEFINE y == <<g, c>>
  <2>1. x = y <=> g = fn /\ c = b
    BY <1>4
  <2> HIDE DEF y
  <2>2. y \in ran'[t] <=> y \in ran[t] \/ (t \notin overlapped /\ x = y)
    BY <1>1 DEF Noted
  <2>3. y \in ran'[t] <=> y \in ran[t] \/ (t \notin overlapped /\ g = fn /\ c = b)
    BY <2>1, <2>2
  <2> QED
    BY <2>3 DEF y
<1>7. \A u \in Threads : u # t => \A g : RanOf(u, g)' = RanOf(u, g)
  BY <1>1 DEF RanOf
<1>8. \A g : RanOf(t, g)' = RanOf(t, g) \cup Noted(t, IF g = fn THEN {b} ELSE {})
  <2> SUFFICES ASSUME NEW g
               PROVE  RanOf(t, g)' = RanOf(t, g) \cup Noted(t, IF g = fn THEN {b} ELSE {})
    OBVIOUS
  <2>1. CASE g = fn
    BY <1>6, <2>1 DEF Noted
  <2>2. CASE g # fn
    BY <1>6, <2>2 DEF Noted
  <2> QED
    BY <2>1, <2>2
<1>9. Noted(t, {}) = {}
  BY DEF Noted
<1>10. RanGrown(t, fn, b)
  BY <1>7, <1>8, <1>9 DEF RanGrown
<1> QED
  BY <1>1, <1>3, <1>10 DEF R

-----------------------------------------------------------------------------
\* Every step keeps the types.

LEMMA RangeType ==
  ASSUME NEW T, NEW S, \A x \in DOMAIN T : T[x] \in S
  PROVE  Range(T) \subseteq S
BY DEF Range

LEMMA TypeStep ==
  ASSUME TypeOK, MarkingInv, [Next]_vars
  PROVE  TypeOK'
<1> DEFINE Tables ==
             /\ DOMAIN fxd_analysis_cache \subseteq Pointers /\ Range(fxd_analysis_cache) \subseteq Analyses
             /\ DOMAIN files = Threads
             /\ \A t \in Threads :
                  DOMAIN files[t] \subseteq OpArrays /\ Range(files[t]) \subseteq Runtimes
           Pending == DOMAIN marking \subseteq Threads /\ Range(marking) \subseteq Marks
           Rest ==
             /\ request \in [Threads -> BOOLEAN] /\ coverage_active \in [Threads -> BOOLEAN]
             /\ stack \in [Threads -> Seq(Frames)]
             /\ sat_generation \in [Threads -> Nat]
             /\ sat_last_opcodes \in [Threads -> Pointers \cup {NULL}]
             /\ ran \in [Threads -> SUBSET (OpArrays \X Nat)]
             /\ visited \in [Threads -> SUBSET Pointers] /\ reused \in [Threads -> SUBSET OpArrays]
             /\ overlapped \subseteq Threads
<1>1. Tables /\ Pending /\ Rest
  BY DEF TypeOK
<1>2. Tables' /\ Pending' /\ Rest' => TypeOK'
  BY DEF TypeOK
<1>3. UNCHANGED <<fxd_analysis_cache, files>> => Tables'
  BY <1>1
<1>4. ASSUME DOMAIN fxd_analysis_cache' \subseteq Pointers,
             \A p \in DOMAIN fxd_analysis_cache' : fxd_analysis_cache'[p] \in Analyses,
             DOMAIN files' = Threads,
             \A t \in Threads : /\ DOMAIN files'[t] \subseteq OpArrays
                                /\ \A fn \in DOMAIN files'[t] : files'[t][fn] \in Runtimes
      PROVE  Tables'
  BY <1>4, RangeType
<1>13. ASSUME DOMAIN marking' \subseteq Threads, \A t \in DOMAIN marking' : marking'[t] \in Marks
       PROVE  Pending'
  BY <1>13, RangeType
<1>14. UNCHANGED marking => Pending'
  BY <1>1
<1>15. DOMAIN marking \subseteq Threads /\ \A t \in DOMAIN marking : marking[t] \in Marks
  BY <1>1, TableTypes
<1>16. /\ DOMAIN fxd_analysis_cache \subseteq Pointers
       /\ \A u \in Threads : DOMAIN files[u] \subseteq OpArrays
  BY <1>1
<1> HIDE DEF Tables, Pending
<1>17. ASSUME NEW t \in Threads, Filled(t), UNCHANGED files
       PROVE  Tables'
  <2>1. \A f \in Open(t) : f.fn \in OpArrays /\ f.opcodes \in Pointers
    BY OpenFacts
  <2>2. \A fn \in OpArrays : NewAnalysis(fn) \in Analyses
    BY DEF NewAnalysis, Analyses
  <2>3. \A p \in DOMAIN fxd_analysis_cache' : p \in Pointers /\ fxd_analysis_cache'[p] \in Analyses
    <3> SUFFICES ASSUME NEW p \in DOMAIN fxd_analysis_cache'
                 PROVE  p \in Pointers /\ fxd_analysis_cache'[p] \in Analyses
      OBVIOUS
    <3>1. CASE p \in DOMAIN fxd_analysis_cache
      BY <1>16, <1>17, <3>1, TableTypes DEF Filled
    <3>2. CASE p \notin DOMAIN fxd_analysis_cache
      <4>1. PICK f \in Open(t) : f.opcodes = p /\ fxd_analysis_cache'[p] = NewAnalysis(f.fn)
        BY <1>17, <3>2 DEF Filled
      <4> QED
        BY <2>1, <2>2, <4>1
    <3> QED
      BY <3>1, <3>2
  <2>4. DOMAIN files = Threads
    BY <1>1 DEF Tables
  <2> QED
    BY <1>4, <1>16, <1>17, <2>3, <2>4, TableTypes
<1>5. CASE UNCHANGED vars
  <2>1. Rest'
    BY <1>1, <1>5 DEF vars, engineVars, globals, history
  <2> QED
    BY <1>2, <1>3, <1>5, <1>14, <2>1 DEF vars, globals
<1>6. ASSUME NEW t \in Threads, NEW fn \in OpArrays, Enter(t, fn)
      PROVE  TypeOK'
  <2>1. stack' \in [Threads -> Seq(Frames)]
    BY <1>6, EnterFacts
  <2>2. reused' \in [Threads -> SUBSET OpArrays]
    BY <1>1, <1>6 DEF Enter
  <2>3. Rest'
    BY <1>1, <1>6, <2>1, <2>2 DEF Enter, globals
  <2> QED
    BY <1>2, <1>3, <1>6, <1>14, <2>3 DEF Enter, globals
<1>7. ASSUME NEW t \in Threads, Leave(t)
      PROVE  TypeOK'
  <2>1. stack' \in [Threads -> Seq(Frames)]
    BY <1>7, LeaveFacts
  <2>2. Rest'
    BY <1>1, <1>7, <2>1 DEF Leave, globals, history
  <2> QED
    BY <1>2, <1>3, <1>7, <1>14, <2>2 DEF Leave, globals
<1>8. ASSUME NEW t \in Threads, Lookup(t)
      PROVE  TypeOK'
  <2>1. PICK f : f = Last(stack[t])
    OBVIOUS
  <2>2. /\ f \in Frames /\ Filled(t)
        /\ UNCHANGED <<request, stack, coverage_active, sat_generation, sat_last_opcodes, files,
                       reused, overlapped>>
    BY <1>8, <2>1, LookupFacts
  <2>3. PICK b \in Nat :
          \/ MarkedRan(t, f.fn, b) /\ UNCHANGED marking
          \/ /\ ran' = ran
             /\ DOMAIN marking' = DOMAIN marking \cup {t}
             /\ marking'[t] = [block |-> b, analysis |-> f.opcodes]
             /\ \A u \in DOMAIN marking : u # t => marking'[u] = marking[u]
    <3>1. \E b \in Blocks(f.fn) :
             /\ b \in Nat
             /\ \/ /\ sat_last_opcodes[t] = f.opcodes
                   /\ MarkedRan(t, f.fn, b) /\ UNCHANGED <<fxd_analysis_cache, marking>>
                \/ /\ ran' = ran
                   /\ f.opcodes \in DOMAIN fxd_analysis_cache'
                   /\ DOMAIN marking' = DOMAIN marking \cup {t}
                   /\ marking'[t] = [block |-> b, analysis |-> f.opcodes]
                   /\ \A u \in DOMAIN marking : u # t => marking'[u] = marking[u]
      BY <1>8, <2>1, LookupFacts
    <3> QED
      BY <3>1
  <2>4. f.fn \in OpArrays /\ f.opcodes \in Pointers
    BY <2>2 DEF Frames
  <2>5. Pending'
    <3>1. [block |-> b, analysis |-> f.opcodes] \in Marks
      BY <2>3, <2>4 DEF Marks
    <3> QED
      BY <1>13, <1>14, <1>15, <2>3, <3>1
  <2>6. ran' \in [Threads -> SUBSET (OpArrays \X Nat)]
    BY <1>1, <2>3, <2>4, RanAfterMark
  <2>7. Rest'
    BY <1>1, <2>2, <2>6 DEF Filled
  <2> QED
    BY <1>2, <1>17, <2>2, <2>5, <2>7
<1>18. ASSUME NEW t \in Threads, Record(t)
       PROVE  TypeOK'
  <2>1. PICK f : f = Last(stack[t])
    OBVIOUS
  <2>2. /\ f \in Frames
        /\ UNCHANGED <<request, stack, coverage_active, sat_generation, visited, reused, overlapped>>
        /\ DOMAIN marking' = DOMAIN marking \ {t}
        /\ \A u \in DOMAIN marking' : marking'[u] = marking[u]
        /\ marking[t].block \in Nat
        /\ MarkedRan(t, f.fn, marking[t].block)
        /\ MarkedTable(t) /\ MarkedFiles(t, f) /\ MarkedSlot(t, f)
    BY <1>18, <2>1, RecordFacts
  <2>3. f.fn \in OpArrays /\ f.opcodes \in Pointers
    BY <2>2 DEF Frames
  <2>4. Pending'
    BY <1>13, <1>15, <2>2
  <2>5. ran' \in [Threads -> SUBSET (OpArrays \X Nat)]
    <3>1. PICK b : b = marking[t].block
      OBVIOUS
    <3> QED
      BY <2>2, <2>3, <3>1, RanAfterMark
  <2>6. Rest'
    BY <1>1, <2>2, <2>5 DEF MarkedSlot
  <2>7. Tables'
    <3>1. \A u \in Threads : DOMAIN files'[u] \subseteq OpArrays
      BY <1>16, <2>2, <2>3 DEF MarkedFiles
    <3>2. \A u \in Threads : \A fn \in DOMAIN files'[u] : files'[u][fn] \in Runtimes
      BY <2>2, TableTypes DEF MarkedFiles
    <3>3. \A p \in DOMAIN fxd_analysis_cache' : fxd_analysis_cache'[p] \in Analyses
      BY <2>2 DEF MarkedTable
    <3> QED
      BY <1>4, <1>16, <2>2, <3>1, <3>2, <3>3 DEF MarkedFiles, MarkedTable
  <2> QED
    BY <1>2, <2>4, <2>6, <2>7
<1>9. ASSUME NEW t \in Threads, Start(t)
      PROVE  TypeOK'
  <2>1. /\ sat_generation' = [sat_generation EXCEPT ![t] = @ + 1]
        /\ coverage_active' = [coverage_active EXCEPT ![t] = TRUE]
        /\ sat_last_opcodes' = [sat_last_opcodes EXCEPT ![t] = NULL]
        /\ UNCHANGED <<request, stack, marking, files, ran, reused, overlapped>>
    BY <1>9 DEF Start, ResetSlot, engineVars
  <2>2. Filled(t)
    BY <1>9, StartFacts
  <2>3. Rest'
    <3>1. sat_generation' \in [Threads -> Nat]
      BY <1>1, <2>1
    <3>2. /\ coverage_active' \in [Threads -> BOOLEAN]
          /\ sat_last_opcodes' \in [Threads -> Pointers \cup {NULL}]
      BY <1>1, <2>1
    <3> QED
      BY <1>1, <2>1, <2>2, <3>1, <3>2 DEF Filled
  <2> QED
    BY <1>2, <1>14, <1>17, <2>1, <2>2, <2>3
<1>10. ASSUME NEW t \in Threads, Stop(t)
       PROVE  TypeOK'
  <2>1. Rest' /\ UNCHANGED <<fxd_analysis_cache, marking, files>>
    BY <1>1, <1>10 DEF Stop, engineVars, history
  <2> QED
    BY <1>2, <1>3, <1>14, <2>1
<1>11. ASSUME NEW t \in Threads, RInit(t)
       PROVE  TypeOK'
  <2>1. UNCHANGED <<stack, fxd_analysis_cache, marking, sat_generation, sat_last_opcodes>>
    BY <1>11, RInitFacts
  <2>2. /\ ran' \in [Threads -> SUBSET (OpArrays \X Nat)]
        /\ visited' \in [Threads -> SUBSET Pointers] /\ reused' \in [Threads -> SUBSET OpArrays]
        /\ overlapped' \subseteq Threads
    BY <1>1, <1>11, RInitFacts
  <2>3. Rest'
    BY <1>1, <1>11, <2>1, <2>2, RInitFacts
  <2>4. Tables'
    <3>1. /\ DOMAIN files' = Threads
          /\ \A u \in Threads : /\ DOMAIN files'[u] \subseteq OpArrays
                                /\ \A fn \in DOMAIN files'[u] : files'[u][fn] \in Runtimes
      BY <1>11, <1>16, RInitFacts, TableTypes
    <3>2. \A p \in DOMAIN fxd_analysis_cache' : p \in Pointers /\ fxd_analysis_cache'[p] \in Analyses
      BY <1>16, <2>1, TableTypes
    <3> QED
      BY <1>4, <3>1, <3>2
  <2> QED
    BY <1>2, <1>14, <2>1, <2>3, <2>4
<1>12. ASSUME NEW t \in Threads, RShutdown(t)
       PROVE  TypeOK'
  <2>1. /\ request' = [request EXCEPT ![t] = FALSE] /\ ran' = [ran EXCEPT ![t] = {}]
        /\ visited' = [visited EXCEPT ![t] = {}] /\ reused' = [reused EXCEPT ![t] = {}]
        /\ UNCHANGED <<stack, coverage_active, sat_generation, sat_last_opcodes, overlapped>>
    BY <1>12 DEF RShutdown
  <2>2. Rest'
    BY <1>1, <2>1
  <2>3. /\ DOMAIN fxd_analysis_cache' = {} /\ DOMAIN files' = Threads
        /\ \A u \in Threads : /\ DOMAIN files'[u] \subseteq OpArrays
                              /\ \A fn \in DOMAIN files'[u] : files'[u][fn] \in Runtimes
    BY <1>12, <1>16, RShutdownFacts
  <2>4. Tables'
    BY <1>4, <2>3
  <2>5. Pending'
    BY <1>12, <1>13, <1>15, RShutdownFacts
  <2> QED
    BY <1>2, <2>2, <2>4, <2>5
<1> QED
  BY <1>5, <1>6, <1>7, <1>8, <1>9, <1>10, <1>11, <1>12, <1>18 DEF Next

-----------------------------------------------------------------------------
\* Where op_arrays are, and threads between requests.

\* The op_array that is entered is at an address that no other live one has.
LEMMA PlaceFacts ==
  ASSUME PlacesInv, NEW fn \in OpArrays, NEW p \in Places(fn)
  PROVE  /\ IF fn \in Shared THEN p = fn ELSE p \in Addresses
         /\ \A u \in Threads : \A g \in Open(u) : g.opcodes = p => g.fn = fn
<1>1. CASE fn \in Shared
  <2>1. p = fn
    BY <1>1 DEF Places
  <2>2. p \notin Addresses
    BY <1>1, <2>1, AnalysisCacheAssumption
  <2> QED
    BY <1>1, <2>1, <2>2 DEF PlacesInv
<1>2. CASE fn \notin Shared
  <2>1. p \in Addresses /\ p \notin InUse
    BY <1>2 DEF Places
  <2>2. \A u \in Threads : \A g \in Open(u) : g.opcodes \in InUse
    BY DEF InUse, Open
  <2> QED
    BY <1>2, <2>1, <2>2
<1> QED
  BY <1>1, <1>2

LEMMA PlacesStep ==
  ASSUME TypeOK, PlacesInv, [Next]_vars
  PROVE  PlacesInv'
<1>1. ASSUME \A u \in Threads : Open(u)' \subseteq Open(u),
             \A u \in Threads : reused'[u] \subseteq reused[u]
      PROVE  PlacesInv'
  BY <1>1 DEF PlacesInv
<1>2. ASSUME UNCHANGED stack
      PROVE  \A u \in Threads : Open(u)' \subseteq Open(u)
  BY <1>2 DEF Open
<1>3. ASSUME NEW t \in Threads, NEW fn \in OpArrays, Enter(t, fn)
      PROVE  PlacesInv'
  <2>1. PICK p \in Places(fn) :
          /\ Open(t)' = Open(t) \cup {[fn |-> fn, opcodes |-> p]}
          /\ \A u \in Threads \ {t} : Open(u)' = Open(u)
          /\ reused' = IF p \in visited[t] \ Shared
                       THEN [reused EXCEPT ![t] = @ \cup {fn}] ELSE reused
    BY <1>3, EnterFacts
  <2> DEFINE f == [fn |-> fn, opcodes |-> p]
  <2>2. f.fn = fn /\ f.opcodes = p
    OBVIOUS
  <2> HIDE DEF f
  <2>3. /\ IF fn \in Shared THEN p = fn ELSE p \in Addresses
        /\ \A u \in Threads : \A g \in Open(u) : g.opcodes = p => g.fn = fn
    BY PlaceFacts
  <2>4. \A u \in Threads : \A g \in Open(u)' : g \in Open(u) \/ g = f
    BY <2>1 DEF f
  <2>5. \A u \in Threads : reused'[u] \cap Shared = {}
    <3>1. \A u \in Threads : reused[u] \cap Shared = {}
      BY DEF PlacesInv
    <3>2. CASE fn \in Shared
      <4>1. p \notin visited[t] \ Shared
        BY <2>3, <3>2
      <4>2. reused' = reused
        BY <2>1, <4>1
      <4> QED
        BY <3>1, <4>2
    <3>3. CASE fn \notin Shared
      <4>1. reused' = reused \/ reused' = [reused EXCEPT ![t] = @ \cup {fn}]
        BY <2>1
      <4>2. \A u \in Threads : reused'[u] \subseteq reused[u] \cup {fn}
        BY <4>1 DEF TypeOK
      <4> QED
        BY <3>1, <3>3, <4>2
    <3> QED
      BY <3>2, <3>3
  <2>6. \A u \in Threads : \A g \in Open(u)' :
          IF g.fn \in Shared THEN g.opcodes = g.fn ELSE g.opcodes \in Addresses
    BY <2>2, <2>3, <2>4 DEF PlacesInv
  <2>7. \A u, v \in Threads : \A g \in Open(u)', h \in Open(v)' :
          g.opcodes = h.opcodes => g.fn = h.fn
    BY <2>2, <2>3, <2>4 DEF PlacesInv
  <2> QED
    BY <2>5, <2>6, <2>7 DEF PlacesInv
<1>4. ASSUME NEW t \in Threads, Leave(t)
      PROVE  PlacesInv'
  BY <1>1, <1>4, LeaveFacts DEF Leave, history
<1>5. ASSUME NEW t \in Threads, Lookup(t) \/ Record(t) \/ Start(t) \/ Stop(t)
      PROVE  PlacesInv'
  <2>1. UNCHANGED <<stack, reused>>
    BY <1>5 DEF Lookup, Record, Start, Stop, engineVars, history
  <2> QED
    BY <1>1, <1>2, <2>1
<1>6. ASSUME NEW t \in Threads, RShutdown(t)
      PROVE  PlacesInv'
  <2>1. UNCHANGED stack /\ reused' = [reused EXCEPT ![t] = {}]
    BY <1>6 DEF RShutdown
  <2>2. \A u \in Threads : reused'[u] \subseteq reused[u]
    BY <2>1 DEF TypeOK
  <2> QED
    BY <1>1, <1>2, <2>1, <2>2
<1>8. ASSUME NEW t \in Threads, RInit(t)
      PROVE  PlacesInv'
  <2>1. UNCHANGED stack
    BY <1>8, RInitFacts
  <2>2. \A u \in Threads : reused'[u] \subseteq reused[u]
    BY <1>8, RInitFacts
  <2> QED
    BY <1>1, <1>2, <2>1, <2>2
<1>7. CASE UNCHANGED vars
  <2>1. UNCHANGED <<stack, reused>>
    BY <1>7 DEF vars, engineVars, history
  <2> QED
    BY <1>1, <1>2, <2>1
<1> QED
  BY <1>3, <1>4, <1>5, <1>6, <1>7, <1>8 DEF Next

LEMMA IdleStep ==
  ASSUME TypeOK, MarkingInv, IdleInv, [Next]_vars
  PROVE  IdleInv'
<1>1. request \in [Threads -> BOOLEAN] /\ DOMAIN files = Threads
  BY DEF TypeOK
<1>2. ASSUME NEW t \in Threads, NEW fn \in OpArrays, Enter(t, fn)
      PROVE  IdleInv'
  <2>1. request[t] /\ UNCHANGED <<request, files, ran, visited>>
    BY <1>2 DEF Enter, globals
  <2>2. \A u \in Threads \ {t} : stack'[u] = stack[u]
    BY <1>2, EnterFacts
  <2> QED
    BY <2>1, <2>2 DEF IdleInv
<1>3. ASSUME NEW t \in Threads, Leave(t)
      PROVE  IdleInv'
  <2>1. UNCHANGED <<request, files, ran, visited>>
    BY <1>3 DEF Leave, globals, history
  <2>2. \A u \in Threads : stack[u] = <<>> => stack'[u] = <<>>
    BY <1>3, LeaveFacts
  <2> QED
    BY <2>1, <2>2 DEF IdleInv
<1>4. ASSUME NEW t \in Threads, Lookup(t)
      PROVE  IdleInv'
  <2>1. PICK f : f = Last(stack[t])
    OBVIOUS
  <2>2. /\ f \in Frames /\ Filled(t) /\ stack[t] # <<>>
        /\ UNCHANGED <<request, stack, files>>
        /\ \/ \E b \in Nat : MarkedRan(t, f.fn, b)
           \/ ran' = ran
    BY <1>4, <2>1, LookupFacts
  <2>3. f.fn \in OpArrays
    BY <2>2 DEF Frames
  <2>4. \A u \in Threads : u # t => ran'[u] = ran[u]
    BY <2>2, <2>3, RanAfterMark
  <2> QED
    BY <2>2, <2>4 DEF IdleInv, Filled
<1>5. ASSUME NEW t \in Threads, Record(t)
      PROVE  IdleInv'
  <2>1. PICK f, b : f = Last(stack[t]) /\ b = marking[t].block
    OBVIOUS
  <2>2. /\ f \in Frames /\ stack[t] # <<>> /\ UNCHANGED <<request, stack, visited>>
        /\ MarkedFiles(t, f) /\ b \in Nat /\ MarkedRan(t, f.fn, b)
    BY <1>5, <2>1, RecordFacts
  <2>3. f.fn \in OpArrays
    BY <2>2 DEF Frames
  <2>4. \A u \in Threads : u # t => ran'[u] = ran[u]
    BY <2>2, <2>3, RanAfterMark
  <2> QED
    BY <2>2, <2>4 DEF IdleInv, MarkedFiles
<1>6. ASSUME NEW t \in Threads, Start(t)
      PROVE  IdleInv'
  <2>1. request[t] /\ UNCHANGED <<request, stack, files, ran>>
    BY <1>6 DEF IdleInv, Start, engineVars
  <2>2. \A u \in Threads : u # t => visited'[u] = visited[u]
    BY <1>6, StartFacts DEF Filled
  <2> QED
    BY <2>1, <2>2 DEF IdleInv
<1>7. ASSUME NEW t \in Threads, Stop(t)
      PROVE  IdleInv'
  BY <1>7 DEF IdleInv, Stop, engineVars, history
<1>8. ASSUME NEW t \in Threads, RInit(t)
      PROVE  IdleInv'
  <2>1. \A u \in Threads : ran[u] = {} => ran'[u] = {}
    BY <1>8, RInitFacts
  <2>2. \A u \in Threads : visited[u] = {} => visited'[u] = {}
    BY <1>8, RInitFacts
  <2>3. /\ request'[t] /\ \A u \in Threads : u # t => request'[u] = request[u]
        /\ \A u \in Threads : u # t => files'[u] = files[u]
        /\ UNCHANGED stack
    BY <1>8, RInitFacts
  <2> QED
    BY <2>1, <2>2, <2>3 DEF IdleInv
<1>9. ASSUME NEW t \in Threads, RShutdown(t)
      PROVE  IdleInv'
  <2>1. /\ ran' = [ran EXCEPT ![t] = {}] /\ visited' = [visited EXCEPT ![t] = {}]
        /\ stack[t] = <<>> /\ UNCHANGED stack
        /\ request' = [request EXCEPT ![t] = FALSE]
    BY <1>9 DEF RShutdown
  <2>2. DOMAIN files'[t] = {} /\ \A u \in Threads : u # t => DOMAIN files'[u] = DOMAIN files[u]
    BY <1>9, RShutdownFacts
  <2>3. ran'[t] = {} /\ visited'[t] = {} /\ stack'[t] = <<>>
    BY <2>1 DEF TypeOK
  <2>4. \A u \in Threads : u # t => /\ ran'[u] = ran[u] /\ visited'[u] = visited[u]
                                    /\ stack'[u] = stack[u] /\ request'[u] = request[u]
    BY <2>1 DEF TypeOK
  <2> QED
    BY <2>2, <2>3, <2>4 DEF IdleInv
<1>10. CASE UNCHANGED vars
  BY <1>10 DEF IdleInv, vars, engineVars, history, globals
<1> QED
  BY <1>2, <1>3, <1>4, <1>5, <1>6, <1>7, <1>8, <1>9, <1>10 DEF Next

LEMMA RanStep ==
  ASSUME TypeOK, MarkingInv, RanBlocks, [Next]_vars
  PROVE  RanBlocks'
<1>1. UNCHANGED ran => RanBlocks'
  BY DEF RanBlocks, RanOf
<1>2. ASSUME NEW t \in Threads, NEW f \in Frames, NEW b \in Nat, b \in Blocks(f.fn),
             MarkedRan(t, f.fn, b)
      PROVE  RanBlocks'
  <2>1. f.fn \in OpArrays
    BY DEF Frames
  <2>2. RanGrown(t, f.fn, b)
    BY <1>2, <2>1, RanAfterMark
  <2>3. \A u \in Threads, g \in OpArrays :
          RanOf(u, g)' = RanOf(u, g) \cup Noted(t, IF u = t /\ g = f.fn THEN {b} ELSE {})
    BY <2>2 DEF RanGrown
  <2>4. \A S : Noted(t, S) \subseteq S
    BY DEF Noted
  <2>5. \A u \in Threads, g \in OpArrays :
          RanOf(u, g)' \subseteq RanOf(u, g) \cup (IF u = t /\ g = f.fn THEN {b} ELSE {})
    BY <2>3, <2>4
  <2>6. \A g : Blocks(g)' = Blocks(g)
    BY DEF Blocks
  <2> QED
    BY <1>2, <2>1, <2>5, <2>6 DEF RanBlocks
<1>3. ASSUME NEW t \in Threads, Lookup(t)
      PROVE  RanBlocks'
  <2>1. PICK f : f = Last(stack[t])
    OBVIOUS
  <2>2. f \in Frames /\ (ran' = ran \/ \E b \in Blocks(f.fn) : b \in Nat /\ MarkedRan(t, f.fn, b))
    BY <1>3, <2>1, LookupFacts
  <2> QED
    BY <1>1, <1>2, <2>2
<1>4. ASSUME NEW t \in Threads, Record(t)
      PROVE  RanBlocks'
  <2>1. PICK f, b : f = Last(stack[t]) /\ b = marking[t].block
    OBVIOUS
  <2>2. f \in Frames /\ b \in Blocks(f.fn) /\ b \in Nat /\ MarkedRan(t, f.fn, b)
    BY <1>4, <2>1, RecordFacts
  <2> QED
    BY <1>2, <2>2
<1>5. ASSUME \A u \in Threads : ran'[u] = ran[u] \/ ran'[u] = {}
      PROVE  RanBlocks'
  BY <1>5 DEF RanBlocks, RanOf, Blocks
<1>6. ASSUME NEW t \in Threads, RInit(t) \/ RShutdown(t)
      PROVE  RanBlocks'
  <2>1. RInit(t) => \A u \in Threads : ran'[u] = ran[u] \/ ran'[u] = {}
    BY RInitFacts
  <2>2. RShutdown(t) => \A u \in Threads : ran'[u] = ran[u] \/ ran'[u] = {}
    BY DEF RShutdown, TypeOK
  <2> QED
    BY <1>5, <1>6, <2>1, <2>2
<1> QED
  BY <1>1, <1>3, <1>4, <1>6 DEF Next, Enter, Leave, Start, Stop, vars, history

-----------------------------------------------------------------------------
\* Marks in progress.

LEMMA MarkingStep ==
  ASSUME TypeOK, IdleInv, AloneInv, MarkingInv, [Next]_vars
  PROVE  MarkingInv'
<1> DEFINE M == marking
           T == fxd_analysis_cache
           Kept(u) == /\ stack'[u] = stack[u] /\ coverage_active'[u] = coverage_active[u]
                      /\ u \in overlapped => u \in overlapped'
                      /\ DOMAIN T \subseteq DOMAIN T'
<1>1. ASSUME NEW u \in DOMAIN M, u \in DOMAIN M', M'[u] = M[u], Kept(u)
      PROVE  /\ stack'[u] # <<>> /\ coverage_active'[u]
             /\ M'[u].block \in Blocks(Last(stack'[u]).fn)
             /\ \/ M'[u].analysis = DANGLING /\ u \in overlapped'
                \/ M'[u].analysis = Last(stack'[u]).opcodes /\ M'[u].analysis \in DOMAIN T'
  BY <1>1 DEF MarkingInv
<1>2. ASSUME \A u \in DOMAIN M' : u \in DOMAIN M /\ M'[u] = M[u] /\ Kept(u)
      PROVE  MarkingInv'
  BY <1>1, <1>2 DEF MarkingInv, Blocks
<1>3. ASSUME NEW u \in DOMAIN M
      PROVE  u \in Threads /\ stack[u] # <<>> /\ request[u]
  BY TableTypes DEF MarkingInv, IdleInv
<1>4. CASE UNCHANGED vars
  BY <1>2, <1>4 DEF vars, engineVars, globals, history
<1>5. ASSUME NEW t \in Threads, NEW fn \in OpArrays, Enter(t, fn)
      PROVE  MarkingInv'
  <2>1. /\ UNCHANGED <<marking, fxd_analysis_cache, coverage_active, overlapped>>
        /\ t \notin DOMAIN M
    BY <1>5 DEF Enter, globals
  <2>2. \A u \in Threads \ {t} : stack'[u] = stack[u]
    BY <1>5, EnterFacts
  <2> QED
    BY <1>2, <1>3, <2>1, <2>2
<1>6. ASSUME NEW t \in Threads, Leave(t) \/ Stop(t)
      PROVE  MarkingInv'
  <2>1. /\ UNCHANGED <<marking, fxd_analysis_cache, overlapped>>
        /\ t \notin DOMAIN M
    BY <1>6 DEF Leave, Stop, globals, history
  <2>2. \A u \in Threads \ {t} : stack'[u] = stack[u] /\ coverage_active'[u] = coverage_active[u]
    BY <1>6 DEF Leave, Stop, TypeOK, engineVars, globals
  <2> QED
    BY <1>2, <1>3, <2>1, <2>2
<1>7. ASSUME NEW t \in Threads, Lookup(t)
      PROVE  MarkingInv'
  <2>1. PICK f : f = Last(stack[t])
    OBVIOUS
  <2>2. /\ stack[t] # <<>> /\ coverage_active[t] /\ Filled(t)
        /\ UNCHANGED <<stack, coverage_active, overlapped>>
        /\ \E b \in Blocks(f.fn) :
             \/ UNCHANGED marking
             \/ /\ f.opcodes \in DOMAIN fxd_analysis_cache'
                /\ DOMAIN marking' = DOMAIN marking \cup {t}
                /\ marking'[t] = [block |-> b, analysis |-> f.opcodes]
                /\ \A u \in DOMAIN marking : u # t => marking'[u] = marking[u]
    <3>1. PICK b \in Blocks(f.fn) :
             \/ /\ sat_last_opcodes[t] = f.opcodes
                /\ MarkedRan(t, f.fn, b) /\ UNCHANGED <<fxd_analysis_cache, marking>>
             \/ /\ ran' = ran
                /\ f.opcodes \in DOMAIN fxd_analysis_cache'
                /\ DOMAIN marking' = DOMAIN marking \cup {t}
                /\ marking'[t] = [block |-> b, analysis |-> f.opcodes]
                /\ \A u \in DOMAIN marking : u # t => marking'[u] = marking[u]
      BY <1>7, <2>1, LookupFacts
    <3>2. /\ stack[t] # <<>> /\ coverage_active[t] /\ Filled(t)
          /\ UNCHANGED <<stack, coverage_active, overlapped>>
      BY <1>7, <2>1, LookupFacts
    <3> QED
      BY <3>1, <3>2
  <2>6. DOMAIN T \subseteq DOMAIN T'
    BY <2>2 DEF Filled
  <2>3. t \notin DOMAIN M
    BY <1>7 DEF Lookup
  <2>4. CASE UNCHANGED marking
    BY <1>2, <2>2, <2>4, <2>6
  <2>5. ASSUME NEW b \in Blocks(f.fn), f.opcodes \in DOMAIN T', DOMAIN M' = DOMAIN M \cup {t},
               M'[t] = [block |-> b, analysis |-> f.opcodes],
               \A u \in DOMAIN M : u # t => M'[u] = M[u]
        PROVE  MarkingInv'
    <3>1. \A u \in DOMAIN M : u \in DOMAIN M' /\ M'[u] = M[u] /\ Kept(u)
      BY <2>2, <2>3, <2>5, <2>6
    <3>2. /\ stack'[t] # <<>> /\ coverage_active'[t] /\ Last(stack'[t]) = f
          /\ M'[t].block \in Blocks(f.fn)
          /\ M'[t].analysis = f.opcodes /\ M'[t].analysis \in DOMAIN T'
      BY <2>1, <2>2, <2>5
    <3> QED
      BY <1>1, <2>5, <3>1, <3>2 DEF MarkingInv, Blocks
  <2> QED
    BY <2>2, <2>4, <2>5
<1>8. ASSUME NEW t \in Threads, Record(t)
      PROVE  MarkingInv'
  <2>1. PICK f : f = Last(stack[t])
    OBVIOUS
  <2>2. /\ DOMAIN M' = DOMAIN M \ {t} /\ \A u \in DOMAIN M' : M'[u] = M[u]
        /\ UNCHANGED <<stack, coverage_active, overlapped>>
        /\ DOMAIN T' = DOMAIN T
    BY <1>8, <2>1, RecordFacts DEF MarkedTable
  <2> QED
    BY <1>2, <2>2
<1>9. ASSUME NEW t \in Threads, Start(t)
      PROVE  MarkingInv'
  <2>1. /\ UNCHANGED <<marking, stack, overlapped>> /\ t \notin DOMAIN M
        /\ \A u \in Threads \ {t} : coverage_active'[u] = coverage_active[u]
    BY <1>9 DEF Start, TypeOK, engineVars
  <2>2. DOMAIN T \subseteq DOMAIN T'
    BY <1>9, StartFacts DEF Filled
  <2> QED
    BY <1>2, <1>3, <2>1, <2>2
<1>10. ASSUME NEW t \in Threads, RInit(t)
       PROVE  MarkingInv'
  <2>1. /\ UNCHANGED <<stack, fxd_analysis_cache, marking>> /\ ~request[t]
        /\ coverage_active' = [coverage_active EXCEPT ![t] = FALSE]
        /\ (\A u \in Threads : ~request[u]) \/ overlapped \subseteq overlapped'
    BY <1>10, RInitFacts
  <2>2. \A u \in Threads \ {t} : coverage_active'[u] = coverage_active[u]
    BY <2>1 DEF TypeOK
  <2> QED
    BY <1>2, <1>3, <2>1, <2>2
<1>11. ASSUME NEW t \in Threads, RShutdown(t)
       PROVE  MarkingInv'
  <2>1. /\ DOMAIN M' = DOMAIN M
        /\ \A u \in DOMAIN M : M'[u].block = M[u].block /\ M'[u].analysis = DANGLING
    BY <1>11, RShutdownFacts
  <2>2. request[t] /\ stack[t] = <<>> /\ UNCHANGED <<stack, coverage_active, overlapped>>
    BY <1>11 DEF RShutdown
  <2>3. \A u \in DOMAIN M : u \in overlapped
    BY <1>3, <2>2 DEF AloneInv
  <2> QED
    BY <2>1, <2>2, <2>3 DEF MarkingInv, Blocks
<1> QED
  BY <1>4, <1>5, <1>6, <1>7, <1>8, <1>9, <1>10, <1>11 DEF Next

-----------------------------------------------------------------------------
\* Whose analysis is cached.

LEMMA SharedPlace ==
  ASSUME PlacesInv, NEW t \in Threads, NEW f \in Open(t), f.opcodes \in Shared
  PROVE  f.fn = f.opcodes
BY AnalysisCacheAssumption DEF PlacesInv

\* A thread that has frames and runs alone is the only one in a request.
LEMMA OnlyOne ==
  ASSUME IdleInv, AloneInv, NEW t \in Threads, stack[t] # <<>>, NEW u \in Threads, request[u],
         t \notin overlapped \/ u \notin overlapped
  PROVE  u = t
BY DEF IdleInv, AloneInv

LEMMA CacheStep ==
  ASSUME TypeOK, PlacesInv, IdleInv, MarkingInv, CacheInv, AloneInv, [Next]_vars
  PROVE  CacheInv'
<1> DEFINE T == fxd_analysis_cache
           Visited == \A p \in DOMAIN T :
                        \E u \in Threads : request[u] /\ (u \in overlapped \/ p \in visited[u])
           OfShared == \A p \in DOMAIN T \cap Shared : T[p].of = p
           OfFrames == \A u \in Threads \ overlapped : \A g \in Open(u) :
                         g.fn \notin reused[u] /\ g.opcodes \in DOMAIN T => T[g.opcodes].of = g.fn
<1>1. Visited /\ OfShared /\ OfFrames /\ (Visited' /\ OfShared' /\ OfFrames' => CacheInv')
  BY DEF CacheInv
<1>2. ASSUME DOMAIN T' = DOMAIN T, \A p \in DOMAIN T : T'[p].of = T[p].of,
             UNCHANGED overlapped,
             \A u \in Threads : request[u] => request'[u],
             \A u \in Threads : visited[u] \subseteq visited'[u],
             \A u \in Threads : Open(u)' \subseteq Open(u),
             \A u \in Threads : reused[u] \subseteq reused'[u]
      PROVE  CacheInv'
  <2>1. Visited'
    BY <1>1, <1>2
  <2>2. OfShared'
    BY <1>1, <1>2
  <2>3. OfFrames'
    BY <1>1, <1>2
  <2> QED
    BY <1>1, <2>1, <2>2, <2>3
<1>3. ASSUME UNCHANGED stack
      PROVE  \A u \in Threads : Open(u)' = Open(u)
  BY <1>3 DEF Open
<1>4. ASSUME NEW t \in Threads, NEW fn \in OpArrays, Enter(t, fn)
      PROVE  CacheInv'
  <2>1. PICK p \in Places(fn) :
          /\ Open(t)' = Open(t) \cup {[fn |-> fn, opcodes |-> p]}
          /\ \A u \in Threads \ {t} : Open(u)' = Open(u)
          /\ reused' = IF p \in visited[t] \ Shared
                       THEN [reused EXCEPT ![t] = @ \cup {fn}] ELSE reused
    BY <1>4, EnterFacts
  <2> DEFINE f == [fn |-> fn, opcodes |-> p]
  <2>2. f.fn = fn /\ f.opcodes = p
    OBVIOUS
  <2> HIDE DEF f
  <2>3. request[t] /\ UNCHANGED <<fxd_analysis_cache, request, visited, overlapped>>
    BY <1>4 DEF Enter
  <2>4. \A u \in Threads : reused[u] \subseteq reused'[u]
    BY <2>1 DEF TypeOK
  <2>5. ASSUME t \notin overlapped, fn \notin reused'[t], p \in DOMAIN T
        PROVE  T[p].of = fn
    <3>1. CASE fn \in Shared
      <4>1. p = fn
        BY <3>1 DEF Places
      <4> QED
        BY <1>1, <2>5, <3>1, <4>1
    <3>2. CASE fn \notin Shared
      <4>1. p \notin Shared
        BY <3>2, AnalysisCacheAssumption DEF Places
      <4>2. p \in visited[t]
        BY <1>1, <2>3, <2>5 DEF AloneInv
      <4>3. reused' = [reused EXCEPT ![t] = @ \cup {fn}]
        BY <2>1, <4>1, <4>2
      <4>4. fn \in reused'[t]
        BY <4>3 DEF TypeOK
      <4> QED
        BY <2>5, <4>4
    <3> QED
      BY <3>1, <3>2
  <2>6. \A u \in Threads : \A g \in Open(u)' : g \in Open(u) \/ (u = t /\ g = f)
    BY <2>1 DEF f
  <2>7. OfFrames'
    BY <1>1, <2>2, <2>3, <2>4, <2>5, <2>6
  <2> QED
    BY <1>1, <2>3, <2>7
<1>5. ASSUME NEW t \in Threads, Leave(t)
      PROVE  CacheInv'
  <2>1. UNCHANGED <<fxd_analysis_cache, request, visited, reused, overlapped>>
    BY <1>5 DEF Leave, history
  <2> QED
    BY <1>2, <1>5, <2>1, LeaveFacts
<1>6. ASSUME NEW t \in Threads, Filled(t), stack[t] # <<>>,
             UNCHANGED <<request, stack, reused, overlapped>>
      PROVE  CacheInv'
  <2>1. /\ DOMAIN T \subseteq DOMAIN T' /\ \A p \in DOMAIN T : T'[p] = T[p]
        /\ visited[t] \subseteq visited'[t] /\ \A u \in Threads : u # t => visited'[u] = visited[u]
        /\ \A p \in DOMAIN T' \ DOMAIN T : t \in overlapped \/ p \in visited'[t]
    BY <1>6 DEF Filled
  <2>2. \A p \in DOMAIN T' \ DOMAIN T : \E f \in Open(t) : f.opcodes = p /\ T'[p].of = f.fn
    <3>1. \A p \in DOMAIN T' \ DOMAIN T :
            \E f \in Open(t) : f.opcodes = p /\ T'[p] = NewAnalysis(f.fn)
      BY <1>6 DEF Filled
    <3>2. \A fn : NewAnalysis(fn).of = fn
      BY DEF NewAnalysis
    <3> QED
      BY <3>1, <3>2
  <2>3. request[t]
    BY <1>6 DEF IdleInv
  <2>4. Visited'
    <3> SUFFICES ASSUME NEW p \in DOMAIN T'
                 PROVE  \E u \in Threads : request[u] /\ (u \in overlapped \/ p \in visited'[u])
      BY <1>6
    <3>1. CASE p \in DOMAIN T
      BY <1>1, <2>1, <3>1
    <3>2. CASE p \notin DOMAIN T
      BY <2>1, <2>3, <3>2
    <3> QED
      BY <3>1, <3>2
  <2>5. OfShared'
    <3> SUFFICES ASSUME NEW p \in DOMAIN T' \cap Shared
                 PROVE  T'[p].of = p
      OBVIOUS
    <3>1. CASE p \in DOMAIN T
      BY <1>1, <2>1, <3>1
    <3>2. CASE p \notin DOMAIN T
      <4>1. PICK f \in Open(t) : f.opcodes = p /\ T'[p].of = f.fn
        BY <2>2, <3>2
      <4> QED
        BY <4>1, SharedPlace
    <3> QED
      BY <3>1, <3>2
  <2>6. OfFrames'
    <3> SUFFICES ASSUME NEW u \in Threads \ overlapped, NEW g \in Open(u), g.fn \notin reused[u],
                        g.opcodes \in DOMAIN T'
                 PROVE  T'[g.opcodes].of = g.fn
      BY <1>3, <1>6
    <3>1. CASE g.opcodes \in DOMAIN T
      BY <1>1, <2>1, <3>1
    <3>2. CASE g.opcodes \notin DOMAIN T
      <4>1. PICK f \in Open(t) : f.opcodes = g.opcodes /\ T'[g.opcodes].of = f.fn
        BY <2>2, <3>2
      <4> QED
        BY <4>1 DEF PlacesInv
    <3> QED
      BY <3>1, <3>2
  <2> QED
    BY <1>1, <2>4, <2>5, <2>6
<1>7. ASSUME NEW t \in Threads, Lookup(t)
      PROVE  CacheInv'
  <2>1. Filled(t) /\ stack[t] # <<>> /\ UNCHANGED <<request, stack, reused, overlapped>>
    BY <1>7, LookupFacts
  <2> QED
    BY <1>6, <2>1
<1>12. ASSUME NEW t \in Threads, Record(t)
       PROVE  CacheInv'
  <2>1. MarkedTable(t) /\ UNCHANGED <<request, stack, visited, reused, overlapped>>
    BY <1>12, RecordFacts
  <2>2. DOMAIN T' = DOMAIN T /\ \A p \in DOMAIN T : T'[p].of = T[p].of
    BY <2>1 DEF MarkedTable
  <2> QED
    BY <1>2, <1>3, <2>1, <2>2
<1>13. ASSUME NEW t \in Threads, Start(t)
       PROVE  CacheInv'
  <2>1. stack[t] # <<>> /\ UNCHANGED <<request, stack, reused, overlapped>>
    BY <1>13 DEF Start, engineVars
  <2> QED
    BY <1>6, <1>13, <2>1, StartFacts
<1>8. ASSUME NEW t \in Threads, Stop(t)
      PROVE  CacheInv'
  <2>1. UNCHANGED <<fxd_analysis_cache, request, stack, visited, reused, overlapped>>
    BY <1>8 DEF Stop, engineVars, history
  <2> QED
    BY <1>2, <1>3, <2>1
<1>9. ASSUME NEW t \in Threads, RInit(t)
      PROVE  CacheInv'
  <2>1. UNCHANGED <<fxd_analysis_cache, stack>> /\ \A u \in Threads : request[u] => request'[u]
    BY <1>9, RInitFacts
  <2>2. CASE \A u \in Threads : ~request[u]
    <3>1. DOMAIN T' = {}
      BY <1>1, <2>1, <2>2
    <3> QED
      BY <1>1, <3>1
  <2>3. CASE /\ \E u \in Threads : request[u]
             /\ \A u \in Threads : request'[u] => u \in overlapped'
    <3>1. \A u \in Threads \ overlapped' : Open(u)' = {}
      <4>1. \A u \in Threads \ overlapped' : stack'[u] = <<>>
        BY <2>1, <2>3 DEF IdleInv
      <4> QED
        BY <4>1 DEF Open, Range
    <3> QED
      BY <1>1, <2>1, <2>3, <3>1
  <2> QED
    BY <1>9, <2>2, <2>3, RInitFacts
<1>10. ASSUME NEW t \in Threads, RShutdown(t)
       PROVE  CacheInv'
  <2>1. DOMAIN T' = {}
    BY <1>10, RShutdownFacts
  <2> QED
    BY <1>1, <2>1
<1>11. CASE UNCHANGED vars
  <2>1. UNCHANGED <<fxd_analysis_cache, request, stack, visited, reused, overlapped>>
    BY <1>11 DEF vars, engineVars, history
  <2> QED
    BY <1>2, <1>3, <2>1
<1> QED
  BY <1>4, <1>5, <1>7, <1>8, <1>9, <1>10, <1>11, <1>12, <1>13 DEF Next

-----------------------------------------------------------------------------
\* Threads that run alone.

LEMMA AloneStep ==
  ASSUME TypeOK, IdleInv, MarkingInv, CacheInv, AloneInv, [Next]_vars
  PROVE  AloneInv'
<1> DEFINE T == fxd_analysis_cache
           gen == sat_generation
           Alone == \A t, u \in Threads : request[t] /\ request[u] /\ t # u => t \in overlapped
           Older == \A t \in Threads \ overlapped : request[t] =>
                      \A p \in DOMAIN T : T[p].saturated <= gen[t]
           Begun == \A t \in Threads : coverage_active[t] => gen[t] > 0
<1>1. Alone /\ Older /\ Begun /\ (Alone' /\ Older' /\ Begun' => AloneInv')
  BY DEF AloneInv
<1>2. UNCHANGED <<request, overlapped>> => Alone'
  BY <1>1
<1>3. UNCHANGED <<request, overlapped, fxd_analysis_cache, sat_generation>> => Older'
  BY <1>1
<1>4. UNCHANGED <<coverage_active, sat_generation>> => Begun'
  BY <1>1
<1>5. gen \in [Threads -> Nat] /\ request \in [Threads -> BOOLEAN]
      /\ coverage_active \in [Threads -> BOOLEAN]
  BY DEF TypeOK
<1>6. ASSUME NEW t \in Threads, stack[t] # <<>>, NEW u \in Threads \ overlapped, request[u]
      PROVE  u = t
  BY <1>6, OnlyOne
<1>7. CASE UNCHANGED vars
  BY <1>1, <1>2, <1>3, <1>4, <1>7 DEF vars, engineVars, globals, history
<1>8. ASSUME NEW t \in Threads, NEW fn \in OpArrays, Enter(t, fn)
      PROVE  AloneInv'
  BY <1>1, <1>2, <1>3, <1>4, <1>8 DEF Enter, globals
<1>9. ASSUME NEW t \in Threads, Leave(t)
      PROVE  AloneInv'
  BY <1>1, <1>2, <1>3, <1>4, <1>9 DEF Leave, globals, history
<1>16. ASSUME NEW t \in Threads, Filled(t), stack[t] # <<>>,
              UNCHANGED <<request, overlapped>>,
              gen'[t] \in Nat, gen'[t] >= gen[t], \A u \in Threads : u # t => gen'[u] = gen[u]
       PROVE  Older'
  <2> SUFFICES ASSUME NEW u \in Threads \ overlapped, request[u], NEW p \in DOMAIN T'
               PROVE  T'[p].saturated <= gen'[u]
    BY <1>16
  <2>1. u = t
    BY <1>6, <1>16
  <2>2. CASE p \in DOMAIN T
    <3>1. T'[p] = T[p] /\ T[p].saturated <= gen[t]
      BY <1>1, <1>16, <2>1, <2>2 DEF Filled
    <3>2. T[p].saturated \in Nat
      BY <2>2, TableTypes DEF Analyses
    <3> QED
      BY <1>5, <1>16, <2>1, <3>1, <3>2
  <2>3. CASE p \notin DOMAIN T
    <3>1. \A q \in DOMAIN T' \ DOMAIN T :
            \E f \in Open(t) : f.opcodes = q /\ T'[q] = NewAnalysis(f.fn)
      BY <1>16 DEF Filled
    <3>2. \A fn : NewAnalysis(fn).saturated = 0
      BY DEF NewAnalysis
    <3>3. T'[p].saturated = 0
      BY <2>3, <3>1, <3>2
    <3> QED
      BY <1>16, <2>1, <3>3
  <2> QED
    BY <2>2, <2>3
<1>10. ASSUME NEW t \in Threads, Lookup(t)
       PROVE  AloneInv'
  <2>1. /\ UNCHANGED <<request, overlapped, coverage_active, sat_generation>> /\ stack[t] # <<>>
        /\ Filled(t)
    BY <1>10, LookupFacts
  <2>2. Alone' /\ Begun'
    BY <1>2, <1>4, <2>1
  <2>3. Older'
    BY <1>5, <1>16, <2>1
  <2> QED
    BY <1>1, <2>2, <2>3
<1>15. ASSUME NEW t \in Threads, Record(t)
       PROVE  AloneInv'
  <2>1. /\ UNCHANGED <<request, overlapped, coverage_active, sat_generation>> /\ stack[t] # <<>>
        /\ MarkedTable(t)
    BY <1>15, RecordFacts
  <2>2. Alone' /\ Begun'
    BY <1>2, <1>4, <2>1
  <2>3. Older'
    <3> SUFFICES ASSUME NEW u \in Threads \ overlapped, request[u], NEW p \in DOMAIN T'
                 PROVE  T'[p].saturated <= gen[u]
      BY <2>1
    <3>1. u = t
      BY <1>6, <2>1
    <3>2. p \in DOMAIN T /\ (T'[p] = T[p] \/ T'[p].saturated = gen[t])
      BY <2>1 DEF MarkedTable
    <3> QED
      BY <1>1, <1>5, <3>1, <3>2
  <2> QED
    BY <1>1, <2>2, <2>3
<1>11. ASSUME NEW t \in Threads, Start(t)
       PROVE  AloneInv'
  <2>1. /\ UNCHANGED <<request, overlapped>> /\ stack[t] # <<>>
        /\ coverage_active' = [coverage_active EXCEPT ![t] = TRUE]
        /\ gen' = [gen EXCEPT ![t] = @ + 1]
    BY <1>11 DEF Start, engineVars
  <2>2. gen'[t] = gen[t] + 1 /\ \A u \in Threads : u # t => gen'[u] = gen[u]
    BY <1>5, <2>1
  <2>3. Alone'
    BY <1>2, <2>1
  <2>4. Begun'
    <3>1. \A u \in Threads : u # t => coverage_active'[u] = coverage_active[u]
      BY <1>5, <2>1
    <3>2. gen'[t] > 0
      BY <1>5, <2>2
    <3> QED
      BY <1>1, <2>2, <3>1, <3>2
  <2>5. Older'
    BY <1>5, <1>11, <1>16, <2>1, <2>2, StartFacts
  <2> QED
    BY <1>1, <2>3, <2>4, <2>5
<1>12. ASSUME NEW t \in Threads, Stop(t)
       PROVE  AloneInv'
  <2>1. /\ UNCHANGED <<request, overlapped, fxd_analysis_cache, sat_generation>>
        /\ coverage_active' = [coverage_active EXCEPT ![t] = FALSE]
    BY <1>12 DEF Stop, engineVars, history
  <2>2. Begun'
    BY <1>1, <1>5, <2>1
  <2> QED
    BY <1>1, <1>2, <1>3, <2>1, <2>2
<1>13. ASSUME NEW t \in Threads, RInit(t)
       PROVE  AloneInv'
  <2>1. /\ UNCHANGED <<fxd_analysis_cache, sat_generation>>
        /\ coverage_active' = [coverage_active EXCEPT ![t] = FALSE]
        /\ \A u \in Threads : u # t => request'[u] = request[u]
    BY <1>13, RInitFacts
  <2>2. Begun'
    BY <1>1, <1>5, <2>1
  <2>3. CASE \A u \in Threads : ~request[u]
    <3>1. Alone'
      BY <2>1, <2>3
    <3>2. DOMAIN T = {}
      BY <2>3 DEF CacheInv
    <3> QED
      BY <1>1, <2>1, <2>2, <3>1, <3>2
  <2>4. CASE \A u \in Threads : request'[u] => u \in overlapped'
    BY <1>1, <2>2, <2>4
  <2> QED
    BY <1>13, <2>3, <2>4, RInitFacts
<1>14. ASSUME NEW t \in Threads, RShutdown(t)
       PROVE  AloneInv'
  <2>1. /\ UNCHANGED <<coverage_active, sat_generation, overlapped>>
        /\ request' = [request EXCEPT ![t] = FALSE]
    BY <1>14 DEF RShutdown
  <2>2. \A u \in Threads : request'[u] => request[u]
    BY <1>5, <2>1
  <2>3. DOMAIN T' = {}
    BY <1>14, RShutdownFacts
  <2> QED
    BY <1>1, <1>4, <2>1, <2>2, <2>3
<1> QED
  BY <1>7, <1>8, <1>9, <1>10, <1>11, <1>12, <1>13, <1>14, <1>15 DEF Next

-----------------------------------------------------------------------------
\* A function that is marked complete has every block recorded.

\* All blocks but one, and that one.
LEMMA LastBlock ==
  ASSUME NEW fn \in OpArrays, NEW hit \in SUBSET Blocks(fn), NEW b \in Blocks(fn), b \notin hit,
         Cardinality(hit) + 1 >= NumBlocks[fn]
  PROVE  Blocks(fn) \subseteq hit \cup {b}
<1> DEFINE n == NumBlocks[fn]
           S == 0 .. n - 1
<1>1. n \in Nat \ {0} /\ Blocks(fn) = S
  BY AnalysisCacheAssumption DEF Blocks
<1> HIDE DEF n
<1>2. IsFiniteSet(S) /\ Cardinality(S) = n
  BY <1>1, FS_Interval
<1>3. hit \cup {b} \subseteq S
  BY <1>1
<1> HIDE DEF S
<1>4. IsFiniteSet(hit)
  BY <1>1, <1>2, FS_Subset
<1>5. Cardinality(hit) \in Nat /\ Cardinality(hit \cup {b}) = Cardinality(hit) + 1
  BY <1>4, FS_AddElement, FS_CardinalityType
<1>6. Cardinality(hit \cup {b}) <= n /\ (Cardinality(hit \cup {b}) = n => hit \cup {b} = S)
  BY <1>2, <1>3, FS_Subset
<1>7. Cardinality(hit) + 1 >= n
  BY DEF n
<1> QED
  BY <1>1, <1>5, <1>6, <1>7


\* analysis, or finds every block recorded.

\* A block that the slot lets pass is of a function with every block recorded.
LEMMA SlotComplete ==
  ASSUME TypeOK, AloneInv, MarkInv,
         NEW t \in Threads \ overlapped, request[t], coverage_active[t],
         NEW f, f \in Open(t), f.fn \notin reused[t], sat_last_opcodes[t] = f.opcodes
  PROVE  Full(t, f.fn)
<1>1. f.opcodes # NULL
  BY OpenFacts, AnalysisCacheAssumption DEF Pointers
<1>2. MarksTrue(t)
  BY DEF AloneInv, MarkInv
<1> QED
  BY <1>1, <1>2 DEF MarksTrue

\* A record adds the block to a function that has its own analysis, or finds
\* every block recorded; it marks no other analysis, and sets the slot only to
\* a marked one.
LEMMA RecordComplete ==
  ASSUME TypeOK, MarkingInv, CacheInv, AloneInv, RanBlocks, MarkInv, RecordsUnlessReused,
         NEW t \in Threads \ overlapped, request[t], Record(t),
         NEW f, f = Last(stack[t])
  PROVE  /\ MarkedHit(t, f, marking[t].block)
         /\ f.fn \notin reused[t] =>
              /\ Owner(t) = f.fn
              /\ marking[t].block \in HitOf(t, f.fn)'
              /\ Marked(t, f.opcodes)' => Full(t, f.fn)'
         /\ \A p \in DOMAIN fxd_analysis_cache :
              p # f.opcodes => fxd_analysis_cache'[p] = fxd_analysis_cache[p]
         /\ \/ sat_last_opcodes'[t] = sat_last_opcodes[t]
            \/ sat_last_opcodes'[t] = f.opcodes /\ Marked(t, f.opcodes)'
<1>1. PICK p, b, an : p = f.opcodes /\ b = marking[t].block /\ an = fxd_analysis_cache[f.opcodes]
  OBVIOUS
<1> DEFINE gen == sat_generation[t]
           hit == HitOf(t, f.fn)
           hit2 == HitOf(t, f.fn)'
<1>2. t \in DOMAIN marking /\ stack[t] # <<>> /\ b \in Blocks(f.fn) /\ coverage_active[t]
      /\ sat_generation' = sat_generation
  BY <1>1, RecordFacts
<1>3. marking[t].analysis # DANGLING
  <2>1. marking[t].analysis = f.opcodes
    BY <1>2 DEF MarkingInv
  <2>2. f.opcodes \in Pointers
    BY <1>2, OpenFacts
  <2> QED
    BY <2>1, <2>2, AnalysisCacheAssumption DEF Pointers
<1>4. /\ f \in Open(t) /\ f \in Frames /\ b \in Nat
      /\ p \in DOMAIN fxd_analysis_cache /\ an \in Analyses
      /\ Owner(t) = an.of
      /\ MarkUnder(t, b, an, NumBlocks[an.of])
      /\ marking[t].analysis = p
  BY <1>1, <1>3, LiveRecord
<1>5. f.fn \in OpArrays /\ Owner(t) \in OpArrays /\ an.saturated \in Nat
  BY <1>4 DEF Frames, Analyses
<1>6. /\ MarkedTable(t) /\ MarkedSlot(t, f) /\ MarkedHit(t, f, b)
      /\ \/ /\ an.saturated = sat_generation[t]
            /\ UNCHANGED <<fxd_analysis_cache, files>>
         \/ /\ an.saturated # sat_generation[t] /\ b \notin Blocks(an.of)
            /\ UNCHANGED <<fxd_analysis_cache, sat_last_opcodes, files>>
         \/ /\ an.saturated # sat_generation[t]
            /\ HitOf(t, f.fn)' = HitOf(t, f.fn) \cup {b}
            /\ \/ UNCHANGED <<fxd_analysis_cache, sat_last_opcodes>>
               \/ /\ b \notin HitOf(t, f.fn)
                  /\ Cardinality(HitOf(t, f.fn)) + 1 >= NumBlocks[an.of]
                  /\ Saturate(t)
  BY <1>4, <1>5, UnderFacts
<1>7. Saturate(t) => /\ fxd_analysis_cache'[p].saturated = gen
                     /\ \A q \in DOMAIN fxd_analysis_cache :
                          q # p => fxd_analysis_cache'[q] = fxd_analysis_cache[q]
  BY <1>3, <1>4, Saturated
<1>8. DOMAIN fxd_analysis_cache' = DOMAIN fxd_analysis_cache
  BY <1>6 DEF MarkedTable
<1>9. \A q \in DOMAIN fxd_analysis_cache : q # p => fxd_analysis_cache'[q] = fxd_analysis_cache[q]
  BY <1>6, <1>7
<1>10. \/ sat_last_opcodes'[t] = sat_last_opcodes[t]
       \/ sat_last_opcodes'[t] = p /\ Marked(t, p)'
  <2>1. CASE an.saturated = gen /\ UNCHANGED fxd_analysis_cache
    BY <1>1, <1>2, <1>4, <1>6, <2>1 DEF Marked, MarkedSlot
  <2>2. CASE UNCHANGED sat_last_opcodes
    BY <2>2
  <2>3. CASE Saturate(t)
    BY <1>1, <1>2, <1>4, <1>6, <1>7, <1>8, <2>3 DEF Marked, MarkedSlot
  <2> QED
    BY <1>6, <2>1, <2>2, <2>3
<1>11. ASSUME f.fn \notin reused[t]
       PROVE  Owner(t) = f.fn /\ b \in hit2 /\ (Marked(t, p)' => Full(t, f.fn)')
  <2>1. an.of = f.fn
    BY <1>1, <1>4, <1>11 DEF CacheInv
  <2>2. MarksTrue(t)
    BY <1>2 DEF AloneInv, MarkInv
  <2>3. Marked(t, p) => Blocks(f.fn) \subseteq hit
    BY <1>1, <1>4, <1>11, <2>2 DEF MarksTrue, Full
  <2>4. hit \subseteq hit2
    BY <1>6 DEF MarkedHit
  <2>5. CASE an.saturated = gen
    <3>1. Marked(t, p)
      BY <1>1, <1>4, <2>5 DEF Marked
    <3> QED
      BY <1>2, <1>4, <2>1, <2>3, <2>4, <3>1 DEF Full, Blocks
  <2>6. CASE /\ an.saturated # gen /\ hit2 = hit \cup {b}
             /\ UNCHANGED fxd_analysis_cache
    <3>1. ~Marked(t, p)'
      BY <1>1, <1>2, <2>6 DEF Marked
    <3> QED
      BY <1>4, <2>1, <2>6, <3>1
  <2>7. CASE /\ hit2 = hit \cup {b} /\ b \notin hit
             /\ Cardinality(hit) + 1 >= NumBlocks[an.of]
    <3>1. hit \subseteq Blocks(f.fn)
      BY <1>5, <1>11 DEF RanBlocks, RecordsUnlessReused
    <3>2. Blocks(f.fn) \subseteq hit \cup {b}
      BY <1>2, <1>5, <2>1, <2>7, <3>1, LastBlock
    <3>3. Full(t, f.fn)'
      BY <2>7, <3>2 DEF Full, Blocks
    <3> QED
      BY <1>4, <2>1, <2>7, <3>3
  <2> QED
    BY <1>2, <1>6, <2>1, <2>5, <2>6, <2>7
<1> QED
  BY <1>1, <1>6, <1>9, <1>10, <1>11

-----------------------------------------------------------------------------
\* Marks stay true, and so do the records.

\* The hits of each function after a record.
LEMMA HitsAfterRecord ==
  ASSUME NEW t \in Threads, NEW f \in Frames, NEW b, MarkedFiles(t, f), MarkedHit(t, f, b)
  PROVE  \A u \in Threads, g \in OpArrays :
           /\ HitOf(u, g) \subseteq HitOf(u, g)'
           /\ HitOf(u, g)' \subseteq HitOf(u, g) \cup (IF u = t /\ g = f.fn THEN {b} ELSE {})
<1> SUFFICES ASSUME NEW u \in Threads, NEW g \in OpArrays
             PROVE  /\ HitOf(u, g) \subseteq HitOf(u, g)'
                    /\ HitOf(u, g)' \subseteq HitOf(u, g) \cup (IF u = t /\ g = f.fn THEN {b} ELSE {})
  OBVIOUS
<1>1. CASE u # t
  BY <1>1 DEF MarkedFiles, HitOf
<1>2. CASE u = t /\ g # f.fn
  <2>1. /\ DOMAIN files[t] \subseteq DOMAIN files'[t]
        /\ \A fn \in DOMAIN files'[t] : fn # f.fn =>
             fn \in DOMAIN files[t] /\ files'[t][fn] = files[t][fn]
    BY DEF MarkedFiles
  <2>2. HitOf(t, g)' = HitOf(t, g)
    BY <1>2, <2>1 DEF HitOf
  <2> QED
    BY <1>2, <2>2
<1>3. CASE u = t /\ g = f.fn
  <2>1. HitOf(t, f.fn) \subseteq HitOf(t, f.fn)' /\ HitOf(t, f.fn)' \subseteq HitOf(t, f.fn) \cup {b}
    BY DEF MarkedHit
  <2> QED
    BY <1>3, <2>1
<1> QED
  BY <1>1, <1>2, <1>3

LEMMA MarkStep ==
  ASSUME TypeOK, PlacesInv, IdleInv, MarkingInv, CacheInv, AloneInv, RanBlocks, MarkInv,
         RecordsUnlessReused, [Next]_vars
  PROVE  MarkInv'
<1>1. ASSUME NEW t \in Threads, stack[t] # <<>>, NEW u \in Threads \ overlapped, request[u]
      PROVE  u = t
  BY <1>1, OnlyOne
<1>2. ASSUME UNCHANGED <<request, overlapped, fxd_analysis_cache, sat_generation, files>>,
             \A u \in Threads : coverage_active'[u] /\ sat_last_opcodes'[u] # NULL =>
               coverage_active[u] /\ sat_last_opcodes'[u] = sat_last_opcodes[u],
             \A u \in Threads : reused[u] \subseteq reused'[u],
             \A u \in Threads \ overlapped : \A g \in Open(u)' :
               \/ g \in Open(u)
               \/ g.fn \in reused'[u]
               \/ g.fn \in Shared /\ g.opcodes = g.fn
               \/ g.opcodes \notin DOMAIN fxd_analysis_cache
      PROVE  MarkInv'
  <2> SUFFICES ASSUME NEW u \in Threads \ overlapped, request[u], sat_generation[u] > 0
               PROVE  MarksTrue(u)'
    BY <1>2 DEF MarkInv
  <2>1. MarksTrue(u)
    BY DEF MarkInv
  <2>2. /\ \A p : Marked(u, p)' <=> Marked(u, p)
        /\ \A fn : Full(u, fn)' <=> Full(u, fn)
    BY <1>2 DEF Marked, Full, HitOf, Blocks
  <2>3. \A p : Marked(u, p) => p \in DOMAIN fxd_analysis_cache
    BY DEF Marked
  <2>4. \A g \in Open(u)' : g.fn \notin reused'[u] /\ Marked(u, g.opcodes)' => Full(u, g.fn)'
    BY <1>2, <2>1, <2>2, <2>3 DEF MarksTrue
  <2>5. coverage_active'[u] /\ sat_last_opcodes'[u] # NULL => Marked(u, sat_last_opcodes[u])'
    <3>1. Marked(u, sat_last_opcodes[u]) /\ sat_last_opcodes'[u] = sat_last_opcodes[u] =>
            Marked(u, sat_last_opcodes[u])'
      BY <1>2 DEF Marked
    <3> QED
      BY <1>2, <2>1, <3>1 DEF MarksTrue
  <2> QED
    BY <2>1, <2>2, <2>4, <2>5 DEF MarksTrue
<1>3. CASE UNCHANGED vars
  <2>1. UNCHANGED <<request, stack, overlapped, fxd_analysis_cache, sat_generation, files,
                    coverage_active, sat_last_opcodes, reused>>
    BY <1>3 DEF vars, engineVars, globals, history
  <2> QED
    BY <1>2, <2>1 DEF Open
<1>4. ASSUME NEW t \in Threads, NEW fn \in OpArrays, Enter(t, fn)
      PROVE  MarkInv'
  <2>1. PICK p \in Places(fn) :
          /\ Open(t)' = Open(t) \cup {[fn |-> fn, opcodes |-> p]}
          /\ \A u \in Threads \ {t} : Open(u)' = Open(u)
          /\ reused' = IF p \in visited[t] \ Shared
                       THEN [reused EXCEPT ![t] = @ \cup {fn}] ELSE reused
    BY <1>4, EnterFacts
  <2>2. request[t] /\ UNCHANGED <<request, overlapped, fxd_analysis_cache, sat_generation, files,
                                  coverage_active, sat_last_opcodes>>
    BY <1>4 DEF Enter, globals
  <2>3. \A u \in Threads : reused[u] \subseteq reused'[u]
    BY <2>1 DEF TypeOK
  <2> DEFINE f == [fn |-> fn, opcodes |-> p]
  <2>4. f.fn = fn /\ f.opcodes = p
    OBVIOUS
  <2> HIDE DEF f
  <2>5. \A u \in Threads : \A g \in Open(u)' : g \in Open(u) \/ (u = t /\ g = f)
    BY <2>1 DEF f
  <2>6. \/ t \in overlapped
        \/ fn \in reused'[t]
        \/ fn \in Shared /\ p = fn
        \/ p \notin DOMAIN fxd_analysis_cache
    <3>1. CASE fn \in Shared
      BY <3>1, PlaceFacts
    <3>2. CASE fn \notin Shared /\ p \in DOMAIN fxd_analysis_cache /\ t \notin overlapped
      <4>1. p \notin Shared
        BY <3>2, PlaceFacts, AnalysisCacheAssumption
      <4>2. p \in visited[t]
        BY <2>2, <3>2 DEF CacheInv, AloneInv
      <4>3. reused' = [reused EXCEPT ![t] = @ \cup {fn}]
        BY <2>1, <4>1, <4>2
      <4>4. fn \in reused'[t]
        BY <4>3 DEF TypeOK
      <4> QED
        BY <4>4
    <3> QED
      BY <3>1, <3>2
  <2>7. \A u \in Threads \ overlapped : \A g \in Open(u)' :
          \/ g \in Open(u)
          \/ g.fn \in reused'[u]
          \/ g.fn \in Shared /\ g.opcodes = g.fn
          \/ g.opcodes \notin DOMAIN fxd_analysis_cache
    BY <2>4, <2>5, <2>6
  <2> QED
    BY <1>2, <2>2, <2>3, <2>7
<1>5. ASSUME NEW t \in Threads, Leave(t)
      PROVE  MarkInv'
  <2>1. UNCHANGED <<request, overlapped, fxd_analysis_cache, sat_generation, files,
                    coverage_active, sat_last_opcodes, reused>>
    BY <1>5 DEF Leave, globals, history
  <2>2. \A u \in Threads : Open(u)' \subseteq Open(u)
    BY <1>5, LeaveFacts
  <2> QED
    BY <1>2, <2>1, <2>2
<1>6. ASSUME NEW t \in Threads, Lookup(t)
      PROVE  MarkInv'
  <2>1. /\ stack[t] # <<>> /\ Filled(t)
        /\ UNCHANGED <<request, stack, overlapped, coverage_active, sat_generation,
                        sat_last_opcodes, files, reused>>
    BY <1>6, LookupFacts
  <2> SUFFICES ASSUME t \notin overlapped, request[t], sat_generation[t] > 0
               PROVE  MarksTrue(t)'
    BY <1>1, <2>1 DEF MarkInv
  <2>2. MarksTrue(t)
    BY DEF MarkInv
  <2>3. \A p \in DOMAIN fxd_analysis_cache' \ DOMAIN fxd_analysis_cache :
          fxd_analysis_cache'[p].saturated = 0
    <3>1. \A p \in DOMAIN fxd_analysis_cache' \ DOMAIN fxd_analysis_cache :
            \E f \in Open(t) : f.opcodes = p /\ fxd_analysis_cache'[p] = NewAnalysis(f.fn)
      BY <2>1 DEF Filled
    <3>2. \A fn : NewAnalysis(fn).saturated = 0
      BY DEF NewAnalysis
    <3> QED
      BY <3>1, <3>2
  <2>4. /\ DOMAIN fxd_analysis_cache \subseteq DOMAIN fxd_analysis_cache'
        /\ \A p \in DOMAIN fxd_analysis_cache : fxd_analysis_cache'[p] = fxd_analysis_cache[p]
    BY <2>1 DEF Filled
  <2>5. sat_generation[t] # 0
    BY DEF TypeOK
  <2>6. \A p : Marked(t, p)' <=> Marked(t, p)
    BY <2>1, <2>3, <2>4, <2>5 DEF Marked
  <2>7. \A fn : Full(t, fn)' <=> Full(t, fn)
    BY <2>1 DEF Full, HitOf, Blocks
  <2>8. Open(t)' = Open(t)
    BY <2>1 DEF Open
  <2>9. Marked(t, sat_last_opcodes[t])' <=> Marked(t, sat_last_opcodes[t])
    <3>1. PICK q : q = sat_last_opcodes[t]
      OBVIOUS
    <3>2. Marked(t, sat_last_opcodes[t])' <=> Marked(t, q)'
      BY <2>1, <3>1 DEF Marked
    <3> QED
      BY <2>6, <3>1, <3>2
  <2> QED
    BY <2>1, <2>2, <2>6, <2>7, <2>8, <2>9 DEF MarksTrue
<1>11. ASSUME NEW t \in Threads, Record(t)
       PROVE  MarkInv'
  <2>1. PICK f, b : f = Last(stack[t]) /\ b = marking[t].block
    OBVIOUS
  <2>2. /\ f \in Open(t) /\ f \in Frames /\ stack[t] # <<>>
        /\ UNCHANGED <<request, stack, overlapped, coverage_active, sat_generation, reused>>
        /\ MarkedTable(t) /\ MarkedFiles(t, f)
    BY <1>11, <2>1, RecordFacts
  <2> SUFFICES ASSUME t \notin overlapped, request[t], sat_generation[t] > 0
               PROVE  MarksTrue(t)'
    BY <1>1, <2>2 DEF MarkInv
  <2>3. MarksTrue(t)
    BY DEF MarkInv
  <2>4. /\ MarkedHit(t, f, b)
        /\ f.fn \notin reused[t] /\ Marked(t, f.opcodes)' => Full(t, f.fn)'
        /\ \A p \in DOMAIN fxd_analysis_cache :
             p # f.opcodes => fxd_analysis_cache'[p] = fxd_analysis_cache[p]
        /\ \/ sat_last_opcodes'[t] = sat_last_opcodes[t]
           \/ sat_last_opcodes'[t] = f.opcodes /\ Marked(t, f.opcodes)'
    BY <1>11, <2>1, RecordComplete
  <2>5. DOMAIN fxd_analysis_cache' = DOMAIN fxd_analysis_cache
    BY <2>2 DEF MarkedTable
  <2>6. \A p : p # f.opcodes /\ Marked(t, p)' => Marked(t, p)
    BY <2>2, <2>4, <2>5 DEF Marked
  <2>7. \A p : Marked(t, p) => Marked(t, p)'
    BY <2>2 DEF Marked, MarkedTable
  <2>8. \A fn \in OpArrays : Full(t, fn) => Full(t, fn)'
    <3>1. \A fn \in OpArrays : HitOf(t, fn) \subseteq HitOf(t, fn)'
      BY <2>2, <2>4, HitsAfterRecord
    <3> QED
      BY <3>1 DEF Full, Blocks
  <2>9. Open(t)' = Open(t)
    BY <2>2 DEF Open
  <2>10. ASSUME NEW g \in Open(t), g.fn \notin reused[t], Marked(t, g.opcodes)'
         PROVE  Full(t, g.fn)'
    <3>1. CASE g.opcodes = f.opcodes
      <4>1. g.fn = f.fn
        BY <2>2, <3>1 DEF PlacesInv
      <4> QED
        BY <2>4, <2>10, <3>1, <4>1
    <3>2. CASE g.opcodes # f.opcodes
      <4>1. Full(t, g.fn)
        BY <2>3, <2>6, <2>10, <3>2 DEF MarksTrue
      <4> QED
        BY <2>8, <4>1, OpenFacts
    <3> QED
      BY <3>1, <3>2
  <2>11. ASSUME NEW fn \in Shared, Marked(t, fn)'
         PROVE  Full(t, fn)'
    <3>1. CASE fn = f.opcodes
      <4>1. f.fn = fn /\ fn \notin reused[t]
        BY <2>2, <3>1, SharedPlace DEF PlacesInv
      <4> QED
        BY <2>4, <2>11, <3>1, <4>1
    <3>2. CASE fn # f.opcodes
      <4>1. Full(t, fn)
        BY <2>3, <2>6, <2>11, <3>2 DEF MarksTrue
      <4> QED
        BY <2>8, <4>1, AnalysisCacheAssumption
    <3> QED
      BY <3>1, <3>2
  <2>12. ASSUME coverage_active[t], sat_last_opcodes'[t] # NULL
         PROVE  Marked(t, sat_last_opcodes[t])'
    <3>1. PICK q : q = sat_last_opcodes'[t]
      OBVIOUS
    <3>2. Marked(t, q)'
      BY <2>3, <2>4, <2>7, <2>12, <3>1 DEF MarksTrue
    <3> QED
      BY <3>1, <3>2 DEF Marked
  <2> QED
    BY <2>2, <2>9, <2>10, <2>11, <2>12 DEF MarksTrue
<1>7. ASSUME NEW t \in Threads, Start(t)
      PROVE  MarkInv'
  <2>1. /\ UNCHANGED <<request, overlapped>> /\ stack[t] # <<>>
        /\ sat_generation' = [sat_generation EXCEPT ![t] = @ + 1]
        /\ sat_last_opcodes' = [sat_last_opcodes EXCEPT ![t] = NULL]
    BY <1>7 DEF Start, ResetSlot, engineVars
  <2>2. sat_generation[t] \in Nat /\ sat_generation'[t] = sat_generation[t] + 1
        /\ sat_last_opcodes'[t] = NULL
    BY <2>1 DEF TypeOK
  <2> SUFFICES ASSUME t \notin overlapped, request[t]
               PROVE  MarksTrue(t)'
    BY <1>1, <2>1 DEF MarkInv
  <2>3. ASSUME NEW p \in DOMAIN fxd_analysis_cache'
        PROVE  fxd_analysis_cache'[p].saturated # sat_generation'[t]
    <3>1. CASE p \in DOMAIN fxd_analysis_cache
      <4>1. fxd_analysis_cache'[p] = fxd_analysis_cache[p]
        BY <1>7, <3>1, StartFacts DEF Filled
      <4>2. /\ fxd_analysis_cache[p].saturated <= sat_generation[t]
            /\ fxd_analysis_cache[p].saturated \in Nat
        BY <3>1, TableTypes DEF AloneInv, Analyses
      <4> QED
        BY <2>2, <4>1, <4>2
    <3>2. CASE p \notin DOMAIN fxd_analysis_cache
      <4>1. \A q \in DOMAIN fxd_analysis_cache' \ DOMAIN fxd_analysis_cache :
              \E f \in Open(t) : f.opcodes = q /\ fxd_analysis_cache'[q] = NewAnalysis(f.fn)
        BY <1>7, StartFacts DEF Filled
      <4>2. \A fn : NewAnalysis(fn).saturated = 0
        BY DEF NewAnalysis
      <4>3. fxd_analysis_cache'[p].saturated = 0
        BY <3>2, <4>1, <4>2
      <4> QED
        BY <2>2, <4>3
    <3> QED
      BY <3>1, <3>2
  <2>4. \A p : ~Marked(t, p)'
    BY <2>3 DEF Marked
  <2> QED
    BY <2>2, <2>4 DEF MarksTrue
<1>8. ASSUME NEW t \in Threads, Stop(t)
      PROVE  MarkInv'
  <2>1. /\ UNCHANGED <<request, stack, overlapped, fxd_analysis_cache, sat_generation, files,
                       sat_last_opcodes, reused>>
        /\ coverage_active' = [coverage_active EXCEPT ![t] = FALSE]
    BY <1>8 DEF Stop, engineVars, history
  <2>2. \A u \in Threads : coverage_active'[u] => coverage_active[u]
    BY <2>1 DEF TypeOK
  <2> QED
    BY <1>2, <2>1, <2>2 DEF Open
<1>9. ASSUME NEW t \in Threads, RInit(t)
      PROVE  MarkInv'
  <2>1. /\ UNCHANGED <<fxd_analysis_cache, sat_generation>>
        /\ coverage_active' = [coverage_active EXCEPT ![t] = FALSE]
        /\ \A u \in Threads : u # t => request'[u] = request[u]
    BY <1>9, RInitFacts
  <2>2. ~coverage_active'[t]
    BY <2>1 DEF TypeOK
  <2>3. CASE \A u \in Threads : ~request[u]
    <3>1. \A p : ~Marked(t, p)'
      BY <2>1, <2>3 DEF CacheInv, Marked
    <3>2. MarksTrue(t)'
      BY <2>2, <3>1 DEF MarksTrue
    <3> QED
      BY <2>1, <2>3, <3>2 DEF MarkInv
  <2>4. CASE \A u \in Threads : request'[u] => u \in overlapped'
    BY <2>4 DEF MarkInv
  <2> QED
    BY <1>9, <2>3, <2>4, RInitFacts
<1>10. ASSUME NEW t \in Threads, RShutdown(t)
       PROVE  MarkInv'
  <2>1. request[t] /\ UNCHANGED overlapped /\ request' = [request EXCEPT ![t] = FALSE]
    BY <1>10 DEF RShutdown
  <2>2. \A u \in Threads : request'[u] => request[u] /\ u # t
    BY <2>1 DEF TypeOK
  <2>3. \A u \in Threads : request'[u] => u \in overlapped'
    BY <2>1, <2>2 DEF AloneInv
  <2> QED
    BY <2>3 DEF MarkInv
<1> QED
  BY <1>3, <1>4, <1>5, <1>6, <1>7, <1>8, <1>9, <1>10, <1>11 DEF Next

LEMMA ReuseStep ==
  ASSUME TypeOK, IdleInv, MarkingInv, CacheInv, AloneInv, RanBlocks, MarkInv, RecordsUnlessReused,
         [Next]_vars
  PROVE  RecordsUnlessReused'
<1> DEFINE Right(u, fn) == RuntimeIsOwn(u, fn) /\ HitOf(u, fn) = RanOf(u, fn)
<1>1. ASSUME UNCHANGED <<files, ran, overlapped>>, \A u \in Threads : reused[u] \subseteq reused'[u]
      PROVE  RecordsUnlessReused'
  BY <1>1 DEF RecordsUnlessReused, RuntimeIsOwn, HitOf, RanOf
<1>2. ASSUME NEW u \in Threads, DOMAIN files'[u] = {}, ran'[u] = {}
      PROVE  \A fn \in OpArrays : Right(u, fn)'
  BY <1>2 DEF RuntimeIsOwn, HitOf, RanOf
<1>3. ASSUME NEW t \in Threads, NEW fn \in OpArrays, Enter(t, fn)
      PROVE  RecordsUnlessReused'
  <2>1. \A u \in Threads : reused[u] \subseteq reused'[u]
    BY <1>3 DEF Enter, TypeOK
  <2> QED
    BY <1>1, <1>3, <2>1 DEF Enter, globals
<1>4. ASSUME NEW t \in Threads, Leave(t) \/ Start(t) \/ Stop(t)
      PROVE  RecordsUnlessReused'
  BY <1>1, <1>4 DEF Leave, Start, Stop, globals, history
<1>5. ASSUME NEW t \in Threads, Lookup(t)
      PROVE  RecordsUnlessReused'
  <2>1. PICK f : f = Last(stack[t])
    OBVIOUS
  <2>2. /\ f \in Open(t) /\ f \in Frames /\ stack[t] # <<>> /\ coverage_active[t]
        /\ UNCHANGED <<overlapped, files, reused>>
        /\ \/ ran' = ran
           \/ /\ sat_last_opcodes[t] = f.opcodes
              /\ \E b \in Blocks(f.fn) : b \in Nat /\ MarkedRan(t, f.fn, b)
    BY <1>5, <2>1, LookupFacts
  <2>3. CASE ran' = ran
    BY <1>1, <2>2, <2>3
  <2>4. ASSUME sat_last_opcodes[t] = f.opcodes,
               NEW b \in Blocks(f.fn), b \in Nat, MarkedRan(t, f.fn, b)
        PROVE  RecordsUnlessReused'
    <3>1. f.fn \in OpArrays
      BY <2>2 DEF Frames
    <3>2. \A u \in Threads, g \in OpArrays :
            RanOf(u, g)' = RanOf(u, g) \cup Noted(t, IF u = t /\ g = f.fn THEN {b} ELSE {})
      <4>1. RanGrown(t, f.fn, b)
        BY <2>4, <3>1, RanAfterMark
      <4> QED
        BY <4>1 DEF RanGrown
    <3>3. \A u \in Threads, g \in OpArrays : HitOf(u, g)' = HitOf(u, g)
      BY <2>2 DEF HitOf
    <3>4. \A S : Noted(t, S) \subseteq S
      BY DEF Noted
    <3> SUFFICES ASSUME NEW u \in Threads \ overlapped, NEW fn \in OpArrays, fn \notin reused[u]
                 PROVE  Right(u, fn)'
      BY <2>2 DEF RecordsUnlessReused
    <3>5. RuntimeIsOwn(u, fn) /\ HitOf(u, fn) = RanOf(u, fn)
      BY DEF RecordsUnlessReused
    <3>6. RuntimeIsOwn(u, fn)'
      BY <2>2, <3>5 DEF RuntimeIsOwn
    <3>7. u = t /\ fn = f.fn => b \in HitOf(u, fn)
      <4>1. request[t]
        BY <2>2 DEF IdleInv
      <4> QED
        BY <2>2, <2>4, <4>1, SlotComplete DEF Full
    <3>8. RanOf(u, fn)' \subseteq RanOf(u, fn) \cup (IF u = t /\ fn = f.fn THEN {b} ELSE {})
          /\ RanOf(u, fn) \subseteq RanOf(u, fn)'
      BY <3>2, <3>4
    <3>9. RanOf(u, fn)' = RanOf(u, fn)
      BY <3>5, <3>7, <3>8
    <3> QED
      BY <3>3, <3>5, <3>6, <3>9
  <2> QED
    BY <2>2, <2>3, <2>4
<1>9. ASSUME NEW t \in Threads, Record(t)
      PROVE  RecordsUnlessReused'
  <2>1. PICK f, b : f = Last(stack[t]) /\ b = marking[t].block
    OBVIOUS
  <2>2. /\ f \in Open(t) /\ f \in Frames /\ stack[t] # <<>>
        /\ UNCHANGED <<overlapped, reused>>
        /\ b \in Nat /\ MarkedRan(t, f.fn, b) /\ MarkedFiles(t, f)
    BY <1>9, <2>1, RecordFacts
  <2>3. request[t] /\ f.fn \in OpArrays
    BY <2>2 DEF IdleInv, Frames
  <2> SUFFICES ASSUME NEW u \in Threads \ overlapped, NEW fn \in OpArrays, fn \notin reused[u]
               PROVE  Right(u, fn)'
    BY <2>2 DEF RecordsUnlessReused
  <2>4. RuntimeIsOwn(u, fn) /\ HitOf(u, fn) = RanOf(u, fn)
    BY DEF RecordsUnlessReused
  <2>5. \A v \in Threads, g \in OpArrays :
          RanOf(v, g)' = RanOf(v, g) \cup Noted(t, IF v = t /\ g = f.fn THEN {b} ELSE {})
    <3>1. RanGrown(t, f.fn, b)
      BY <2>2, <2>3, RanAfterMark
    <3> QED
      BY <3>1 DEF RanGrown
  <2>6. CASE u # t
    <3>1. files'[u] = files[u]
      BY <2>2, <2>6 DEF MarkedFiles
    <3>2. RanOf(u, fn)' = RanOf(u, fn)
      BY <2>5, <2>6 DEF Noted
    <3> QED
      BY <2>4, <3>1, <3>2 DEF RuntimeIsOwn, HitOf
  <2>7. CASE u = t
    <3>1. /\ MarkedHit(t, f, b)
          /\ f.fn \notin reused[t] => Owner(t) = f.fn /\ b \in HitOf(t, f.fn)'
      BY <1>9, <2>1, <2>3, <2>7, RecordComplete
    <3>2. /\ HitOf(t, fn) \subseteq HitOf(t, fn)'
          /\ HitOf(t, fn)' \subseteq HitOf(t, fn) \cup (IF fn = f.fn THEN {b} ELSE {})
      BY <2>2, <3>1, HitsAfterRecord
    <3>3. RanOf(t, fn)' = RanOf(t, fn) \cup (IF fn = f.fn THEN {b} ELSE {})
      BY <2>5, <2>7 DEF Noted
    <3>4. CASE fn = f.fn
      <4>1. b \in HitOf(t, fn)' /\ Owner(t) = fn
        BY <2>7, <3>1, <3>4
      <4>2. HitOf(t, fn)' = RanOf(t, fn)'
        BY <2>4, <2>7, <3>2, <3>3, <3>4, <4>1
      <4>3. fn \in DOMAIN files'[t] => files'[t][fn].analysis = fn
        BY <2>4, <2>7, <3>1, <3>4, <4>1 DEF MarkedHit, RuntimeIsOwn
      <4> QED
        BY <2>7, <4>2, <4>3 DEF RuntimeIsOwn, HitOf, RanOf
    <3>5. CASE fn # f.fn
      <4>1. fn \in DOMAIN files'[t] => fn \in DOMAIN files[t] /\ files'[t][fn] = files[t][fn]
        BY <2>2, <3>5 DEF MarkedFiles
      <4>2. HitOf(t, fn)' = RanOf(t, fn)'
        BY <2>4, <2>7, <3>2, <3>3, <3>5
      <4> QED
        BY <2>4, <2>7, <4>1, <4>2 DEF RuntimeIsOwn, HitOf, RanOf
    <3> QED
      BY <3>4, <3>5
  <2> QED
    BY <2>6, <2>7
<1>6. ASSUME NEW t \in Threads, RInit(t)
      PROVE  RecordsUnlessReused'
  <2>1. /\ DOMAIN files'[t] = {} /\ \A u \in Threads : u # t => files'[u] = files[u]
        /\ ~request[t] /\ \A u \in Threads : ran[u] = {} => ran'[u] = {}
        /\ \A u \in Threads : request[u] => request'[u]
        /\ (\A u \in Threads : ~request[u]) \/ (\A u \in Threads : request'[u] => u \in overlapped')
    BY <1>6, RInitFacts
  <2>2. \A u \in Threads \ overlapped' : ~request[u]
    BY <2>1
  <2>3. \A u \in Threads \ overlapped' : DOMAIN files'[u] = {} /\ ran'[u] = {}
    BY <2>1, <2>2 DEF IdleInv
  <2>4. \A u \in Threads \ overlapped', fn \in OpArrays : Right(u, fn)'
    BY <1>2, <2>3
  <2> QED
    BY <2>4 DEF RecordsUnlessReused
<1>7. ASSUME NEW t \in Threads, RShutdown(t)
      PROVE  RecordsUnlessReused'
  <2>1. request[t] /\ UNCHANGED overlapped /\ ran' = [ran EXCEPT ![t] = {}]
    BY <1>7 DEF RShutdown
  <2>2. ran'[t] = {} /\ \A u \in Threads : u # t => ran'[u] = ran[u]
    BY <2>1 DEF TypeOK
  <2>3. DOMAIN files'[t] = {} /\ \A u \in Threads : u # t => DOMAIN files'[u] = DOMAIN files[u]
    BY <1>7, RShutdownFacts
  <2>4. \A u \in Threads \ overlapped : u # t => ~request[u]
    BY <2>1 DEF AloneInv
  <2>5. \A u \in Threads \ overlapped' : DOMAIN files'[u] = {} /\ ran'[u] = {}
    BY <2>1, <2>2, <2>3, <2>4 DEF IdleInv
  <2>6. \A u \in Threads \ overlapped', fn \in OpArrays : Right(u, fn)'
    BY <1>2, <2>5
  <2> QED
    BY <2>6 DEF RecordsUnlessReused
<1>8. CASE UNCHANGED vars
  BY <1>1, <1>8 DEF vars, globals, history
<1> QED
  BY <1>3, <1>4, <1>5, <1>6, <1>7, <1>8, <1>9 DEF Next

-----------------------------------------------------------------------------
\* The theorems.

LEMMA InitIInv == Init => IInv
<1> SUFFICES ASSUME Init
             PROVE  IInv
  OBVIOUS
<1>1. DOMAIN EmptyTable = {} /\ Range(EmptyTable) = {} /\ <<>> \in Seq(Frames) /\ Range(<<>>) = {}
  BY EmptyFacts DEF Range
<1>2. TypeOK
  BY <1>1 DEF Init, TypeOK
<1>3. \A t \in Threads : Open(t) = {} /\ DOMAIN files[t] = {} /\ ran[t] = {} /\ ~request[t]
                         /\ stack[t] = <<>> /\ visited[t] = {} /\ reused[t] = {} /\ ~coverage_active[t]
  BY <1>1 DEF Init, Open
<1>4. DOMAIN fxd_analysis_cache = {} /\ DOMAIN marking = {}
  BY <1>1 DEF Init
<1>5. \A t \in Threads, fn \in OpArrays : RanOf(t, fn) = {} /\ HitOf(t, fn) = {}
  BY <1>3 DEF RanOf, HitOf
<1> QED
  BY <1>2, <1>3, <1>4, <1>5 DEF IInv, PlacesInv, IdleInv, MarkingInv, CacheInv, AloneInv, RanBlocks,
     MarkInv, RecordsUnlessReused, RuntimeIsOwn

LEMMA Inductive == IInv /\ [Next]_vars => IInv'
BY TypeStep, PlacesStep, IdleStep, MarkingStep, CacheStep, AloneStep, RanStep, MarkStep, ReuseStep
   DEF IInv

LEMMA Invariance == Spec => []IInv
BY InitIInv, Inductive, PTL DEF Spec

(* The threads' globals, the table of analyses and the recorder's tables     *)
(* keep their types, whatever the engine frees and the requests interleave.  *)
THEOREM TypeCorrect == Spec => []TypeOK
<1>1. IInv => TypeOK
  BY DEF IInv
<1> QED
  BY <1>1, Invariance, PTL

(* A thread that runs its requests alone records of every op_array whose     *)
(* address was no other's before in the request exactly the blocks that ran, *)
(* under the op_array's own analysis (fxd_mark, coverage.c).                 *)
THEOREM RecordedUnlessReused == Spec => []RecordsUnlessReused
<1>1. IInv => RecordsUnlessReused
  BY DEF IInv
<1> QED
  BY <1>1, Invariance, PTL
=============================================================================
