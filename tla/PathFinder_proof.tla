-------------------------- MODULE PathFinder_proof --------------------------
(***************************************************************************)
(* The search for paths stays inside its buffers, keeps its route in them  *)
(* and keeps to the cap; it lists whole leaf paths and misses none below   *)
(* the cap, reports as hit what ran, and is skipped when the memory guard  *)
(* says so: for every op_array and every setting (module PathFinder).      *)
(***************************************************************************)
EXTENDS PathFinder, Analysis_proof, SequenceTheorems

\* The calls and the paths are sequences, the buffers have their length.
Shape ==
  /\ a.num_blocks \in Nat \ {0}
  /\ DOMAIN stack = 0 .. a.num_blocks + 1 /\ DOMAIN outidx = 0 .. a.num_blocks + 1
  /\ \E S : calls \in Seq(S)
  /\ \E P : paths \in Seq(P)

\* The buffers st and oi hold the route of the calls cs.
Holds(cs, st, oi) ==
  /\ Len(cs) <= a.num_blocks + 1
  /\ \A d \in 0 .. Len(cs) - 1 : st[d] = cs[d + 1].block
  /\ \A d \in 0 .. Len(cs) - 2 :
       oi[d] \in DOMAIN a.outs[st[d]] /\ a.outs[st[d]][oi[d]] = st[d + 1]
  /\ \A d, e \in 0 .. Len(cs) - 2 : st[d] = st[e] /\ st[d + 1] = st[e + 1] => d = e

RouteInv == Holds(calls, stack, outidx)

\* Only the innermost call may have followed no out, and then a path fits.
CapInv ==
  /\ memory_limit \in Limits /\ effective_max_paths \in Nat \ {0}
  /\ calls # <<>> => Searching
  /\ \A k \in 1 .. Len(calls) - 1 : calls[k].found
  /\ calls # <<>> /\ ~calls[Len(calls)].found => Len(paths) < effective_max_paths
  /\ phase \in {"searching", "collected"} => Len(paths) <= effective_max_paths

IInv == Shape /\ RouteInv /\ CapInv

-----------------------------------------------------------------------------
\* What the calls are after one has moved on, is begun or has ended.

LEMMA CallsLength ==
  ASSUME Shape
  PROVE  /\ Len(calls) \in Nat /\ DOMAIN calls = 1 .. Len(calls)
         /\ calls # <<>> <=> Len(calls) > 0
         /\ Len(paths) \in Nat
<1>1. PICK S, P : calls \in Seq(S) /\ paths \in Seq(P)
  BY DEF Shape
<1> QED
  BY <1>1, LenProperties, EmptySeq

LEMMA AfterMovedOn ==
  ASSUME Shape, calls # <<>>, NEW f
  PROVE  /\ \E S : MovedOn(f) \in Seq(S)
         /\ Len(MovedOn(f)) = Len(calls)
         /\ \A k \in 1 .. Len(calls) : MovedOn(f)[k].block = calls[k].block
         /\ \A k \in 1 .. Len(calls) - 1 : MovedOn(f)[k] = calls[k]
         /\ MovedOn(f)[Len(calls)].found = f
<1> DEFINE n == Len(calls)
           r == [block |-> calls[n].block, i |-> Onto, found |-> f]
<1>1. PICK S : calls \in Seq(S)
  BY DEF Shape
<1>2. n \in Nat /\ n > 0 /\ DOMAIN calls = 1 .. n
  BY CallsLength
<1>3. calls \in Seq(S \cup {r})
  BY <1>1, SeqMonotonic
<1>4. MovedOn(f) = [calls EXCEPT ![n] = r]
  BY DEF MovedOn
<1>5. MovedOn(f) \in Seq(S \cup {r}) /\ Len(MovedOn(f)) = n
  BY <1>2, <1>3, <1>4, ExceptSeq
<1>6. MovedOn(f)[n] = r /\ \A k \in 1 .. n - 1 : MovedOn(f)[k] = calls[k]
  BY <1>2, <1>4
<1>7. r.block = calls[n].block /\ r.found = f
  OBVIOUS
<1>8. \A k \in 1 .. n : MovedOn(f)[k].block = calls[k].block
  <2> SUFFICES ASSUME NEW k \in 1 .. n PROVE MovedOn(f)[k].block = calls[k].block
    OBVIOUS
  <2>1. k = n \/ k \in 1 .. n - 1
    <3> HIDE DEF n
    <3> QED
      BY <1>2
  <2> HIDE DEF r
  <2> QED
    BY <2>1, <1>6, <1>7
<1>9. \E R : MovedOn(f) \in Seq(R)
  BY <1>5
<1> HIDE DEF r
<1> QED
  BY <1>5, <1>6, <1>7, <1>8, <1>9

LEMMA AfterBegun ==
  ASSUME NEW S, NEW cs \in Seq(S), NEW r
  PROVE  /\ \E R : Append(cs, r) \in Seq(R)
         /\ Len(cs) \in Nat /\ Len(Append(cs, r)) = Len(cs) + 1
         /\ \A k \in 1 .. Len(cs) : Append(cs, r)[k] = cs[k]
         /\ Append(cs, r)[Len(cs) + 1] = r
<1>1. cs \in Seq(S \cup {r})
  BY SeqMonotonic
<1> QED
  BY <1>1, AppendProperties, LenProperties

LEMMA AfterEnded ==
  ASSUME Shape, calls # <<>>
  PROVE  LET cs == SubSeq(calls, 1, Len(calls) - 1)
         IN  /\ \E S : cs \in Seq(S)
             /\ Len(cs) = Len(calls) - 1
             /\ \A k \in 1 .. Len(calls) - 1 : cs[k] = calls[k]
<1>1. PICK S : calls \in Seq(S)
  BY DEF Shape
<1> DEFINE n == Len(calls)
           cs == SubSeq(calls, 1, n - 1)
<1>2. n \in Nat /\ n > 0 /\ \A i \in 1 .. n - 1 : calls[i] \in S
  BY <1>1, CallsLength, ElementOfSeq
<1>3. n - 1 \in Int /\ 1 \in Int
  BY <1>2
<1>4. /\ cs \in Seq(S)
      /\ Len(cs) = IF 1 <= n - 1 THEN (n - 1) - 1 + 1 ELSE 0
      /\ \A k \in 1 .. (n - 1) - 1 + 1 : cs[k] = calls[1 + k - 1]
  BY <1>2, <1>3, SubSeqProperties
<1>5. Len(cs) = n - 1
  <2> HIDE DEF n, cs
  <2> QED
    BY <1>2, <1>4
<1>6. \A k \in 1 .. n - 1 : cs[k] = calls[k]
  BY <1>2, <1>4
<1>7. \E R : cs \in Seq(R)
  BY <1>4
<1> QED
  BY <1>5, <1>6, <1>7

-----------------------------------------------------------------------------
\* The route.

LEMMA BeginHolds ==
  ASSUME NEW cs, NEW st, NEW oi, NEW b, NEW m, Holds(cs, st, oi), a.num_blocks \in Nat \ {0},
         \E S : cs \in Seq(S), m = Len(cs), ~TooDeep(m), DOMAIN st = 0 .. a.num_blocks + 1,
         m > 0 => /\ oi[m - 1] \in DOMAIN a.outs[st[m - 1]]
                  /\ a.outs[st[m - 1]][oi[m - 1]] = b
                  /\ \A d \in 0 .. m - 2 : ~(st[d] = st[m - 1] /\ st[d + 1] = b)
  PROVE  Holds(Append(cs, [block |-> b, i |-> 1, found |-> FALSE]), [st EXCEPT ![m] = b], oi)
<1> DEFINE r == [block |-> b, i |-> 1, found |-> FALSE]
           ds == Append(cs, r)
           su == [st EXCEPT ![m] = b]
           n == a.num_blocks
<1>1. /\ m \in Nat /\ Len(ds) = m + 1
      /\ \A k \in 1 .. m : ds[k] = cs[k]
      /\ ds[m + 1] = r
  BY AfterBegun
<1>2. m <= n /\ n \in Nat
  BY <1>1 DEF TooDeep
<1>3. su[m] = b /\ \A d \in 0 .. m - 1 : su[d] = st[d]
  BY <1>1, <1>2
<1>4. /\ \A d \in 0 .. m - 1 : st[d] = cs[d + 1].block
      /\ \A d \in 0 .. m - 2 : oi[d] \in DOMAIN a.outs[st[d]] /\ a.outs[st[d]][oi[d]] = st[d + 1]
      /\ \A d, e \in 0 .. m - 2 : st[d] = st[e] /\ st[d + 1] = st[e + 1] => d = e
  BY DEF Holds
<1>5. r.block = b
  OBVIOUS
<1> HIDE DEF r, ds, su, n
<1>6. ASSUME NEW d \in 0 .. m
      PROVE  su[d] = ds[d + 1].block
  <2>1. CASE d = m
    BY <2>1, <1>1, <1>3, <1>5
  <2>2. CASE d # m
    <3>1. d \in 0 .. m - 1 /\ d + 1 \in 1 .. m
      BY <2>2, <1>1
    <3> QED
      BY <3>1, <1>1, <1>3, <1>4
  <2> QED
    BY <2>1, <2>2
<1>7. ASSUME NEW d \in 0 .. m - 1
      PROVE  oi[d] \in DOMAIN a.outs[su[d]] /\ a.outs[su[d]][oi[d]] = su[d + 1]
  <2>1. CASE d = m - 1
    <3>1. m > 0 /\ su[d] = st[m - 1] /\ su[d + 1] = b
      BY <2>1, <1>1, <1>3
    <3> QED
      BY <2>1, <3>1
  <2>2. CASE d # m - 1
    <3>1. d \in 0 .. m - 2 /\ d + 1 \in 0 .. m - 1
      BY <2>2, <1>1
    <3> QED
      BY <3>1, <1>3, <1>4
  <2> QED
    BY <2>1, <2>2
<1>8. ASSUME NEW d \in 0 .. m - 1, NEW e \in 0 .. m - 1, su[d] = su[e], su[d + 1] = su[e + 1]
      PROVE  d = e
  <2>1. su[d] = st[d] /\ su[e] = st[e]
    BY <1>3
  <2>6. m \in Nat
    BY <1>1
  <2>2. CASE d = m - 1 /\ e = m - 1
    BY <2>2
  <2>3. CASE d = m - 1 /\ e # m - 1
    <3>1. e \in 0 .. m - 2 /\ e + 1 \in 0 .. m - 1 /\ m > 0 /\ d + 1 = m
      BY <2>3, <2>6
    <3> QED
      BY <2>1, <2>3, <3>1, <1>3, <1>8
  <2>4. CASE d # m - 1 /\ e = m - 1
    <3>1. d \in 0 .. m - 2 /\ d + 1 \in 0 .. m - 1 /\ m > 0 /\ e + 1 = m
      BY <2>4, <2>6
    <3> QED
      BY <2>1, <2>4, <3>1, <1>3, <1>8
  <2>5. CASE d # m - 1 /\ e # m - 1
    <3>1. d \in 0 .. m - 2 /\ d + 1 \in 0 .. m - 1
      BY <2>5, <2>6
    <3>2. e \in 0 .. m - 2 /\ e + 1 \in 0 .. m - 1
      BY <2>5, <2>6
    <3> QED
      BY <2>1, <3>1, <3>2, <1>3, <1>4, <1>8
  <2> QED
    BY <2>2, <2>3, <2>4, <2>5
<1>9. Len(ds) - 1 = m /\ Len(ds) - 2 = m - 1 /\ Len(ds) <= n + 1
  BY <1>1, <1>2
<1>10. Holds(ds, su, oi)
  BY <1>6, <1>7, <1>8, <1>9 DEF Holds, n
<1> QED
  BY <1>10 DEF ds, su, r

LEMMA RouteOfSame ==
  ASSUME NEW cs, NEW oi, Holds(calls, stack, outidx), Len(calls) \in Nat, Len(cs) = Len(calls),
         \A k \in 1 .. Len(calls) : cs[k].block = calls[k].block,
         \A d \in 0 .. Len(calls) - 2 : oi[d] = outidx[d]
  PROVE  Holds(cs, stack, oi)
<1>1. \A d \in 0 .. Len(calls) - 1 : d + 1 \in 1 .. Len(calls)
  OBVIOUS
<1> QED
  BY <1>1 DEF Holds

\* fxd_find_paths called in front of cs keeps the shape and the route.
LEMMA CalledHolds ==
  ASSUME Shape, NEW b, NEW cs, NEW oi, Holds(cs, stack, oi), \E S : cs \in Seq(S),
         Len(cs) > 0 => /\ oi[Len(cs) - 1] \in DOMAIN a.outs[stack[Len(cs) - 1]]
                        /\ a.outs[stack[Len(cs) - 1]][oi[Len(cs) - 1]] = b
                        /\ \A d \in 0 .. Len(cs) - 2 :
                             ~(stack[d] = stack[Len(cs) - 1] /\ stack[d + 1] = b),
         FindPaths(b, cs)
  PROVE  /\ \E S : calls' \in Seq(S)
         /\ DOMAIN stack' = DOMAIN stack
         /\ Holds(calls', stack', oi)
<1>1. CASE ReturnsAtOnce(Len(cs))
  BY <1>1 DEF FindPaths
<1>2. CASE ~ReturnsAtOnce(Len(cs))
  <2>1. /\ calls' = Append(cs, [block |-> b, i |-> 1, found |-> FALSE])
        /\ stack' = [stack EXCEPT ![Len(cs)] = b] /\ ~TooDeep(Len(cs))
    BY <1>2 DEF FindPaths, ReturnsAtOnce
  <2>2. \E S : calls' \in Seq(S)
    BY <2>1, AfterBegun
  <2>3. Holds(calls', stack', oi)
    BY <2>1, BeginHolds DEF Shape
  <2> QED
    BY <2>1, <2>2, <2>3
<1> QED
  BY <1>1, <1>2

\* The search is begun, or its variables are let alone.
LEMMA RouteStep ==
  ASSUME Shape, RouteInv, [Next]_vars
  PROVE  Shape' /\ RouteInv'
<1>1. CASE IniSet \/ StartCoverage \/ Execute \/ EndSearch \/ UNCHANGED vars
  <2>1. UNCHANGED <<a, calls, stack, outidx, paths>>
    BY <1>1 DEF IniSet, StartCoverage, Execute, EndSearch, vars, function, search
  <2> QED
    BY <2>1 DEF Shape, RouteInv, Holds
<1>2. CASE Collect
  <2>1. /\ a' = a /\ calls' = <<>> /\ paths' = <<>>
        /\ DOMAIN stack' = DOMAIN stack /\ DOMAIN outidx' = DOMAIN stack
    BY <1>2 DEF Collect, function
  <2>2. <<>> \in Seq({}) /\ Len(<<>>) = 0
    BY EmptySeq
  <2>3. Shape'
    BY <2>1, <2>2 DEF Shape
  <2>4. RouteInv'
    <3>1. 0 <= a.num_blocks + 1
      BY DEF Shape
    <3>2. (0 .. 0 - 1) = {} /\ (0 .. 0 - 2) = {}
      OBVIOUS
    <3> QED
      BY <2>1, <2>2, <3>1, <3>2 DEF RouteInv, Holds
  <2> QED
    BY <2>3, <2>4
<1>3. CASE TryEntry
  <2>1. UNCHANGED <<a, outidx, paths>> /\ calls = <<>>
    BY <1>3 DEF TryEntry, function
  <2>2. CASE UNCHANGED <<calls, stack>>
    BY <2>1, <2>2 DEF Shape, RouteInv, Holds
  <2>3. CASE FindPaths(entry, <<>>)
    <3>1. Len(<<>>) = 0 /\ ~(Len(<<>>) > 0)
      BY EmptySeq
    <3>2. \E S : <<>> \in Seq(S)
      BY EmptySeq
    <3>3. Holds(<<>>, stack, outidx)
      BY <2>1 DEF RouteInv
    <3>4. (\E S : calls' \in Seq(S)) /\ DOMAIN stack' = DOMAIN stack
          /\ Holds(calls', stack', outidx)
      BY <2>3, <3>1, <3>2, <3>3, CalledHolds
    <3> QED
      BY <2>1, <3>4 DEF Shape, RouteInv, Holds
  <2> QED
    BY <1>3, <2>2, <2>3 DEF TryEntry
<1>4. CASE SkipOut
  <2>1. /\ calls' = MovedOn(Current.found) /\ calls # <<>>
        /\ UNCHANGED <<a, stack, outidx, paths>>
    BY <1>4 DEF SkipOut, InCall, function
  <2>2. Len(calls) \in Nat
    BY CallsLength
  <2>3. /\ \E S : calls' \in Seq(S)
        /\ Len(calls') = Len(calls)
        /\ \A k \in 1 .. Len(calls) : calls'[k].block = calls[k].block
    BY <2>1, AfterMovedOn
  <2>4. Holds(calls', stack, outidx)
    BY <2>2, <2>3, RouteOfSame DEF RouteInv
  <2> QED
    BY <2>1, <2>3, <2>4 DEF Shape, RouteInv, Holds
<1>5. CASE FollowOut
  <2> DEFINE out == CurrentOuts[Current.i]
             cs == MovedOn(TRUE)
             oi == IndexFollowed
             m == Len(calls)
  <2>1. /\ calls # <<>> /\ Current.i \in DOMAIN CurrentOuts /\ ~Cycle(out)
        /\ outidx' = oi /\ FindPaths(out, cs) /\ UNCHANGED <<a, paths>>
    BY <1>5 DEF FollowOut, InCall, Skips, function
  <2>2. m \in Nat /\ m > 0
    BY <2>1, CallsLength
  <2>3. /\ \E S : cs \in Seq(S)
        /\ Len(cs) = m
        /\ \A k \in 1 .. m : cs[k].block = calls[k].block
    BY <2>1, AfterMovedOn
  <2>4. /\ m <= a.num_blocks + 1 /\ a.num_blocks \in Nat
        /\ \A d \in 0 .. m - 1 : stack[d] = calls[d + 1].block
    BY DEF RouteInv, Holds, Shape
  <2>5. stack[m - 1] = Current.block
    <3>1. m - 1 \in 0 .. m - 1 /\ (m - 1) + 1 = m
      BY <2>2
    <3> QED
      BY <2>4, <3>1 DEF Current
  <2>6. /\ DOMAIN oi = DOMAIN outidx /\ oi[m - 1] = Current.i
        /\ \A d \in 0 .. m - 2 : oi[d] = outidx[d]
    <3>1. m - 1 \in DOMAIN outidx /\ \A d \in 0 .. m - 2 : d \in DOMAIN outidx /\ d # m - 1
      BY <2>2, <2>4 DEF Shape
    <3> QED
      BY <3>1 DEF IndexFollowed, Depth
  <2>7. Holds(cs, stack, oi)
    BY <2>2, <2>3, <2>6, RouteOfSame DEF RouteInv
  <2>8. /\ oi[m - 1] \in DOMAIN a.outs[stack[m - 1]]
        /\ a.outs[stack[m - 1]][oi[m - 1]] = out
    BY <2>1, <2>5, <2>6 DEF CurrentOuts
  <2>9. \A d \in 0 .. m - 2 : ~(stack[d] = stack[m - 1] /\ stack[d + 1] = out)
    <3>1. Depth - 1 = m - 2
      BY <2>2 DEF Depth
    <3> QED
      BY <2>1, <2>5, <3>1 DEF Cycle
  <2> HIDE DEF out, cs, oi, m
  <2>10. /\ \E S : calls' \in Seq(S)
         /\ DOMAIN stack' = DOMAIN stack
         /\ Holds(calls', stack', oi)
    BY <2>1, <2>3, <2>7, <2>8, <2>9, CalledHolds
  <2> QED
    BY <2>1, <2>6, <2>10 DEF Shape, RouteInv, Holds
<1>6. CASE Return
  <2>1. /\ calls' = SubSeq(calls, 1, Len(calls) - 1) /\ calls # <<>>
        /\ UNCHANGED <<a, stack, outidx>>
    BY <1>6 DEF Return, InCall, function
  <2>2. /\ \E S : calls' \in Seq(S)
        /\ Len(calls') = Len(calls) - 1
        /\ \A k \in 1 .. Len(calls) - 1 : calls'[k] = calls[k]
    BY <2>1, AfterEnded
  <2>3. Len(calls) \in Nat /\ Len(calls) > 0
    BY <2>1, CallsLength
  <2>4. Holds(calls', stack, outidx)
    <3>1. \A d \in 0 .. Len(calls') - 1 : d \in 0 .. Len(calls) - 1 /\ d + 1 \in 1 .. Len(calls) - 1
      BY <2>2, <2>3
    <3>2. \A d \in 0 .. Len(calls') - 2 : d \in 0 .. Len(calls) - 2
      BY <2>2, <2>3
    <3>3. Len(calls') <= a.num_blocks + 1
      BY <2>2, <2>3 DEF RouteInv, Holds, Shape
    <3> QED
      BY <2>2, <3>1, <3>2, <3>3 DEF RouteInv, Holds
  <2>5. \E P : paths' \in Seq(P)
    <3>1. CASE paths' = paths
      BY <3>1 DEF Shape
    <3>2. CASE paths' # paths
      <4>1. PICK r : paths' = Append(paths, r)
        BY <1>6, <3>2 DEF Return
      <4> QED
        BY <4>1, AfterBegun DEF Shape
    <3> QED
      BY <3>1, <3>2
  <2> QED
    BY <2>1, <2>2, <2>4, <2>5 DEF Shape, RouteInv, Holds
<1> QED
  BY <1>1, <1>2, <1>3, <1>4, <1>5, <1>6 DEF Next, Step

-----------------------------------------------------------------------------
\* The cap.

\* fxd_find_paths called in front of calls that have all followed an out.
LEMMA CalledCap ==
  ASSUME NEW b, NEW cs, \E S : cs \in Seq(S), \A k \in 1 .. Len(cs) : cs[k].found = TRUE,
         FindPaths(b, cs)
  PROVE  /\ \A k \in 1 .. Len(calls') - 1 : calls'[k].found = TRUE
         /\ calls' # <<>> /\ calls'[Len(calls')].found # TRUE => Len(paths) < effective_max_paths
                                                               \/ Len(paths) \notin Nat
                                                               \/ effective_max_paths \notin Nat
<1>1. Len(cs) \in Nat /\ (cs # <<>> => Len(cs) > 0)
  BY LenProperties, EmptySeq
<1>2. CASE ReturnsAtOnce(Len(cs))
  <2>1. calls' = cs
    BY <1>2 DEF FindPaths
  <2>2. \A k \in 1 .. Len(cs) - 1 : k \in 1 .. Len(cs)
    BY <1>1
  <2>3. cs # <<>> => Len(cs) \in 1 .. Len(cs)
    BY <1>1
  <2> QED
    BY <2>1, <2>2, <2>3
<1>3. CASE ~ReturnsAtOnce(Len(cs))
  <2> DEFINE r == [block |-> b, i |-> 1, found |-> FALSE]
  <2>1. calls' = Append(cs, r) /\ ~(Len(paths) >= effective_max_paths)
    BY <1>3 DEF FindPaths, ReturnsAtOnce
  <2>2. /\ Len(calls') = Len(cs) + 1
        /\ \A k \in 1 .. Len(cs) : calls'[k] = cs[k]
    BY <2>1, AfterBegun
  <2>3. \A k \in 1 .. Len(calls') - 1 : calls'[k].found = TRUE
    BY <1>1, <2>2
  <2>4. Len(paths) \in Nat /\ effective_max_paths \in Nat => Len(paths) < effective_max_paths
    BY <2>1
  <2> QED
    BY <2>3, <2>4
<1> QED
  BY <1>2, <1>3

LEMMA CapStep ==
  ASSUME Shape, CapInv, [Next]_vars
  PROVE  CapInv'
<1>1. Len(calls) \in Nat /\ (calls # <<>> => Len(calls) > 0) /\ Len(paths) \in Nat
  BY CallsLength
<1>2. CASE IniSet \/ UNCHANGED vars
  <2>1. memory_limit' \in Limits
    BY <1>2 DEF IniSet, CapInv, vars, settings
  <2>2. UNCHANGED <<effective_max_paths, calls, paths, phase>>
    BY <1>2 DEF IniSet, vars, latched, search
  <2> QED
    BY <2>1, <2>2 DEF CapInv, Searching
<1>3. CASE StartCoverage
  <2>1. calls = <<>>
    BY <1>3 DEF StartCoverage, Idle, CapInv, Searching
  <2>2. effective_max_paths' \in Nat \ {0}
    BY <1>3, PathFinderAssumption DEF StartCoverage, CapInv
  <2>3. memory_limit' = memory_limit /\ calls' = calls /\ phase' = "recording"
    BY <1>3 DEF StartCoverage, settings, search
  <2>4. (1 .. Len(<<>>) - 1) = {}
    BY EmptySeq
  <2> QED
    BY <2>1, <2>2, <2>3, <2>4 DEF CapInv, Searching
<1>4. CASE Execute
  <2>1. calls = <<>>
    BY <1>4 DEF Execute, CapInv, Searching
  <2>2. UNCHANGED <<memory_limit, effective_max_paths, calls, paths>> /\ phase' = "recording"
    BY <1>4 DEF Execute, settings, latched, search
  <2> QED
    BY <2>1, <2>2 DEF CapInv, Searching
<1>5. CASE Collect
  <2>1. calls' = <<>> /\ paths' = <<>> /\ UNCHANGED <<memory_limit, effective_max_paths>>
    BY <1>5 DEF Collect, settings, latched
  <2>2. Len(<<>>) = 0 /\ (1 .. 0 - 1) = {}
    BY EmptySeq
  <2>3. Len(<<>>) <= effective_max_paths
    BY <2>2 DEF CapInv
  <2> QED
    BY <2>1, <2>2, <2>3 DEF CapInv
<1>6. CASE TryEntry
  <2>1. /\ UNCHANGED <<memory_limit, effective_max_paths, paths, phase>>
        /\ calls = <<>> /\ Searching
    BY <1>6 DEF TryEntry, settings, latched
  <2>2. CASE UNCHANGED <<calls, stack>>
    BY <2>1, <2>2 DEF CapInv, Searching
  <2>3. CASE FindPaths(entry, <<>>)
    <3>1. (\E S : <<>> \in Seq(S)) /\ (1 .. Len(<<>>)) = {}
      BY EmptySeq
    <3>2. \A k \in 1 .. Len(<<>>) : <<>>[k].found = TRUE
      BY <3>1
    <3>3. /\ \A k \in 1 .. Len(calls') - 1 : calls'[k].found = TRUE
          /\ calls' # <<>> /\ calls'[Len(calls')].found # TRUE => Len(paths) < effective_max_paths
      BY <1>1, <2>3, <3>1, <3>2, CalledCap DEF CapInv
    <3> QED
      BY <2>1, <3>3 DEF CapInv, Searching
  <2> QED
    BY <1>6, <2>2, <2>3 DEF TryEntry
<1>7. CASE SkipOut
  <2>1. /\ UNCHANGED <<memory_limit, effective_max_paths, paths, phase>>
        /\ calls' = MovedOn(Current.found) /\ calls # <<>>
    BY <1>7 DEF SkipOut, InCall, settings, latched
  <2>2. /\ Len(calls') = Len(calls)
        /\ \A k \in 1 .. Len(calls) - 1 : calls'[k] = calls[k]
        /\ calls'[Len(calls)].found = calls[Len(calls)].found
    BY <2>1, AfterMovedOn DEF Current
  <2> QED
    BY <2>1, <2>2 DEF CapInv, Searching
<1>8. CASE FollowOut
  <2>1. /\ UNCHANGED <<memory_limit, effective_max_paths, paths, phase>>
        /\ calls # <<>> /\ Searching
        /\ FindPaths(CurrentOuts[Current.i], MovedOn(TRUE))
    BY <1>8 DEF FollowOut, InCall, settings, latched
  <2>2. /\ \E S : MovedOn(TRUE) \in Seq(S)
        /\ Len(MovedOn(TRUE)) = Len(calls)
        /\ \A k \in 1 .. Len(calls) - 1 : MovedOn(TRUE)[k] = calls[k]
        /\ MovedOn(TRUE)[Len(calls)].found = TRUE
    BY <2>1, AfterMovedOn
  <2>3. ASSUME NEW k \in 1 .. Len(MovedOn(TRUE))
        PROVE  MovedOn(TRUE)[k].found = TRUE
    <3> DEFINE n == Len(calls)
    <3>1. n \in Nat /\ k \in 1 .. n
      BY <1>1, <2>2
    <3>2. k = n \/ k \in 1 .. n - 1
      <4> HIDE DEF n
      <4> QED
        BY <3>1
    <3> QED
      BY <2>2, <3>2 DEF CapInv
  <2>4. /\ \A k \in 1 .. Len(calls') - 1 : calls'[k].found = TRUE
        /\ calls' # <<>> /\ calls'[Len(calls')].found # TRUE => Len(paths) < effective_max_paths
    BY <1>1, <2>1, <2>2, <2>3, CalledCap DEF CapInv
  <2> QED
    BY <2>1, <2>4 DEF CapInv, Searching
<1>9. CASE Return
  <2>1. /\ UNCHANGED <<memory_limit, effective_max_paths, phase>>
        /\ calls # <<>> /\ Searching
        /\ calls' = SubSeq(calls, 1, Len(calls) - 1)
    BY <1>9 DEF Return, InCall, settings, latched
  <2>2. /\ Len(calls') = Len(calls) - 1
        /\ \A k \in 1 .. Len(calls) - 1 : calls'[k] = calls[k]
        /\ \E S : calls' \in Seq(S)
    BY <2>1, AfterEnded
  <2>3. \A k \in 1 .. Len(calls) - 1 : calls'[k].found
    BY <2>2 DEF CapInv
  <2>4. \A k \in 1 .. Len(calls') - 1 : calls'[k].found
    BY <1>1, <2>2, <2>3
  <2>5. calls' # <<>> => calls'[Len(calls')].found
    <3>1. calls' # <<>> => Len(calls') \in Nat \ {0}
      BY <2>2, EmptySeq
    <3> QED
      BY <1>1, <2>2, <2>3, <3>1
  <2>6. Len(paths') <= effective_max_paths
    <3>1. CASE Current.found
      BY <1>9, <2>1, <3>1 DEF Return, CapInv, Searching
    <3>2. CASE ~Current.found
      <4>1. PICK r : paths' = Append(paths, r)
        BY <1>9, <3>2 DEF Return
      <4>2. Len(paths') = Len(paths) + 1
        BY <4>1, AfterBegun DEF Shape
      <4>3. Len(paths) < effective_max_paths
        BY <2>1, <3>2 DEF CapInv, Current
      <4> QED
        BY <1>1, <4>2, <4>3 DEF CapInv
    <3> QED
      BY <3>1, <3>2
  <2> QED
    BY <2>1, <2>4, <2>5, <2>6 DEF CapInv, Searching
<1>10. CASE EndSearch
  <2>1. /\ UNCHANGED <<memory_limit, effective_max_paths, paths, calls>>
        /\ calls = <<>> /\ Searching
    BY <1>10 DEF EndSearch, settings, latched, search
  <2> QED
    BY <2>1 DEF CapInv, Searching
<1> QED
  BY <1>2, <1>3, <1>4, <1>5, <1>6, <1>7, <1>8, <1>9, <1>10 DEF Next, Step

-----------------------------------------------------------------------------
\* Types.

IsAnalysis == \E o \in OpArrays : a = Analyse(o)

LEMMA AnalysisType ==
  ASSUME IsAnalysis
  PROVE  /\ a.num_blocks \in Nat \ {0}
         /\ \A b \in AllBlocks : \E n \in 0 .. MaxOuts : a.outs[b] \in [1 .. n -> AllBlocks \cup {EXIT}]
         /\ \A b \in AllBlocks : a.start_op[b] \in Nat /\ a.op_to_block[a.start_op[b]] = b
<1>1. PICK o \in OpArrays : a = Analyse(o)
  BY DEF IsAnalysis
<1>2. IsOpArray(o)
  BY PathFinderAssumption
<1>3. /\ a.num_blocks = NumBlocks(o) /\ a.op_to_block = OpToBlock(o)
      /\ a.outs = [b \in Blocks(o) |-> Outs(o, b)]
      /\ a.start_op = [b \in Blocks(o) |-> StartOp(o, b)]
  BY <1>1 DEF Analyse
<1>4. AllBlocks = Blocks(o)
  BY <1>3 DEF AllBlocks, Blocks
<1>5. a.num_blocks \in Nat \ {0}
  BY <1>2, <1>3, LeadersFinite
<1>6. ASSUME NEW b \in AllBlocks
      PROVE  \E n \in 0 .. MaxOuts : a.outs[b] \in [1 .. n -> AllBlocks \cup {EXIT}]
  BY <1>2, <1>3, <1>4, OutsType
<1>7. ASSUME NEW b \in AllBlocks
      PROVE  a.start_op[b] \in Nat /\ a.op_to_block[a.start_op[b]] = b
  <2>1. StartOp(o, b) \in Leaders(o) /\ StartOp(o, b) \in BlockOps(o, b)
    BY <1>2, <1>4, BlockIsRun
  <2>2. StartOp(o, b) \in Nat
    BY <1>2, <2>1, LeadersFinite
  <2>3. OpToBlock(o)[StartOp(o, b)] = b
    BY <2>1 DEF BlockOps
  <2> QED
    BY <1>3, <1>4, <2>2, <2>3
<1> QED
  BY <1>5, <1>6, <1>7

\* An out that does not leave the function is a block.
LEMMA OutIsBlock ==
  ASSUME IsAnalysis, NEW b \in AllBlocks, NEW i \in DOMAIN a.outs[b]
  PROVE  /\ i \in 1 .. MaxOuts /\ i \in Nat \ {0}
         /\ a.outs[b][i] # EXIT => a.outs[b][i] \in AllBlocks
<1>1. PICK n \in 0 .. MaxOuts : a.outs[b] \in [1 .. n -> AllBlocks \cup {EXIT}]
  BY AnalysisType
<1>2. i \in 1 .. n /\ a.outs[b][i] \in AllBlocks \cup {EXIT}
  BY <1>1
<1> QED
  BY <1>2, MaxOutsAssumption

\* The edge fxd_mark takes leads to the block that is entered.
LEMMA TakenEdge ==
  ASSUME IsAnalysis, NEW b \in AllBlocks, NEW c \in AllBlocks, NEW e \in EdgeTaken(b, c)
  PROVE  e \in RealEdges(a) /\ e[1] = b /\ a.outs[e[1]][e[2]] = c
<1> DEFINE is == {i \in DOMAIN a.outs[b] : a.outs[b][i] = c}
<1>1. is # {} /\ e = <<b, Min(is)>>
  BY DEF EdgeTaken
<1>2. is \in SUBSET Nat
  BY OutIsBlock
<1>3. Min(is) \in is
  BY <1>1, <1>2, MinIsLeast
<1>4. Min(is) \in DOMAIN a.outs[b] /\ a.outs[b][Min(is)] = c
  BY <1>3
<1>5. Min(is) \in 1 .. MaxOuts
  BY <1>4, OutIsBlock
<1>6. c # EXIT
  BY AnalysisType DEF AllBlocks, EXIT
<1> HIDE DEF is
<1>7. b \in 0 .. a.num_blocks - 1
  BY DEF AllBlocks
<1> QED
  BY <1>1, <1>4, <1>5, <1>6, <1>7 DEF RealEdges

LEMMA ExecutionType ==
  ASSUME NEW w \in Executions
  PROVE  /\ w \in Seq(AllBlocks) /\ Len(w) \in Nat \ {0} /\ DOMAIN w = 1 .. Len(w)
         /\ Range(w) \subseteq AllBlocks
         /\ \A k \in 1 .. Len(w) : w[k] \in AllBlocks
<1>1. PICK n \in 1 .. MaxSteps : w \in [1 .. n -> AllBlocks]
  BY DEF Executions
<1>2. n \in Nat \ {0}
  BY PathFinderAssumption
<1>3. w \in Seq(AllBlocks) /\ Len(w) = n
  BY <1>1, <1>2
<1> QED
  BY <1>1, <1>2, <1>3 DEF Range

LEMMA CalledType ==
  ASSUME NEW b \in AllBlocks, NEW cs \in Seq(Calls), stack \in Buffers, IsAnalysis,
         FindPaths(b, cs)
  PROVE  calls' \in Seq(Calls) /\ stack' \in Buffers
<1>1. CASE ReturnsAtOnce(Len(cs))
  BY <1>1 DEF FindPaths
<1>2. CASE ~ReturnsAtOnce(Len(cs))
  <2> DEFINE r == [block |-> b, i |-> 1, found |-> FALSE]
  <2>1. calls' = Append(cs, r) /\ stack' = [stack EXCEPT ![Len(cs)] = b]
    BY <1>2 DEF FindPaths
  <2>2. r \in Calls
    BY DEF Calls
  <2>3. calls' \in Seq(Calls)
    <3> HIDE DEF r
    <3> QED
      BY <2>1, <2>2, AppendProperties
  <2>4. b \in Nat
    BY AnalysisType DEF AllBlocks
  <2>5. stack' \in Buffers
    BY <2>1, <2>4 DEF Buffers
  <2> QED
    BY <2>3, <2>5
<1> QED
  BY <1>1, <1>2

LEMMA MovedOnType ==
  ASSUME calls \in Seq(Calls), calls # <<>>, NEW f \in BOOLEAN
  PROVE  MovedOn(f) \in Seq(Calls) /\ Current \in Calls
<1> DEFINE n == Len(calls)
           r == [block |-> calls[n].block, i |-> Onto, found |-> f]
<1>1. n \in Nat \ {0}
  BY EmptySeq
<1>2. n \in 1 .. n
  BY <1>1
<1>3. calls[n] \in Calls
  BY <1>2, ElementOfSeq
<1>4. r \in Calls
  BY <1>3 DEF Calls, Onto, Current
<1>5. MovedOn(f) = [calls EXCEPT ![n] = r]
  BY DEF MovedOn
<1> HIDE DEF r, n
<1>6. MovedOn(f) \in Seq(Calls)
  BY <1>2, <1>4, <1>5, ExceptSeq DEF n
<1> QED
  BY <1>3, <1>6 DEF Current, n

\* A path that is emitted.
PathEmitted ==
  [path |-> [k \in 1 .. Len(calls) |-> a.start_op[stack[k - 1]]], hit |-> AllHit]

LEMMA EmittedType ==
  ASSUME IsAnalysis, RouteInv, calls \in Seq(Calls)
  PROVE  /\ PathEmitted \in Paths
         /\ Len(calls) \in Nat /\ Len(PathEmitted.path) = Len(calls)
         /\ \A k \in 1 .. Len(calls) : stack[k - 1] \in AllBlocks
<1> DEFINE n == Len(calls)
           p == [k \in 1 .. n |-> a.start_op[stack[k - 1]]]
<1>1. n \in Nat /\ \A k \in 1 .. n : calls[k] \in Calls
  BY LenProperties, ElementOfSeq
<1>2. ASSUME NEW k \in 1 .. n
      PROVE  stack[k - 1] \in AllBlocks
  <2>1. k - 1 \in 0 .. n - 1 /\ (k - 1) + 1 = k
    BY <1>1
  <2>2. stack[k - 1] = calls[k].block
    BY <2>1 DEF RouteInv, Holds
  <2> QED
    BY <1>1, <2>2 DEF Calls
<1>3. \A k \in 1 .. n : a.start_op[stack[k - 1]] \in Nat
  BY <1>2, AnalysisType
<1>4. p \in Seq(Nat) /\ Len(p) = n
  <2> HIDE DEF n
  <2> QED
    BY <1>1, <1>3
<1>5. AllHit \in BOOLEAN
  BY DEF AllHit
<1>6. PathEmitted \in Paths /\ PathEmitted.path = p
  BY <1>4, <1>5 DEF PathEmitted, Paths
<1> HIDE DEF p
<1> QED
  BY <1>1, <1>2, <1>4, <1>6

LEMMA TypeInit == Init => TypeOK /\ IsAnalysis
<1> SUFFICES ASSUME Init PROVE TypeOK /\ IsAnalysis
  OBVIOUS
<1>1. IsAnalysis
  BY DEF Init, IsAnalysis
<1>2. a.num_blocks \in Nat \ {0}
  BY <1>1, AnalysisType
<1>3. /\ <<>> \in Seq(Calls) /\ <<>> \in Seq(Paths)
      /\ [d \in 0 .. a.num_blocks + 1 |-> 0] \in Buffers
      /\ 0 \in 0 .. a.num_blocks
  BY <1>2, EmptySeq DEF Buffers
<1>4. {edge_buf, memory_guard_ini, memory_guard, skipped} \subseteq BOOLEAN
  BY DEF Init
<1>5. stack \in Buffers /\ outidx \in Buffers
  BY <1>3 DEF Init
<1>6. /\ phase \in {"off", "recording", "searching", "collected"}
      /\ block_hit \subseteq AllBlocks /\ edge_hit \subseteq RealEdges(a)
      /\ memory_limit \in Limits /\ memory_limit_bytes \in Limits \cup {UNLIMITED}
      /\ effective_max_paths \in Nat \ {0}
      /\ entry \in 0 .. a.num_blocks /\ calls \in Seq(Calls) /\ paths \in Seq(Paths)
      /\ executions \subseteq Seq(AllBlocks) /\ used \in Usages \cup {0}
      /\ started \in Settings
  BY <1>3 DEF Init, Settings
<1> QED
  BY <1>1, <1>4, <1>5, <1>6 DEF TypeOK

LEMMA TypeStep ==
  ASSUME TypeOK, IsAnalysis, RouteInv, [Next]_vars
  PROVE  TypeOK' /\ IsAnalysis'
<1>1. a' = a
  BY DEF Next, Step, vars, function, IniSet, StartCoverage, Execute, Collect, TryEntry, SkipOut,
         FollowOut, Return, EndSearch
<1>2. IsAnalysis'
  BY <1>1 DEF IsAnalysis
<1>3. /\ AllBlocks' = AllBlocks /\ Buffers' = Buffers /\ Calls' = Calls /\ Paths' = Paths
      /\ RealEdges(a)' = RealEdges(a) /\ a.num_blocks \in Nat \ {0}
  BY <1>1, AnalysisType DEF AllBlocks, Buffers, Calls, Paths
<1>4. CASE IniSet
  BY <1>1, <1>2, <1>3, <1>4 DEF TypeOK, IniSet, function, hits, latched, search, outcome
<1>5. CASE StartCoverage
  <2>1. CapOf[memory_limit] \in Nat \ {0}
    BY PathFinderAssumption DEF TypeOK
  <2> QED
    BY <1>1, <1>2, <1>3, <1>5, <2>1 DEF TypeOK, StartCoverage, Settings, function, hits,
       settings, search, outcome
<1>6. CASE Execute
  <2>1. PICK w \in Executions :
          /\ executions' = executions \cup {w}
          /\ block_hit' = block_hit \cup Range(w)
          /\ edge_hit' = IF edge_buf
                         THEN edge_hit \cup UNION {EdgeTaken(m[1], m[2]) : m \in Moves(w)}
                         ELSE edge_hit
    BY <1>6 DEF Execute
  <2>2. /\ w \in Seq(AllBlocks) /\ Range(w) \subseteq AllBlocks /\ Len(w) \in Nat \ {0}
        /\ \A k \in 1 .. Len(w) : w[k] \in AllBlocks
    BY <2>1, ExecutionType
  <2>3. ASSUME NEW m \in Moves(w)
        PROVE  EdgeTaken(m[1], m[2]) \subseteq RealEdges(a)
    <3>1. PICK k \in 1 .. Len(w) - 1 : m = <<w[k], w[k + 1]>>
      BY DEF Moves
    <3>2. m[1] \in AllBlocks /\ m[2] \in AllBlocks
      BY <2>2, <3>1
    <3> QED
      BY <3>2, TakenEdge
  <2>4. edge_hit' \subseteq RealEdges(a) /\ block_hit' \subseteq AllBlocks
        /\ executions' \subseteq Seq(AllBlocks)
    BY <2>1, <2>2, <2>3 DEF TypeOK
  <2> QED
    BY <1>1, <1>2, <1>3, <1>6, <2>4 DEF TypeOK, Execute, function, settings, latched, search, outcome
<1>7. CASE Collect
  <2>1. skipped' \in BOOLEAN /\ used' \in Usages
    BY <1>7 DEF Collect, UnderPressure
  <2>2. <<>> \in Seq(Calls) /\ <<>> \in Seq(Paths)
    BY EmptySeq
  <2>3. [d \in DOMAIN stack |-> 0] \in Buffers /\ 0 \in 0 .. a.num_blocks
    BY <1>3 DEF TypeOK, Buffers
  <2>4. /\ phase' \in {"searching", "collected"} /\ entry' = 0 /\ calls' = <<>> /\ paths' = <<>>
        /\ stack' = [d \in DOMAIN stack |-> 0] /\ outidx' = stack'
        /\ UNCHANGED <<function, hits, settings, latched, started>>
    BY <1>7 DEF Collect
  <2> QED
    BY <1>1, <1>2, <1>3, <2>1, <2>2, <2>3, <2>4 DEF TypeOK, function, hits, settings, latched
<1>8. CASE TryEntry
  <2>1. entry' \in 0 .. a.num_blocks
    BY <1>3, <1>8 DEF TryEntry, TypeOK
  <2>2. calls' \in Seq(Calls) /\ stack' \in Buffers
    <3>1. CASE UNCHANGED <<calls, stack>>
      BY <3>1 DEF TypeOK
    <3>2. CASE FindPaths(entry, <<>>)
      <4>1. entry \in AllBlocks /\ <<>> \in Seq(Calls)
        BY <1>3, <1>8, EmptySeq DEF TryEntry, TypeOK, AllBlocks
      <4> QED
        BY <3>2, <4>1, CalledType DEF TypeOK
    <3> QED
      BY <1>8, <3>1, <3>2 DEF TryEntry
  <2>3. UNCHANGED <<phase, function, hits, settings, latched, outidx, paths, outcome, started>>
    BY <1>8 DEF TryEntry
  <2> QED
    BY <1>1, <1>2, <1>3, <2>1, <2>2, <2>3 DEF TypeOK, function, hits, settings, latched, outcome
<1>9. CASE SkipOut
  <2>1. calls' = MovedOn(Current.found) /\ calls # <<>>
        /\ UNCHANGED <<phase, function, hits, settings, latched, entry, stack, outidx, paths,
                       outcome, started>>
    BY <1>9 DEF SkipOut, InCall
  <2>2. Current.found \in BOOLEAN
    BY <2>1, MovedOnType DEF TypeOK, Calls
  <2>3. calls' \in Seq(Calls)
    BY <2>1, <2>2, MovedOnType DEF TypeOK
  <2> QED
    BY <1>1, <1>2, <1>3, <2>1, <2>3 DEF TypeOK, function, hits, settings, latched, outcome
<1>10. CASE FollowOut
  <2> DEFINE out == CurrentOuts[Current.i]
  <2>1. /\ calls # <<>> /\ Current.i \in DOMAIN CurrentOuts /\ out # EXIT
        /\ outidx' = IndexFollowed /\ FindPaths(out, MovedOn(TRUE))
        /\ UNCHANGED <<phase, function, hits, settings, latched, entry, paths, outcome, started>>
    BY <1>10 DEF FollowOut, InCall, Skips
  <2>2. MovedOn(TRUE) \in Seq(Calls) /\ Current \in Calls
    BY <2>1, MovedOnType DEF TypeOK
  <2>3. out \in AllBlocks /\ Current.i \in Nat
    BY <2>1, <2>2, OutIsBlock DEF CurrentOuts, Calls
  <2>4. calls' \in Seq(Calls) /\ stack' \in Buffers
    <3> HIDE DEF out
    <3> QED
      BY <2>1, <2>2, <2>3, CalledType DEF TypeOK
  <2>5. outidx' \in Buffers
    BY <2>1, <2>3 DEF TypeOK, Buffers, IndexFollowed
  <2> QED
    BY <1>1, <1>2, <1>3, <2>1, <2>4, <2>5 DEF TypeOK, function, hits, settings, latched, outcome
<1>11. CASE Return
  <2>1. /\ calls' = SubSeq(calls, 1, Len(calls) - 1) /\ calls # <<>>
        /\ paths' = IF Current.found THEN paths ELSE Append(paths, PathEmitted)
        /\ UNCHANGED <<phase, function, hits, settings, latched, entry, stack, outidx, outcome,
                       started>>
    BY <1>11 DEF Return, InCall, PathEmitted
  <2>2. calls' \in Seq(Calls)
    <3>1. Len(calls) \in Nat /\ \A i \in 1 .. Len(calls) - 1 : calls[i] \in Calls
      BY LenProperties, ElementOfSeq DEF TypeOK
    <3> QED
      BY <2>1, <3>1, SubSeqProperties
  <2>3. paths' \in Seq(Paths)
    BY <2>1, EmittedType, AppendProperties DEF TypeOK
  <2> QED
    BY <1>1, <1>2, <1>3, <2>1, <2>2, <2>3 DEF TypeOK, function, hits, settings, latched, outcome
<1>12. CASE EndSearch
  BY <1>1, <1>2, <1>3, <1>12 DEF TypeOK, EndSearch, function, hits, settings, latched, search, outcome
<1>13. CASE UNCHANGED vars
  BY <1>1, <1>2, <1>3, <1>13 DEF TypeOK, vars, function, hits, settings, latched, search, outcome
<1> QED
  BY <1>2, <1>4, <1>5, <1>6, <1>7, <1>8, <1>9, <1>10, <1>11, <1>12, <1>13 DEF Next, Step

-----------------------------------------------------------------------------
\* The memory guard.

\* What is latched are the settings at the start; what was decided at a
\* collection is what they say of the usage then.
GuardInv ==
  /\ memory_limit_bytes = started.limit /\ memory_guard = started.guard
  /\ phase \in {"searching", "collected"} => skipped = UnderPressure(used)

LEMMA GuardStep ==
  ASSUME TypeOK, GuardInv, [Next]_vars
  PROVE  GuardInv'
<1>1. CASE IniSet
  <2>1. UNCHANGED <<phase, memory_limit_bytes, memory_guard, started, skipped, used>>
    BY <1>1 DEF IniSet, latched, outcome
  <2> QED
    BY <2>1 DEF GuardInv, UnderPressure
<1>2. CASE StartCoverage
  <2>1. /\ phase' = "recording" /\ memory_limit_bytes' = memory_limit
        /\ memory_guard' = memory_guard_ini
        /\ started' = [limit |-> memory_limit, guard |-> memory_guard_ini]
    BY <1>2 DEF StartCoverage, settings
  <2> QED
    BY <2>1 DEF GuardInv
<1>3. CASE Execute
  <2>1. /\ phase # "off" /\ phase' = "recording"
        /\ UNCHANGED <<memory_limit, memory_guard_ini, memory_limit_bytes, memory_guard, started>>
    BY <1>3 DEF Execute, settings, latched
  <2> QED
    BY <2>1 DEF GuardInv
<1>4. CASE Collect
  <2>1. /\ phase # "off"
        /\ UNCHANGED <<memory_limit, memory_guard_ini, memory_limit_bytes, memory_guard, started>>
    BY <1>4 DEF Collect, settings, latched
  <2>2. skipped' = UnderPressure(used)'
    BY <1>4, <2>1 DEF Collect, UnderPressure
  <2> QED
    BY <2>1, <2>2 DEF GuardInv
<1>5. CASE Step \/ UNCHANGED vars
  <2>1. UNCHANGED <<memory_limit, memory_guard_ini, memory_limit_bytes, memory_guard, started,
                    skipped, used>>
    BY <1>5 DEF Step, vars, TryEntry, SkipOut, FollowOut, Return, EndSearch, settings, latched,
       outcome
  <2>2. phase' = phase \/ (phase = "searching" /\ phase' = "collected")
    BY <1>5 DEF Step, vars, TryEntry, SkipOut, FollowOut, Return, EndSearch, Searching
  <2>3. UnderPressure(used)' = UnderPressure(used)
    BY <2>1 DEF UnderPressure
  <2> QED
    BY <2>1, <2>2, <2>3 DEF GuardInv
<1> QED
  BY <1>1, <1>2, <1>3, <1>4, <1>5 DEF Next

\* The threshold of the code, and the same without its division.
LEMMA Threshold ==
  ASSUME NEW l \in Nat, NEW u \in Nat
  PROVE  u >= l - (l \div 100) * 15 <=> u * 100 >= l * 85 + (l % 100) * 15
<1> DEFINE q == l \div 100
           r == l % 100
<1>1. q \in Nat /\ r \in Nat /\ l = 100 * q + r
  OBVIOUS
<1> HIDE DEF q, r
<1>2. u >= l - q * 15 <=> u * 100 >= l * 85 + r * 15
  BY <1>1
<1> QED
  BY <1>2 DEF q, r

LEMMA GuardSkips ==
  ASSUME TypeOK, GuardInv
  PROVE  SkipsUnderPressure
<1> SUFFICES ASSUME phase = "collected"
             PROVE  skipped <=> /\ started.guard /\ started.limit # UNLIMITED
                                /\ used * 100 >= started.limit * 85 + (started.limit % 100) * 15
  BY DEF SkipsUnderPressure
<1>1. PICK l, g : l = started.limit /\ g = started.guard
  OBVIOUS
<1>2. /\ memory_limit_bytes = l /\ memory_guard = g
      /\ skipped = UnderPressure(used)
  BY <1>1 DEF GuardInv
<1>3. used \in Nat /\ l \in Nat \cup {UNLIMITED}
  BY <1>1, PathFinderAssumption DEF TypeOK, Settings
<1>4. skipped <=> g /\ l >= 0 /\ used >= l - (l \div 100) * 15
  BY <1>2 DEF UnderPressure
<1>5. CASE l = UNLIMITED
  BY <1>1, <1>4, <1>5 DEF UNLIMITED
<1>6. CASE l \in Nat
  <2>1. l # UNLIMITED /\ l >= 0
    BY <1>6 DEF UNLIMITED
  <2> QED
    BY <1>1, <1>3, <1>4, <1>6, <2>1, Threshold
<1> QED
  BY <1>3, <1>5, <1>6

-----------------------------------------------------------------------------
\* What the listed paths say.

LEMMA RangeOfAppend ==
  ASSUME NEW S, NEW s \in Seq(S), NEW x \in S
  PROVE  Range(Append(s, x)) = Range(s) \cup {x}
<1>1. DOMAIN s = 1 .. Len(s) /\ Len(s) \in Nat
  BY LenProperties
<1>2. /\ DOMAIN Append(s, x) = 1 .. Len(s) + 1
      /\ \A i \in 1 .. Len(s) : Append(s, x)[i] = s[i]
      /\ Append(s, x)[Len(s) + 1] = x
  <2>1. Append(s, x) \in Seq(S) /\ Len(Append(s, x)) = Len(s) + 1
    BY AppendProperties
  <2>2. DOMAIN Append(s, x) = 1 .. Len(Append(s, x))
    BY <2>1, LenProperties
  <2> QED
    BY <2>1, <2>2, AppendProperties
<1> DEFINE n == Len(s)
           t == Append(s, x)
<1> HIDE DEF n, t
<1>3. /\ DOMAIN s = 1 .. n /\ DOMAIN t = 1 .. n + 1 /\ n \in Nat
      /\ \A i \in 1 .. n : t[i] = s[i]
      /\ t[n + 1] = x
  BY <1>1, <1>2 DEF n, t
<1>4. ASSUME NEW v
      PROVE  (\E i \in 1 .. n + 1 : t[i] = v) <=> v = x \/ \E i \in 1 .. n : s[i] = v
  <2>1. \A i \in 1 .. n + 1 : i = n + 1 \/ i \in 1 .. n
    BY <1>3
  <2>2. \A i \in 1 .. n : i \in 1 .. n + 1
    BY <1>3
  <2>3. n + 1 \in 1 .. n + 1
    BY <1>3
  <2> QED
    BY <1>3, <2>1, <2>2, <2>3
<1>5. Range(t) = Range(s) \cup {x}
  BY <1>3, <1>4 DEF Range
<1> QED
  BY <1>5 DEF t

\* The blocks and the edges recorded are those of some execution.
HitsInv ==
  /\ \A b \in block_hit : \E w \in executions : b \in Range(w)
  /\ \A e \in edge_hit : \E w \in executions : <<e[1], a.outs[e[1]][e[2]]>> \in Moves(w)

LEMMA HitsStep ==
  ASSUME TypeOK, IsAnalysis, HitsInv, [Next]_vars
  PROVE  HitsInv'
<1>1. CASE Execute
  <2>1. PICK w \in Executions :
          /\ executions' = executions \cup {w}
          /\ block_hit' = block_hit \cup Range(w)
          /\ edge_hit' = IF edge_buf
                         THEN edge_hit \cup UNION {EdgeTaken(m[1], m[2]) : m \in Moves(w)}
                         ELSE edge_hit
    BY <1>1 DEF Execute
  <2>2. a' = a
    BY <1>1 DEF Execute, function
  <2>3. Len(w) \in Nat /\ \A k \in 1 .. Len(w) : w[k] \in AllBlocks
    BY <2>1, ExecutionType
  <2>4. ASSUME NEW m \in Moves(w), NEW e \in EdgeTaken(m[1], m[2])
        PROVE  <<e[1], a.outs[e[1]][e[2]]>> \in Moves(w)
    <3>1. PICK k \in 1 .. Len(w) - 1 : m = <<w[k], w[k + 1]>>
      BY DEF Moves
    <3>2. m[1] \in AllBlocks /\ m[2] \in AllBlocks /\ m = <<m[1], m[2]>>
      BY <2>3, <3>1
    <3>3. e[1] = m[1] /\ a.outs[e[1]][e[2]] = m[2]
      BY <3>2, TakenEdge
    <3> QED
      BY <3>2, <3>3
  <2>5. \A b \in block_hit' : \E v \in executions' : b \in Range(v)
    BY <2>1 DEF HitsInv
  <2>6. \A e \in edge_hit' : \E v \in executions' : <<e[1], a.outs[e[1]][e[2]]>> \in Moves(v)
    BY <2>1, <2>4 DEF HitsInv
  <2> QED
    BY <2>2, <2>5, <2>6 DEF HitsInv, Moves
<1>2. CASE IniSet \/ StartCoverage \/ Collect \/ Step \/ UNCHANGED vars
  <2>1. UNCHANGED <<a, block_hit, edge_hit, executions>>
    BY <1>2 DEF IniSet, StartCoverage, Collect, Step, vars, TryEntry, SkipOut, FollowOut, Return,
       EndSearch, function, hits
  <2> QED
    BY <2>1 DEF HitsInv, Moves
<1> QED
  BY <1>1, <1>2 DEF Next

\* A listed path reported as hit was run, edge by edge or block by block.
Ran(p) ==
  p.hit => IF edge_buf
           THEN Moves(p.path) \subseteq UNION {Moves(PathOf(w)) : w \in executions}
           ELSE Range(p.path) \subseteq UNION {Range(PathOf(w)) : w \in executions}

LEMMA PathOfExecution ==
  ASSUME NEW w \in Seq(AllBlocks)
  PROVE  /\ \A b \in Range(w) : a.start_op[b] \in Range(PathOf(w))
         /\ \A b, c : <<b, c>> \in Moves(w) => <<a.start_op[b], a.start_op[c]>> \in Moves(PathOf(w))
<1> DEFINE n == Len(w)
           v == PathOf(w)
<1>1. n \in Nat /\ DOMAIN w = 1 .. n
  BY LenProperties
<1>2. v = [k \in 1 .. n |-> a.start_op[w[k]]]
  BY <1>1 DEF PathOf
<1>3. Len(v) = n /\ DOMAIN v = 1 .. n /\ \A k \in 1 .. n : v[k] = a.start_op[w[k]]
  <2> HIDE DEF n
  <2> QED
    BY <1>1, <1>2
<1>4. ASSUME NEW b \in Range(w)
      PROVE  a.start_op[b] \in Range(v)
  <2>1. PICK k \in 1 .. n : w[k] = b
    BY <1>1 DEF Range
  <2>2. v[k] = a.start_op[b] /\ k \in DOMAIN v
    BY <1>3, <2>1
  <2> HIDE DEF v
  <2> QED
    BY <2>2 DEF Range
<1>5. ASSUME NEW b, NEW c, <<b, c>> \in Moves(w)
      PROVE  <<a.start_op[b], a.start_op[c]>> \in Moves(v)
  <2>1. PICK k \in 1 .. n - 1 : <<b, c>> = <<w[k], w[k + 1]>>
    BY <1>5 DEF Moves
  <2>2. k \in 1 .. n /\ k + 1 \in 1 .. n /\ w[k] = b /\ w[k + 1] = c
    BY <1>1, <2>1
  <2>3. <<v[k], v[k + 1]>> = <<a.start_op[b], a.start_op[c]>>
    BY <1>3, <2>2
  <2> HIDE DEF v
  <2>4. <<v[k], v[k + 1]>> \in Moves(v)
    BY <1>3, <2>1 DEF Moves
  <2> QED
    BY <2>3, <2>4
<1> QED
  BY <1>4, <1>5

LEMMA EmittedRan ==
  ASSUME TypeOK, IsAnalysis, RouteInv, HitsInv, calls # <<>>
  PROVE  Ran(PathEmitted)
<1> DEFINE n == Len(calls)
           p == PathEmitted.path
<1>1. PathEmitted.hit = AllHit /\ p = [k \in 1 .. n |-> a.start_op[stack[k - 1]]]
  BY DEF PathEmitted
<1>2. n \in Nat /\ Len(p) = n /\ DOMAIN p = 1 .. n
  <2>1. n \in Nat /\ Len(p) = n
    BY EmittedType DEF TypeOK
  <2> QED
    BY <1>1, <2>1
<1>3. \A w \in executions : w \in Seq(AllBlocks)
  BY DEF TypeOK
<1>4. ASSUME AllHit, edge_buf, NEW m \in Moves(p)
      PROVE  \E w \in executions : m \in Moves(PathOf(w))
  <2>1. PICK k \in 1 .. n - 1 : m = <<p[k], p[k + 1]>>
    BY <1>2 DEF Moves
  <2> DEFINE d == k - 1
  <2>2. /\ d \in 0 .. n - 2 /\ d \in 0 .. Depth - 1 /\ (k + 1) - 1 = d + 1
        /\ k \in 1 .. n /\ k + 1 \in 1 .. n
    BY <1>2, <2>1 DEF Depth
  <2>3. m = <<a.start_op[stack[d]], a.start_op[stack[d + 1]]>>
    BY <1>1, <2>1, <2>2
  <2>4. <<stack[d], outidx[d]>> \in edge_hit /\ a.outs[stack[d]][outidx[d]] = stack[d + 1]
    BY <1>4, <2>2 DEF AllHit, RouteInv, Holds
  <2> HIDE DEF d
  <2> DEFINE e == <<stack[d], outidx[d]>>
  <2>5. e[1] = stack[d] /\ e[2] = outidx[d] /\ e \in edge_hit
    BY <2>4
  <2> HIDE DEF e
  <2>6. PICK w \in executions : <<e[1], a.outs[e[1]][e[2]]>> \in Moves(w)
    BY <2>5 DEF HitsInv
  <2>7. <<stack[d], stack[d + 1]>> \in Moves(w)
    BY <2>4, <2>5, <2>6
  <2>8. m \in Moves(PathOf(w))
    BY <1>3, <2>3, <2>7, PathOfExecution
  <2> QED
    BY <2>8
<1>5. ASSUME AllHit, ~edge_buf, NEW v \in Range(p)
      PROVE  \E w \in executions : v \in Range(PathOf(w))
  <2>1. PICK k \in 1 .. n : v = p[k]
    BY <1>2 DEF Range
  <2>2. k - 1 \in 0 .. Depth /\ v = a.start_op[stack[k - 1]]
    BY <1>1, <1>2, <2>1 DEF Depth
  <2>3. stack[k - 1] \in block_hit
    BY <1>5, <2>2 DEF AllHit
  <2>4. PICK w \in executions : stack[k - 1] \in Range(w)
    BY <2>3 DEF HitsInv
  <2>5. v \in Range(PathOf(w))
    BY <1>3, <2>2, <2>4, PathOfExecution
  <2> QED
    BY <2>5
<1> HIDE DEF p
<1>6. AllHit => IF edge_buf
                THEN Moves(p) \subseteq UNION {Moves(PathOf(w)) : w \in executions}
                ELSE Range(p) \subseteq UNION {Range(PathOf(w)) : w \in executions}
  BY <1>4, <1>5
<1> QED
  BY <1>1, <1>6 DEF Ran, p

-----------------------------------------------------------------------------
\* What a call that has followed no out has seen.

\* The route starts at an entry; outs passed over without following one are
\* exits or repeat an edge of the route.
FoundInv ==
  calls # <<>> =>
    /\ a.is_entry[calls[1].block]
    /\ ~Current.found => \A j \in DOMAIN CurrentOuts : j < Current.i => Skips(CurrentOuts[j])

LEMMA FoundStep ==
  ASSUME TypeOK, IsAnalysis, Shape, CapInv, FoundInv, [Next]_vars
  PROVE  FoundInv'
<1>1. Len(calls) \in Nat /\ (calls # <<>> <=> Len(calls) > 0)
  BY CallsLength
<1>2. CASE IniSet \/ StartCoverage \/ Execute \/ EndSearch \/ UNCHANGED vars
  <2>1. UNCHANGED <<a, calls, stack>>
    BY <1>2 DEF IniSet, StartCoverage, Execute, EndSearch, vars, function, search
  <2>2. \A t : Skips(t)' <=> Skips(t)
    BY <2>1 DEF Skips, Cycle, Depth, Current
  <2> QED
    BY <2>1, <2>2 DEF FoundInv, Current, CurrentOuts
<1>3. CASE Collect
  BY <1>3 DEF Collect, FoundInv
<1>4. CASE TryEntry
  <2>1. UNCHANGED a /\ calls = <<>>
    BY <1>4 DEF TryEntry, function
  <2>2. CASE calls' = <<>>
    BY <2>2 DEF FoundInv
  <2>3. CASE calls' # <<>>
    <3> DEFINE r == [block |-> entry, i |-> 1, found |-> FALSE]
    <3>1. calls' = Append(<<>>, r) /\ a.is_entry[entry]
      BY <1>4, <2>1, <2>3 DEF TryEntry, FindPaths
    <3>2. calls' = <<r>>
      BY <3>1
    <3>3. calls'[1] = r /\ Len(calls') = 1
      BY <3>2
    <3>4. r.block = entry /\ r.i = 1
      OBVIOUS
    <3> HIDE DEF r
    <3>5. Current' = r /\ CurrentOuts' = a.outs[entry]
      BY <2>1, <3>3, <3>4 DEF Current, CurrentOuts
    <3>6. entry \in AllBlocks
      BY <1>4, AnalysisType DEF TryEntry, TypeOK, AllBlocks
    <3>7. \A j \in DOMAIN CurrentOuts' : ~(j < Current'.i)
      BY <3>4, <3>5, <3>6, OutIsBlock
    <3> QED
      BY <2>1, <3>1, <3>3, <3>4, <3>7 DEF FoundInv
  <2> QED
    BY <2>2, <2>3
<1>5. CASE SkipOut
  <2>1. /\ calls' = MovedOn(Current.found) /\ calls # <<>> /\ UNCHANGED <<a, stack>>
        /\ Skips(CurrentOuts[Current.i])
    BY <1>5 DEF SkipOut, InCall, function
  <2>2. /\ Len(calls') = Len(calls)
        /\ \A k \in 1 .. Len(calls) : calls'[k].block = calls[k].block
        /\ calls'[Len(calls)].found = Current.found
    BY <2>1, AfterMovedOn
  <2>3. calls'[Len(calls)].i = Current.i + 1
    <3>1. DOMAIN calls = 1 .. Len(calls) /\ Len(calls) \in DOMAIN calls
      BY <1>1, <2>1, CallsLength
    <3> QED
      BY <2>1, <3>1 DEF MovedOn, Onto
  <2>4. Len(calls) \in 1 .. Len(calls) /\ 1 \in 1 .. Len(calls)
    BY <1>1, <2>1
  <2>5. /\ Current'.block = Current.block /\ Current'.found = Current.found
        /\ Current'.i = Current.i + 1 /\ CurrentOuts' = CurrentOuts
        /\ Depth' = Depth /\ calls'[1].block = calls[1].block
    BY <2>1, <2>2, <2>3, <2>4 DEF Current, CurrentOuts, Depth
  <2>6. \A t : Skips(t)' <=> Skips(t)
    BY <2>1, <2>5 DEF Skips, Cycle
  <2>7. Current \in Calls
    BY <2>1, MovedOnType DEF TypeOK
  <2>8. ASSUME ~Current.found, NEW j \in DOMAIN CurrentOuts, j < Current.i + 1
        PROVE  Skips(CurrentOuts[j])
    <3>1. j \in Nat /\ Current.i \in Nat
      BY <2>7, OutIsBlock DEF Calls, CurrentOuts
    <3>2. j < Current.i \/ j = Current.i
      BY <2>8, <3>1
    <3> QED
      BY <2>1, <2>8, <3>2 DEF FoundInv
  <2> QED
    BY <2>1, <2>5, <2>6, <2>8 DEF FoundInv
<1>6. CASE FollowOut
  <2> DEFINE out == CurrentOuts[Current.i]
             cs == MovedOn(TRUE)
  <2>1. /\ calls # <<>> /\ Current.i \in DOMAIN CurrentOuts /\ out # EXIT
        /\ FindPaths(out, cs) /\ UNCHANGED a
    BY <1>6 DEF FollowOut, InCall, Skips, function
  <2>2. /\ Len(cs) = Len(calls) /\ cs \in Seq(Calls) /\ cs[Len(calls)].found = TRUE
        /\ \A k \in 1 .. Len(calls) : cs[k].block = calls[k].block
    BY <2>1, AfterMovedOn, MovedOnType DEF TypeOK
  <2>3. out \in AllBlocks
    BY <2>1, MovedOnType, OutIsBlock DEF TypeOK, CurrentOuts, Calls
  <2>4. 1 \in 1 .. Len(calls)
    BY <1>1, <2>1
  <2> HIDE DEF out, cs
  <2>5. CASE ReturnsAtOnce(Len(cs))
    <3>1. calls' = cs
      BY <2>1, <2>5 DEF FindPaths
    <3> QED
      BY <2>1, <2>2, <2>4, <3>1 DEF FoundInv, Current
  <2>6. CASE ~ReturnsAtOnce(Len(cs))
    <3> DEFINE r == [block |-> out, i |-> 1, found |-> FALSE]
    <3>1. calls' = Append(cs, r)
      BY <2>1, <2>6 DEF FindPaths
    <3>2. /\ Len(calls') = Len(calls) + 1 /\ calls'[Len(calls) + 1] = r
          /\ \A k \in 1 .. Len(calls) : calls'[k] = cs[k]
      BY <2>2, <3>1, AfterBegun
    <3>3. r.block = out /\ r.i = 1
      OBVIOUS
    <3> HIDE DEF r
    <3>4. Current' = r /\ CurrentOuts' = a.outs[out] /\ calls'[1].block = calls[1].block
      BY <2>1, <2>2, <2>4, <3>2, <3>3 DEF Current, CurrentOuts
    <3>5. \A j \in DOMAIN CurrentOuts' : ~(j < Current'.i)
      BY <2>3, <3>3, <3>4, OutIsBlock
    <3> QED
      BY <2>1, <3>4, <3>5 DEF FoundInv
  <2> QED
    BY <2>5, <2>6
<1>7. CASE Return
  <2>1. calls' = SubSeq(calls, 1, Len(calls) - 1) /\ calls # <<>> /\ UNCHANGED a
    BY <1>7 DEF Return, InCall, function
  <2>2. /\ Len(calls') = Len(calls) - 1
        /\ \A k \in 1 .. Len(calls) - 1 : calls'[k] = calls[k]
    BY <2>1, AfterEnded
  <2>3. CASE calls' = <<>>
    BY <2>3 DEF FoundInv
  <2>4. CASE calls' # <<>>
    <3>1. Len(calls') # 0
      BY <1>1, <2>1, <2>2, <2>4, AfterEnded, EmptySeq
    <3>2. 1 \in 1 .. Len(calls) - 1 /\ Len(calls) - 1 \in 1 .. Len(calls) - 1
      BY <1>1, <2>2, <2>1, <3>1
    <3>3. calls'[1] = calls[1] /\ Current'.found
      BY <2>2, <3>2 DEF Current, CapInv
    <3> QED
      BY <2>1, <3>3 DEF FoundInv
  <2> QED
    BY <2>3, <2>4
<1> QED
  BY <1>2, <1>3, <1>4, <1>5, <1>6, <1>7 DEF Next, Step

\* The path of a call that has passed over all outs is a leaf path.
BlocksOf(p) == [k \in DOMAIN p.path |-> a.op_to_block[p.path[k]]]

LEMMA EmittedLeaf ==
  ASSUME TypeOK, IsAnalysis, RouteInv, FoundInv, calls # <<>>, ~Current.found,
         Current.i \notin DOMAIN CurrentOuts
  PROVE  IsLeafPath(BlocksOf(PathEmitted))
<1> DEFINE n == Len(calls)
           p == PathEmitted.path
           w == BlocksOf(PathEmitted)
<1>1. p = [k \in 1 .. n |-> a.start_op[stack[k - 1]]]
  BY DEF PathEmitted
<1>2. n \in Nat \ {0} /\ \A k \in 1 .. n : stack[k - 1] \in AllBlocks
  <2>1. n \in Nat /\ \A k \in 1 .. n : stack[k - 1] \in AllBlocks
    BY EmittedType DEF TypeOK
  <2>2. n # 0
    BY EmptySeq DEF TypeOK
  <2> QED
    BY <2>1, <2>2
<1>3. w = [k \in 1 .. n |-> stack[k - 1]]
  <2>1. DOMAIN p = 1 .. n /\ \A k \in 1 .. n : p[k] = a.start_op[stack[k - 1]]
    BY <1>1
  <2>2. \A k \in 1 .. n : a.op_to_block[p[k]] = stack[k - 1]
    BY <1>2, <2>1, AnalysisType
  <2>3. w = [k \in DOMAIN p |-> a.op_to_block[p[k]]]
    BY DEF BlocksOf
  <2> HIDE DEF p, w
  <2> QED
    BY <2>1, <2>2, <2>3
<1>4. Len(w) = n /\ \A d \in 0 .. n - 1 : w[d + 1] = stack[d]
  <2>1. \A d \in 0 .. n - 1 : d + 1 \in 1 .. n /\ (d + 1) - 1 = d
    BY <1>2
  <2>2. Len(w) = n
    <3> HIDE DEF n, w
    <3> QED
      BY <1>2, <1>3
  <2> QED
    BY <1>3, <2>1, <2>2
<1>5. /\ \A d \in 0 .. n - 1 : stack[d] = calls[d + 1].block
      /\ \A d \in 0 .. n - 2 : outidx[d] \in DOMAIN a.outs[stack[d]]
                               /\ a.outs[stack[d]][outidx[d]] = stack[d + 1]
      /\ \A d, e \in 0 .. n - 2 : stack[d] = stack[e] /\ stack[d + 1] = stack[e + 1] => d = e
  BY DEF RouteInv, Holds
<1>6. w[1] = calls[1].block /\ w[n] = Current.block
  <2>1. 0 \in 0 .. n - 1 /\ n - 1 \in 0 .. n - 1 /\ 0 + 1 = 1 /\ (n - 1) + 1 = n
    BY <1>2
  <2>2. w[0 + 1] = calls[0 + 1].block /\ w[(n - 1) + 1] = calls[(n - 1) + 1].block
    BY <1>4, <1>5, <2>1
  <2> QED
    BY <2>1, <2>2 DEF Current
<1> HIDE DEF w, p
<1>7. a.is_entry[w[1]]
  BY <1>6 DEF FoundInv
<1>8. \A k \in 1 .. n - 1 : /\ k - 1 \in 0 .. n - 2 /\ (k - 1) + 1 = k
                            /\ w[k] = stack[k - 1] /\ w[k + 1] = stack[k]
  <2> TAKE k \in 1 .. n - 1
  <2>1. k - 1 \in 0 .. n - 1 /\ k - 1 \in 0 .. n - 2 /\ k \in 0 .. n - 1 /\ (k - 1) + 1 = k
    BY <1>2
  <2>2. w[(k - 1) + 1] = stack[k - 1] /\ w[k + 1] = stack[k]
    BY <1>4, <2>1
  <2> QED
    BY <2>1, <2>2
<1>9. ASSUME NEW k \in 1 .. n - 1
      PROVE  w[k + 1] \in Range(a.outs[w[k]])
  <2>1. outidx[k - 1] \in DOMAIN a.outs[stack[k - 1]]
        /\ a.outs[stack[k - 1]][outidx[k - 1]] = stack[(k - 1) + 1]
    BY <1>5, <1>8
  <2> QED
    BY <1>8, <2>1 DEF Range
<1>10. ASSUME NEW j \in 1 .. n - 1, NEW k \in 1 .. n - 1, w[j] = w[k], w[j + 1] = w[k + 1]
       PROVE  j = k
  <2>1. /\ j - 1 \in 0 .. n - 2 /\ (j - 1) + 1 = j /\ w[j] = stack[j - 1] /\ w[j + 1] = stack[j]
        /\ k - 1 \in 0 .. n - 2 /\ (k - 1) + 1 = k /\ w[k] = stack[k - 1] /\ w[k + 1] = stack[k]
    BY <1>8
  <2>2. stack[j - 1] = stack[k - 1] /\ stack[(j - 1) + 1] = stack[(k - 1) + 1]
    BY <1>10, <2>1
  <2>3. j - 1 = k - 1
    BY <1>5, <2>1, <2>2
  <2> QED
    BY <1>2, <2>3
<1>11. ASSUME NEW t \in Range(a.outs[w[n]])
       PROVE  t = EXIT \/ <<w[n], t>> \in Moves(w)
  <2>1. PICK j \in DOMAIN CurrentOuts : t = CurrentOuts[j]
    BY <1>6 DEF Range, CurrentOuts
  <2>2. Current \in Calls
    BY MovedOnType DEF TypeOK
  <2>3. PICK m \in 0 .. MaxOuts : DOMAIN CurrentOuts = 1 .. m
    BY <2>2, AnalysisType DEF Calls, CurrentOuts
  <2>4. j < Current.i
    BY <2>1, <2>2, <2>3, MaxOutsAssumption DEF Calls
  <2>5. Skips(t)
    BY <2>1, <2>4 DEF FoundInv
  <2>6. CASE t = EXIT
    BY <2>6
  <2>7. CASE Cycle(t)
    <3>1. PICK d \in 0 .. Depth - 1 : stack[d] = Current.block /\ stack[d + 1] = t
      BY <2>7 DEF Cycle
    <3>2. d + 1 \in 1 .. n - 1 /\ d \in 0 .. n - 1 /\ d + 1 \in 0 .. n - 1
      BY <1>2 DEF Depth
    <3>3. w[d + 1] = w[n] /\ w[(d + 1) + 1] = t
      BY <1>4, <1>6, <3>1, <3>2
    <3> QED
      BY <1>4, <3>2, <3>3 DEF Moves
  <2> QED
    BY <2>5, <2>6, <2>7 DEF Skips
<1>12. IsLeafPath(w)
  BY <1>4, <1>7, <1>9, <1>10, <1>11 DEF IsLeafPath
<1> QED
  BY <1>12 DEF w

\* What every listed path is.
PathsInv ==
  /\ \A p \in Range(paths) : IsLeafPath(BlocksOf(p))
  /\ phase \in {"searching", "collected"} => \A p \in Range(paths) : Ran(p)

LEMMA PathsStep ==
  ASSUME TypeOK, IsAnalysis, RouteInv, HitsInv, FoundInv, PathsInv, [Next]_vars
  PROVE  PathsInv'
<1>1. UNCHANGED <<a, edge_buf>>
  BY DEF Next, Step, vars, function, IniSet, StartCoverage, Execute, Collect, TryEntry, SkipOut,
         FollowOut, Return, EndSearch
<1>2. \A p : IsLeafPath(BlocksOf(p))' <=> IsLeafPath(BlocksOf(p))
  BY <1>1 DEF IsLeafPath, BlocksOf, Moves
<1>3. executions' = executions => \A p : Ran(p)' <=> Ran(p)
  BY <1>1 DEF Ran, PathOf, Moves
<1>4. CASE StartCoverage \/ Execute
  <2>1. paths' = paths /\ phase' = "recording"
    BY <1>4 DEF StartCoverage, Execute, search
  <2> QED
    BY <1>2, <2>1 DEF PathsInv
<1>5. CASE Collect
  <2>1. paths' = <<>>
    BY <1>5 DEF Collect
  <2>2. Range(<<>>) = {}
    BY DEF Range
  <2> QED
    BY <2>1, <2>2 DEF PathsInv
<1>6. CASE IniSet \/ TryEntry \/ SkipOut \/ FollowOut \/ EndSearch \/ UNCHANGED vars
  <2>1. UNCHANGED <<paths, executions>>
    BY <1>6 DEF IniSet, TryEntry, SkipOut, FollowOut, EndSearch, vars, search, hits
  <2>2. phase' = phase \/ phase = "searching"
    BY <1>6 DEF IniSet, TryEntry, SkipOut, FollowOut, EndSearch, vars, Searching
  <2> QED
    BY <1>2, <1>3, <2>1, <2>2 DEF PathsInv
<1>7. CASE Return
  <2>1. /\ calls # <<>> /\ Current.i \notin DOMAIN CurrentOuts
        /\ paths' = IF Current.found THEN paths ELSE Append(paths, PathEmitted)
        /\ phase = "searching" /\ phase' = phase /\ executions' = executions
    BY <1>7 DEF Return, InCall, Searching, PathEmitted, hits
  <2>2. CASE Current.found
    BY <1>2, <1>3, <2>1, <2>2 DEF PathsInv
  <2>3. CASE ~Current.found
    <3>1. PathEmitted \in Paths /\ paths \in Seq(Paths)
      BY EmittedType DEF TypeOK
    <3>2. PICK q : q = PathEmitted
      OBVIOUS
    <3>3. Range(paths') = Range(paths) \cup {q}
      <4>1. Range(Append(paths, q)) = Range(paths) \cup {q}
        BY <3>1, <3>2, RangeOfAppend
      <4> QED
        BY <2>1, <2>3, <3>2, <4>1
    <3>4. IsLeafPath(BlocksOf(q))
      BY <2>1, <2>3, <3>2, EmittedLeaf
    <3>5. Ran(q)
      BY <2>1, <3>2, EmittedRan
    <3> QED
      BY <1>2, <1>3, <2>1, <3>3, <3>4, <3>5 DEF PathsInv
  <2> QED
    BY <2>2, <2>3
<1> QED
  BY <1>4, <1>5, <1>6, <1>7 DEF Next, Step

-----------------------------------------------------------------------------
\* The routes: sequences of blocks with the outs between them.
IsRoute(r) ==
  /\ a.is_entry[r.blocks[1]]
  /\ Len(r.blocks) = Len(r.outs) + 1
  /\ \A k \in 1 .. Len(r.outs) :
       r.outs[k] \in DOMAIN a.outs[r.blocks[k]] /\ a.outs[r.blocks[k]][r.outs[k]] = r.blocks[k + 1]
  /\ \A j, k \in 1 .. Len(r.outs) :
       r.blocks[j] = r.blocks[k] /\ r.blocks[j + 1] = r.blocks[k + 1] => j = k

Routes == LeafRoutes(a.num_blocks)

\* Up to call d of cs, the route r chose what the calls chose.
Agrees(r, cs, d) ==
  /\ r.blocks[1] = cs[1].block
  /\ Len(r.outs) >= d - 1
  /\ \A k \in 1 .. d - 1 : r.outs[k] = cs[k].i - 1

\* The route r is ahead of call d of cs.
AheadOf(r, cs, d) ==
  /\ Agrees(r, cs, d)
  /\ IF Len(r.outs) >= d THEN r.outs[d] >= cs[d].i ELSE d = Len(cs) /\ ~cs[d].found

\* The routes the search comes to yet.
Ahead(cs, e) ==
  {r \in Routes : r.blocks[1] >= e \/ \E d \in 1 .. Len(cs) : AheadOf(r, cs, d)}

\* The route r as it is listed.
RouteHit(r) ==
  /\ Last(r.blocks) \in block_hit
  /\ IF edge_buf THEN \A k \in 1 .. Len(r.outs) : <<r.blocks[k], r.outs[k]>> \in edge_hit
     ELSE \A k \in 1 .. Len(r.blocks) : r.blocks[k] \in block_hit
Item(r) == [path |-> PathOf(r.blocks), hit |-> RouteHit(r)]

\* The loop counters are one past the indices their calls have followed.
IndexInv ==
  /\ \A d \in 0 .. Len(calls) - 2 : outidx[d] = calls[d + 1].i - 1
  /\ calls # <<>> => calls[1].block < entry

\* The hit arrays miss nothing that ran.
HitsComplete ==
  \A w \in executions :
    /\ Range(w) \subseteq block_hit
    /\ edge_buf => \A m \in Moves(w) : EdgeTaken(m[1], m[2]) \subseteq edge_hit

\* Below the cap, what is listed and what is ahead are all routes.
SearchInv ==
  /\ phase \in {"searching", "collected"} =>
       \A p \in Range(paths) : \E r \in Routes : p = Item(r)
  /\ Searching =>
       IF Len(paths) < effective_max_paths
       THEN /\ Len(paths) + Cardinality(Ahead(calls, entry)) = Cardinality(Routes)
            /\ \A r \in Routes \ Ahead(calls, entry) : Item(r) \in Range(paths)
       ELSE effective_max_paths <= Cardinality(Routes)
  /\ Collected =>
       IF Len(paths) < effective_max_paths
       THEN /\ Len(paths) = Cardinality(Routes)
            /\ \A r \in Routes : Item(r) \in Range(paths)
       ELSE effective_max_paths <= Cardinality(Routes)

\* The routes of k outs.
RouteSet == [blocks : Seq(AllBlocks), outs : Seq(Nat)]
RoutesOf(k) == {r \in RouteSet : IsRoute(r) /\ Len(r.outs) = k}

\* Where control goes on from the end of a route.
LEMMA GoesOnTo ==
  ASSUME IsAnalysis, NEW r \in RouteSet, IsRoute(r), NEW i
  PROVE  LET last == r.blocks[Len(r.outs) + 1]
         IN  /\ last \in AllBlocks
             /\ i \in GoesOn(r) <=>
                  /\ i \in DOMAIN a.outs[last] /\ a.outs[last][i] # EXIT
                  /\ \A k \in 1 .. Len(r.outs) :
                       ~(r.blocks[k] = last /\ r.blocks[k + 1] = a.outs[last][i])
<1>1. Last(r.blocks) = r.blocks[Len(r.outs) + 1] /\ Len(r.blocks) - 1 = Len(r.outs)
  BY DEF Last, RouteSet, IsRoute
<1>2. r.blocks[Len(r.outs) + 1] \in AllBlocks
  BY DEF RouteSet, IsRoute
<1>3. \A b, c : <<b, c>> \in Moves(r.blocks) <=>
                 \E k \in 1 .. Len(r.outs) : r.blocks[k] = b /\ r.blocks[k + 1] = c
  BY <1>1 DEF Moves
<1> QED
  BY <1>1, <1>2, <1>3 DEF GoesOn

LEMMA RouteShape ==
  ASSUME NEW r \in RouteSet, IsRoute(r)
  PROVE  /\ Len(r.outs) \in Nat /\ Len(r.blocks) = Len(r.outs) + 1
         /\ \A k \in 1 .. Len(r.outs) + 1 : r.blocks[k] \in AllBlocks
         /\ \A k \in 1 .. Len(r.outs) : r.outs[k] \in Nat
         /\ r = [blocks |-> r.blocks, outs |-> r.outs]
         /\ r.blocks \in Seq(AllBlocks) /\ r.outs \in Seq(Nat)
BY DEF RouteSet, IsRoute

LEMMA OfNoOuts ==
  ASSUME IsAnalysis
  PROVE  RoutesOf(0) = {[blocks |-> <<b>>, outs |-> <<>>] : b \in {c \in AllBlocks : a.is_entry[c]}}
<1>1. ASSUME NEW b \in AllBlocks, a.is_entry[b]
      PROVE  [blocks |-> <<b>>, outs |-> <<>>] \in RoutesOf(0)
  <2> DEFINE r == [blocks |-> <<b>>, outs |-> <<>>]
  <2>1. r \in RouteSet /\ r.blocks[1] = b /\ Len(r.blocks) = 1 /\ Len(r.outs) = 0
    BY EmptySeq DEF RouteSet
  <2> HIDE DEF r
  <2>2. IsRoute(r)
    BY <1>1, <2>1 DEF IsRoute
  <2>3. r \in RoutesOf(0)
    BY <2>1, <2>2 DEF RoutesOf
  <2> QED
    BY <2>3 DEF r
<1>2. ASSUME NEW r \in RoutesOf(0)
      PROVE  \E b \in AllBlocks : a.is_entry[b] /\ r = [blocks |-> <<b>>, outs |-> <<>>]
  <2>1. r \in RouteSet /\ IsRoute(r) /\ Len(r.outs) = 0
    BY DEF RoutesOf
  <2>2. r.outs = <<>>
    BY <2>1, RouteShape, EmptySeq
  <2>3. /\ r.blocks \in Seq(AllBlocks) /\ Len(r.blocks) = 1 /\ r.blocks[1] \in AllBlocks
        /\ a.is_entry[r.blocks[1]] /\ r = [blocks |-> r.blocks, outs |-> r.outs]
    <3>1. Len(r.blocks) = 1
      BY <2>1 DEF IsRoute
    <3>2. r.blocks[1] \in AllBlocks /\ r.blocks \in Seq(AllBlocks)
      BY <2>1, RouteShape
    <3> QED
      BY <2>1, <3>1, <3>2, RouteShape DEF IsRoute
  <2>4. r.blocks = <<r.blocks[1]>>
    BY <2>3
  <2> QED
    BY <2>2, <2>3, <2>4
<1> QED
  BY <1>1, <1>2

\* A route with the out i appended.
ExtendedBy(r, i) ==
  [blocks |-> Append(r.blocks, a.outs[r.blocks[Len(r.outs) + 1]][i]), outs |-> Append(r.outs, i)]

LEMMA ExtendedIsRoute ==
  ASSUME IsAnalysis, NEW r \in RouteSet, IsRoute(r), NEW i \in GoesOn(r)
  PROVE  /\ ExtendedBy(r, i) \in RouteSet /\ IsRoute(ExtendedBy(r, i))
         /\ Len(ExtendedBy(r, i).outs) = Len(r.outs) + 1
<1> DEFINE n == Len(r.outs)
           last == r.blocks[n + 1]
           c == a.outs[last][i]
           q == ExtendedBy(r, i)
<1>1. /\ n \in Nat /\ Len(r.blocks) = n + 1 /\ r.blocks \in Seq(AllBlocks) /\ r.outs \in Seq(Nat)
      /\ \A k \in 1 .. n + 1 : r.blocks[k] \in AllBlocks
  BY RouteShape
<1>2. /\ last \in AllBlocks /\ i \in DOMAIN a.outs[last] /\ c # EXIT
      /\ \A k \in 1 .. n : ~(r.blocks[k] = last /\ r.blocks[k + 1] = c)
  BY GoesOnTo
<1>3. c \in AllBlocks /\ i \in Nat
  BY <1>2, OutIsBlock
<1> HIDE DEF n, last, c
<1>4. q.blocks = Append(r.blocks, c) /\ q.outs = Append(r.outs, i)
  BY DEF ExtendedBy, c, last, n
<1>5. q \in RouteSet
  BY <1>1, <1>3 DEF RouteSet, ExtendedBy, c, last, n
<1> HIDE DEF q
<1>6. /\ Len(q.blocks) = n + 2 /\ Len(q.outs) = n + 1
      /\ \A k \in 1 .. n + 1 : q.blocks[k] = r.blocks[k]
      /\ q.blocks[n + 2] = c
      /\ \A k \in 1 .. n : q.outs[k] = r.outs[k]
      /\ q.outs[n + 1] = i
  BY <1>1, <1>3, <1>4 DEF n
<1>7. q.blocks[n + 1] = last /\ q.blocks[1] = r.blocks[1]
  BY <1>1, <1>6 DEF last
<1>8. ASSUME NEW k \in 1 .. n + 1
      PROVE  q.outs[k] \in DOMAIN a.outs[q.blocks[k]] /\ a.outs[q.blocks[k]][q.outs[k]] = q.blocks[k + 1]
  <2>1. CASE k = n + 1
    BY <1>1, <1>2, <1>6, <1>7, <2>1 DEF c
  <2>2. CASE k \in 1 .. n
    <3>1. /\ q.blocks[k] = r.blocks[k] /\ q.blocks[k + 1] = r.blocks[k + 1] /\ q.outs[k] = r.outs[k]
      BY <1>1, <1>6, <2>2
    <3> QED
      BY <2>2, <3>1 DEF IsRoute, n
  <2> QED
    BY <1>1, <2>1, <2>2
<1>9. ASSUME NEW j \in 1 .. n + 1, NEW k \in 1 .. n + 1,
             q.blocks[j] = q.blocks[k], q.blocks[j + 1] = q.blocks[k + 1]
      PROVE  j = k
  <2>1. \A m \in 1 .. n : m \in 1 .. n + 1 /\ q.blocks[m] = r.blocks[m] /\ q.blocks[m + 1] = r.blocks[m + 1]
    BY <1>1, <1>6
  <2>2. \A m \in 1 .. n : ~(q.blocks[m] = last /\ q.blocks[m + 1] = c)
    BY <1>2, <2>1
  <2>3. q.blocks[n + 1] = last /\ q.blocks[(n + 1) + 1] = c
    BY <1>1, <1>6, <1>7
  <2>4. CASE j = n + 1 /\ k = n + 1
    BY <2>4
  <2>5. CASE j \in 1 .. n /\ k \in 1 .. n
    <3>1. r.blocks[j] = r.blocks[k] /\ r.blocks[j + 1] = r.blocks[k + 1]
      BY <1>9, <2>1, <2>5
    <3> QED
      BY <2>5, <3>1 DEF IsRoute, n
  <2>6. CASE j = n + 1 /\ k \in 1 .. n
    BY <1>9, <2>2, <2>3, <2>6
  <2>7. CASE j \in 1 .. n /\ k = n + 1
    BY <1>9, <2>2, <2>3, <2>7
  <2> QED
    BY <1>1, <2>4, <2>5, <2>6, <2>7
<1>10. IsRoute(q)
  <2>1. a.is_entry[q.blocks[1]]
    BY <1>7 DEF IsRoute
  <2>2. Len(q.blocks) = Len(q.outs) + 1
    BY <1>1, <1>6
  <2> QED
    BY <1>6, <1>8, <1>9, <2>1, <2>2 DEF IsRoute
<1> QED
  BY <1>5, <1>6, <1>10 DEF q, n

LEMMA PrefixOf ==
  ASSUME NEW S, NEW s \in Seq(S), NEW n \in Nat, n <= Len(s)
  PROVE  /\ SubSeq(s, 1, n) \in Seq(S) /\ Len(SubSeq(s, 1, n)) = n
         /\ \A k \in 1 .. n : SubSeq(s, 1, n)[k] = s[k]
<1>1. \A k \in 1 .. n : s[k] \in S /\ (1 + k) - 1 = k
  OBVIOUS
<1>2. /\ SubSeq(s, 1, n) \in Seq(S)
      /\ Len(SubSeq(s, 1, n)) = IF 1 <= n THEN n - 1 + 1 ELSE 0
      /\ \A k \in 1 .. n - 1 + 1 : SubSeq(s, 1, n)[k] = s[(1 + k) - 1]
  BY <1>1, SubSeqProperties
<1> DEFINE p == SubSeq(s, 1, n)
<1> HIDE DEF p
<1>3. /\ n - 1 + 1 = n /\ ~(1 <= n) => n = 0
  OBVIOUS
<1> QED
  BY <1>1, <1>2, <1>3

LEMMA RouteIsExtended ==
  ASSUME IsAnalysis, NEW q \in RouteSet, IsRoute(q), Len(q.outs) > 0
  PROVE  \E r \in RoutesOf(Len(q.outs) - 1) : \E i \in GoesOn(r) : q = ExtendedBy(r, i)
<1>1. PICK n \in Nat : Len(q.outs) = n + 1
  <2>1. Len(q.outs) \in Nat /\ Len(q.outs) - 1 \in Nat /\ Len(q.outs) = (Len(q.outs) - 1) + 1
    BY RouteShape
  <2> QED
    BY <2>1
<1> DEFINE bs == SubSeq(q.blocks, 1, n + 1)
           os == SubSeq(q.outs, 1, n)
           r == [blocks |-> bs, outs |-> os]
           i == q.outs[n + 1]
<1>2. /\ Len(q.blocks) = n + 2 /\ q.blocks \in Seq(AllBlocks) /\ q.outs \in Seq(Nat)
      /\ \A k \in 1 .. n + 2 : q.blocks[k] \in AllBlocks
      /\ q = [blocks |-> q.blocks, outs |-> q.outs]
  <2>1. Len(q.blocks) = n + 2
    BY <1>1 DEF IsRoute
  <2>2. Len(q.outs) + 1 = n + 2
    BY <1>1
  <2> QED
    BY <2>1, <2>2, RouteShape
<1>3. /\ bs \in Seq(AllBlocks) /\ Len(bs) = n + 1 /\ \A k \in 1 .. n + 1 : bs[k] = q.blocks[k]
  <2>1. n + 1 \in Nat /\ n + 1 <= Len(q.blocks)
    BY <1>2
  <2> QED
    BY <1>2, <2>1, PrefixOf
<1>4. /\ os \in Seq(Nat) /\ Len(os) = n /\ \A k \in 1 .. n : os[k] = q.outs[k]
  <2>1. n <= Len(q.outs)
    BY <1>1
  <2> QED
    BY <1>2, <2>1, PrefixOf
<1>5. q.blocks = Append(bs, q.blocks[n + 2]) /\ q.outs = Append(os, i)
  <2>1. q.blocks[n + 2] \in AllBlocks /\ i \in Nat
    BY <1>1, <1>2
  <2> HIDE DEF bs, os, i
  <2>2. q.blocks = Append(bs, q.blocks[n + 2])
    <3> DEFINE s == Append(bs, q.blocks[n + 2])
    <3>1. s \in Seq(AllBlocks) /\ Len(s) = n + 2
          /\ s[n + 2] = q.blocks[n + 2] /\ \A k \in 1 .. n + 1 : s[k] = q.blocks[k]
      BY <1>3, <2>1
    <3>2. \A k \in 1 .. n + 2 : s[k] = q.blocks[k]
      BY <3>1
    <3> HIDE DEF s
    <3>3. s = q.blocks
      BY <1>2, <3>1, <3>2, SeqEqual
    <3> QED
      BY <3>3 DEF s
  <2>3. q.outs = Append(os, i)
    <3> DEFINE s == Append(os, i)
    <3>1. s \in Seq(Nat) /\ Len(s) = n + 1
          /\ s[n + 1] = i /\ \A k \in 1 .. n : s[k] = q.outs[k]
      BY <1>4, <2>1
    <3>2. \A k \in 1 .. n + 1 : s[k] = q.outs[k]
      BY <3>1 DEF i
    <3> HIDE DEF s
    <3>3. s = q.outs
      BY <1>1, <1>2, <3>1, <3>2, SeqEqual
    <3> QED
      BY <3>3 DEF s
  <2> QED
    BY <2>2, <2>3
<1> HIDE DEF bs, os
<1>6. r \in RouteSet /\ r.blocks = bs /\ r.outs = os
  BY <1>3, <1>4 DEF RouteSet
<1> HIDE DEF r
<1>7. \A k \in 1 .. n : /\ k \in 1 .. n + 1 /\ r.blocks[k] = q.blocks[k]
                        /\ r.blocks[k + 1] = q.blocks[k + 1] /\ r.outs[k] = q.outs[k]
  BY <1>3, <1>4, <1>6
<1>8. \A k \in 1 .. n + 1 :
        q.outs[k] \in DOMAIN a.outs[q.blocks[k]] /\ a.outs[q.blocks[k]][q.outs[k]] = q.blocks[k + 1]
  BY <1>1 DEF IsRoute
<1>9. \A j, k \in 1 .. n + 1 :
        q.blocks[j] = q.blocks[k] /\ q.blocks[j + 1] = q.blocks[k + 1] => j = k
  BY <1>1 DEF IsRoute
<1>10. IsRoute(r)
  <2>1. a.is_entry[r.blocks[1]] /\ Len(r.blocks) = Len(r.outs) + 1 /\ Len(r.outs) = n
    BY <1>3, <1>4, <1>6 DEF IsRoute
  <2>2. \A k \in 1 .. n :
          r.outs[k] \in DOMAIN a.outs[r.blocks[k]] /\ a.outs[r.blocks[k]][r.outs[k]] = r.blocks[k + 1]
    BY <1>7, <1>8
  <2>3. \A j, k \in 1 .. n :
          r.blocks[j] = r.blocks[k] /\ r.blocks[j + 1] = r.blocks[k + 1] => j = k
    BY <1>7, <1>9
  <2> QED
    BY <2>1, <2>2, <2>3 DEF IsRoute
<1>11. Len(r.outs) = n /\ r.blocks[n + 1] = q.blocks[n + 1] /\ (n + 1) + 1 = n + 2
       /\ n + 1 \in 1 .. n + 1
  BY <1>3, <1>4, <1>6
<1>12. i \in GoesOn(r)
  <2>1. i \in DOMAIN a.outs[r.blocks[n + 1]] /\ a.outs[r.blocks[n + 1]][i] = q.blocks[n + 2]
    BY <1>8, <1>11
  <2>2. q.blocks[n + 2] # EXIT
    <3>1. q.blocks[n + 2] \in AllBlocks
      BY <1>2
    <3> QED
      BY <3>1, AnalysisType DEF AllBlocks, EXIT
  <2>3. \A k \in 1 .. n : ~(r.blocks[k] = r.blocks[n + 1] /\ r.blocks[k + 1] = q.blocks[n + 2])
    <3> TAKE k \in 1 .. n
    <3>1. k # n + 1
      OBVIOUS
    <3> QED
      BY <1>7, <1>9, <1>11, <3>1
  <2> HIDE DEF i
  <2> QED
    BY <1>6, <1>10, <1>11, <2>1, <2>2, <2>3, GoesOnTo
<1>13. q = ExtendedBy(r, i)
  <2>1. a.outs[r.blocks[Len(r.outs) + 1]][i] = q.blocks[n + 2]
    BY <1>8, <1>11
  <2>2. ExtendedBy(r, i) = [blocks |-> Append(bs, q.blocks[n + 2]), outs |-> Append(os, i)]
    BY <1>6, <2>1 DEF ExtendedBy
  <2> QED
    BY <1>2, <1>5, <2>2
<1>14. r \in RoutesOf(Len(q.outs) - 1)
  <2>1. Len(q.outs) - 1 = n
    BY <1>1
  <2> QED
    BY <1>6, <1>10, <1>11, <2>1 DEF RoutesOf
<1> QED
  BY <1>12, <1>13, <1>14

\* The routes of one out more.
LEMMA OfOneOutMore ==
  ASSUME IsAnalysis, NEW k \in Nat
  PROVE  RoutesOf(k + 1) = UNION {Extended(r) : r \in RoutesOf(k)}
<1>1. ASSUME NEW r \in RoutesOf(k)
      PROVE  Extended(r) = {ExtendedBy(r, i) : i \in GoesOn(r)}
  <2>1. Last(r.blocks) = r.blocks[Len(r.outs) + 1]
    BY DEF Last, RoutesOf, IsRoute
  <2> QED
    BY <2>1 DEF Extended, ExtendedBy
<1>2. ASSUME NEW r \in RoutesOf(k), NEW i \in GoesOn(r)
      PROVE  ExtendedBy(r, i) \in RoutesOf(k + 1)
  BY ExtendedIsRoute DEF RoutesOf
<1>3. ASSUME NEW q \in RoutesOf(k + 1)
      PROVE  \E r \in RoutesOf(k) : \E i \in GoesOn(r) : q = ExtendedBy(r, i)
  <2>1. q \in RouteSet /\ IsRoute(q) /\ Len(q.outs) = k + 1
    BY DEF RoutesOf
  <2>2. Len(q.outs) > 0 /\ Len(q.outs) - 1 = k
    BY <2>1
  <2>3. \E r \in RoutesOf(Len(q.outs) - 1) : \E i \in GoesOn(r) : q = ExtendedBy(r, i)
    BY <2>1, <2>2, RouteIsExtended
  <2> QED
    BY <2>2, <2>3
<1>4. RoutesOf(k + 1) \subseteq UNION {Extended(r) : r \in RoutesOf(k)}
  BY <1>1, <1>3
<1>5. UNION {Extended(r) : r \in RoutesOf(k)} \subseteq RoutesOf(k + 1)
  BY <1>1, <1>2
<1> QED
  BY <1>4, <1>5

\* The recursion of LeafRoutes is by the number of outs.
LEMMA LeafRoutesAre ==
  ASSUME IsAnalysis, NEW n \in Nat
  PROVE  LeafRoutes(n) = {r \in UNION {RoutesOf(k) : k \in 0 .. n} : GoesOn(r) = {}}
<1> DEFINE first == {[blocks |-> <<b>>, outs |-> <<>>] : b \in {c \in AllBlocks : a.is_entry[c]}}
           rule(f) == [k \in 0 .. n |-> IF k = 0 THEN first ELSE UNION {Extended(r) : r \in f[k - 1]}]
           g == [k \in 0 .. n |-> RoutesOf(k)]
           from == CHOOSE f : f = rule(f)
<1>1. LeafRoutes(n) = {r \in UNION {from[k] : k \in 0 .. n} : GoesOn(r) = {}}
  BY DEF LeafRoutes
<1>2. RoutesOf(0) = first
  BY OfNoOuts
<1>3. \A k \in 1 .. n : /\ k - 1 \in 0 .. n /\ k - 1 \in Nat /\ ~(k <= k - 1)
                        /\ RoutesOf(k) = UNION {Extended(r) : r \in RoutesOf(k - 1)}
  <2> TAKE k \in 1 .. n
  <2>1. k - 1 \in 0 .. n /\ k - 1 \in Nat /\ ~(k <= k - 1) /\ (k - 1) + 1 = k
    OBVIOUS
  <2>2. RoutesOf((k - 1) + 1) = UNION {Extended(r) : r \in RoutesOf(k - 1)}
    BY <2>1, OfOneOutMore
  <2> QED
    BY <2>1, <2>2
<1> HIDE DEF first
<1>4. g = rule(g)
  <2>1. \A k \in 0 .. n : g[k] = IF k = 0 THEN first ELSE UNION {Extended(r) : r \in g[k - 1]}
    <3> TAKE k \in 0 .. n
    <3>1. CASE k = 0
      BY <1>2, <3>1
    <3>2. CASE k # 0
      <4>1. k \in 1 .. n
        BY <3>2
      <4>2. g[k - 1] = RoutesOf(k - 1) /\ g[k] = RoutesOf(k)
        BY <1>3, <4>1
      <4> QED
        BY <1>3, <3>2, <4>1, <4>2
    <3> QED
      BY <3>1, <3>2
  <2> HIDE DEF g
  <2>2. g = [k \in 0 .. n |-> g[k]]
    BY DEF g
  <2> QED
    BY <2>1, <2>2
<1>5. from = rule(from)
  <2> HIDE DEF rule, g
  <2> QED
    BY <1>4
<1> HIDE DEF from
<1>6. \A k \in 0 .. n : from[k] = IF k = 0 THEN first ELSE UNION {Extended(r) : r \in from[k - 1]}
  BY <1>5
<1> DEFINE bad == {k \in 0 .. n : from[k] # RoutesOf(k)}
<1>7. bad = {}
  <2> SUFFICES ASSUME bad # {} PROVE FALSE
    OBVIOUS
  <2>1. bad \in SUBSET Nat
    OBVIOUS
  <2> HIDE DEF bad
  <2>2. PICK k \in bad : \A j \in bad : k <= j
    BY <2>1, LeastNatural
  <2>3. k \in 0 .. n /\ from[k] # RoutesOf(k)
    BY <2>2 DEF bad
  <2>4. CASE k = 0
    BY <1>2, <1>6, <2>3, <2>4
  <2>5. CASE k # 0
    <3>1. k \in 1 .. n
      BY <2>3, <2>5
    <3>2. from[k - 1] = RoutesOf(k - 1)
      BY <1>3, <2>2, <3>1 DEF bad
    <3>3. from[k] = UNION {Extended(r) : r \in from[k - 1]}
      BY <1>6, <2>3, <2>5
    <3> QED
      BY <1>3, <2>3, <3>1, <3>2, <3>3
  <2> QED
    BY <2>4, <2>5
<1>8. {from[k] : k \in 0 .. n} = {RoutesOf(k) : k \in 0 .. n}
  BY <1>7
<1> QED
  BY <1>1, <1>8

LEMMA FiniteImage ==
  ASSUME NEW S, IsFiniteSet(S), NEW f
  PROVE  IsFiniteSet({f[x] : x \in S})
<1> DEFINE T == {f[x] : x \in S}
           g == [x \in S |-> f[x]]
<1>1. g \in Surjection(S, T)
  BY DEF Surjection
<1>2. IsFiniteSet(T)
  BY <1>1, FS_Surjection
<1> QED
  BY <1>2

LEMMA RoutesOfFinite ==
  ASSUME IsAnalysis, NEW n \in Nat
  PROVE  IsFiniteSet(RoutesOf(n))
<1> DEFINE bad == {k \in Nat : ~IsFiniteSet(RoutesOf(k))}
<1>1. IsFiniteSet(RoutesOf(0))
  <2> DEFINE es == {c \in AllBlocks : a.is_entry[c]}
             f == [b \in es |-> [blocks |-> <<b>>, outs |-> <<>>]]
  <2>1. IsFiniteSet(AllBlocks)
    <3>1. 0 \in Int /\ a.num_blocks - 1 \in Int
      BY AnalysisType
    <3> QED
      BY <3>1, FS_Interval DEF AllBlocks
  <2>2. IsFiniteSet(es)
    BY <2>1, FS_Subset
  <2>3. {f[b] : b \in es} = RoutesOf(0)
    BY OfNoOuts
  <2> HIDE DEF es, f
  <2>4. IsFiniteSet({f[b] : b \in es})
    BY <2>2, FiniteImage
  <2> QED
    BY <2>3, <2>4
<1>2. ASSUME NEW k \in Nat, IsFiniteSet(RoutesOf(k))
      PROVE  IsFiniteSet(RoutesOf(k + 1))
  <2>1. ASSUME NEW r \in RoutesOf(k)
        PROVE  IsFiniteSet(Extended(r))
    <3>1. r \in RouteSet /\ IsRoute(r)
      BY DEF RoutesOf
    <3>2. GoesOn(r) \subseteq 1 .. MaxOuts
      BY <3>1, GoesOnTo, OutIsBlock
    <3>3. IsFiniteSet(GoesOn(r))
      <4>1. MaxOuts \in Int
        BY MaxOutsAssumption
      <4>2. IsFiniteSet(1 .. MaxOuts)
        BY <4>1, FS_Interval
      <4> QED
        BY <3>2, <4>2, FS_Subset
    <3> DEFINE f == [i \in GoesOn(r) |-> [blocks |-> Append(r.blocks, a.outs[Last(r.blocks)][i]),
                                          outs |-> Append(r.outs, i)]]
    <3>4. {f[i] : i \in GoesOn(r)} = Extended(r)
      BY DEF Extended
    <3> HIDE DEF f
    <3>5. IsFiniteSet({f[i] : i \in GoesOn(r)})
      BY <3>3, FiniteImage
    <3> QED
      BY <3>4, <3>5
  <2> DEFINE f == [r \in RoutesOf(k) |-> Extended(r)]
             all == {Extended(r) : r \in RoutesOf(k)}
  <2>2. IsFiniteSet(all)
    <3>1. {f[r] : r \in RoutesOf(k)} = all
      OBVIOUS
    <3> HIDE DEF f, all
    <3>2. IsFiniteSet({f[r] : r \in RoutesOf(k)})
      BY <1>2, FiniteImage
    <3> QED
      BY <3>1, <3>2
  <2>3. \A s \in all : IsFiniteSet(s)
    BY <2>1
  <2> HIDE DEF all, f
  <2>4. IsFiniteSet(UNION all)
    BY <2>2, <2>3, FS_UNION
  <2> QED
    BY <2>4, OfOneOutMore DEF all
<1>3. bad = {}
  <2> SUFFICES ASSUME bad # {} PROVE FALSE
    OBVIOUS
  <2>1. bad \in SUBSET Nat
    OBVIOUS
  <2> HIDE DEF bad
  <2>2. PICK k \in bad : \A j \in bad : k <= j
    BY <2>1, LeastNatural
  <2>3. k \in Nat /\ ~IsFiniteSet(RoutesOf(k))
    BY <2>2 DEF bad
  <2>4. k # 0
    BY <1>1, <2>3
  <2>5. k - 1 \in Nat /\ ~(k <= k - 1) /\ (k - 1) + 1 = k
    BY <2>3, <2>4
  <2>6. IsFiniteSet(RoutesOf(k - 1))
    BY <2>2, <2>5 DEF bad
  <2>7. IsFiniteSet(RoutesOf((k - 1) + 1))
    BY <1>2, <2>5, <2>6
  <2> QED
    BY <2>3, <2>5, <2>7
<1> QED
  BY <1>3

\* The routes that can be listed: up to num_blocks + 1 blocks, and no further.
LEMMA RoutesAre ==
  ASSUME IsAnalysis
  PROVE  /\ \A r : r \in Routes <=> /\ r \in RouteSet /\ IsRoute(r)
                                    /\ Len(r.outs) <= a.num_blocks /\ GoesOn(r) = {}
         /\ IsFiniteSet(Routes) /\ Cardinality(Routes) \in Nat
<1> DEFINE n == a.num_blocks
           levels == {RoutesOf(k) : k \in 0 .. n}
<1>1. n \in Nat /\ 0 \in Int /\ n \in Int
  BY AnalysisType
<1>2. Routes = {r \in UNION levels : GoesOn(r) = {}}
  BY <1>1, LeafRoutesAre DEF Routes
<1>3. \A r : r \in UNION levels <=> r \in RouteSet /\ IsRoute(r) /\ Len(r.outs) <= n
  <2>1. \A r : r \in RouteSet /\ IsRoute(r) => Len(r.outs) \in Nat
    BY RouteShape
  <2> HIDE DEF n
  <2>2. \A r, k : r \in RoutesOf(k) <=> r \in RouteSet /\ IsRoute(r) /\ Len(r.outs) = k
    BY DEF RoutesOf
  <2>3. ASSUME NEW r, r \in RouteSet, IsRoute(r), Len(r.outs) <= n
        PROVE  r \in UNION levels
    <3>1. Len(r.outs) \in 0 .. n /\ r \in RoutesOf(Len(r.outs))
      BY <1>1, <2>1, <2>2, <2>3
    <3> QED
      BY <3>1
  <2>4. ASSUME NEW r \in UNION levels
        PROVE  r \in RouteSet /\ IsRoute(r) /\ Len(r.outs) <= n
    BY <1>1, <2>2
  <2> QED
    BY <2>3, <2>4
<1>4. IsFiniteSet(UNION levels)
  <2> DEFINE f == [k \in 0 .. n |-> RoutesOf(k)]
  <2>1. {f[k] : k \in 0 .. n} = levels
    OBVIOUS
  <2>2. \A k \in 0 .. n : IsFiniteSet(RoutesOf(k))
    BY <1>1, RoutesOfFinite
  <2>3. \A s \in levels : IsFiniteSet(s)
    BY <2>2
  <2>4. IsFiniteSet(0 .. n)
    BY <1>1, FS_Interval
  <2> HIDE DEF f, levels, n
  <2>5. IsFiniteSet(levels)
    BY <2>1, <2>4, FiniteImage
  <2> QED
    BY <2>3, <2>5, FS_UNION
<1> HIDE DEF levels
<1>5. IsFiniteSet(Routes)
  BY <1>2, <1>4, FS_Subset
<1>6. Cardinality(Routes) \in Nat
  BY <1>5, FS_CardinalityType
<1> HIDE DEF n
<1>7. \A r : r \in Routes <=> r \in UNION levels /\ GoesOn(r) = {}
  BY <1>2
<1>8. \A r : r \in Routes <=> /\ r \in RouteSet /\ IsRoute(r)
                              /\ Len(r.outs) <= n /\ GoesOn(r) = {}
  BY <1>3, <1>7
<1> QED
  BY <1>5, <1>6, <1>8 DEF n

LEMMA RouteIn ==
  ASSUME IsAnalysis, NEW r \in Routes
  PROVE  /\ r \in RouteSet /\ IsRoute(r) /\ GoesOn(r) = {}
         /\ Len(r.outs) \in Nat /\ Len(r.outs) <= a.num_blocks /\ Len(r.blocks) = Len(r.outs) + 1
         /\ \A k \in 1 .. Len(r.outs) + 1 : r.blocks[k] \in AllBlocks
         /\ \A k \in 1 .. Len(r.outs) : r.outs[k] \in Nat
         /\ r.blocks[1] \in AllBlocks
<1>1. r \in RouteSet /\ IsRoute(r) /\ GoesOn(r) = {} /\ Len(r.outs) <= a.num_blocks
  BY RoutesAre
<1>2. /\ Len(r.outs) \in Nat /\ Len(r.blocks) = Len(r.outs) + 1
      /\ \A k \in 1 .. Len(r.outs) + 1 : r.blocks[k] \in AllBlocks
      /\ \A k \in 1 .. Len(r.outs) : r.outs[k] \in Nat
  BY <1>1, RouteShape
<1>3. 1 \in 1 .. Len(r.outs) + 1
  BY <1>2
<1> QED
  BY <1>1, <1>2, <1>3

LEMMA AheadFinite ==
  ASSUME IsAnalysis, NEW cs, NEW e
  PROVE  IsFiniteSet(Ahead(cs, e)) /\ Cardinality(Ahead(cs, e)) \in Nat
<1>1. Ahead(cs, e) \in SUBSET Routes
  BY DEF Ahead
<1>2. IsFiniteSet(Ahead(cs, e))
  BY <1>1, RoutesAre, FS_Subset
<1> QED
  BY <1>2, FS_CardinalityType

\* The calls as a route.
LEMMA CallsAreRoute ==
  ASSUME TypeOK, IsAnalysis, RouteInv, IndexInv, calls # <<>>
  PROVE  /\ Len(calls) \in Nat \ {0} /\ Len(calls) <= a.num_blocks + 1
         /\ \A k \in 1 .. Len(calls) : calls[k] \in Calls
         /\ \A k \in 1 .. Len(calls) - 1 :
              /\ calls[k].i - 1 \in DOMAIN a.outs[calls[k].block]
              /\ a.outs[calls[k].block][calls[k].i - 1] = calls[k + 1].block
         /\ \A j, k \in 1 .. Len(calls) - 1 :
              calls[j].block = calls[k].block /\ calls[j + 1].block = calls[k + 1].block => j = k
         /\ calls[1].block < entry /\ entry \in Nat
<1> DEFINE n == Len(calls)
<1>1. calls \in Seq(Calls) /\ entry \in 0 .. a.num_blocks /\ a.num_blocks \in Nat
  BY AnalysisType DEF TypeOK
<1>2. n \in Nat \ {0} /\ \A k \in 1 .. n : calls[k] \in Calls
  BY <1>1, EmptySeq
<1>3. /\ n <= a.num_blocks + 1
      /\ \A d \in 0 .. n - 1 : stack[d] = calls[d + 1].block
      /\ \A d \in 0 .. n - 2 : outidx[d] \in DOMAIN a.outs[stack[d]]
                               /\ a.outs[stack[d]][outidx[d]] = stack[d + 1]
      /\ \A d, e \in 0 .. n - 2 : stack[d] = stack[e] /\ stack[d + 1] = stack[e + 1] => d = e
      /\ \A d \in 0 .. n - 2 : outidx[d] = calls[d + 1].i - 1
      /\ calls[1].block < entry
  BY DEF RouteInv, Holds, IndexInv
<1> HIDE DEF n
<1>4. \A k \in 1 .. n - 1 : /\ k - 1 \in 0 .. n - 2 /\ (k - 1) + 1 = k
                            /\ k - 1 \in 0 .. n - 1 /\ k \in 0 .. n - 1
  BY <1>2
<1>5. \A k \in 1 .. n - 1 : /\ stack[k - 1] = calls[k].block /\ stack[k] = calls[k + 1].block
                            /\ outidx[k - 1] = calls[k].i - 1
                            /\ outidx[k - 1] \in DOMAIN a.outs[stack[k - 1]]
                            /\ a.outs[stack[k - 1]][outidx[k - 1]] = stack[(k - 1) + 1]
  <2> TAKE k \in 1 .. n - 1
  <2>1. stack[k - 1] = calls[(k - 1) + 1].block /\ stack[k] = calls[k + 1].block
    BY <1>3, <1>4
  <2> QED
    BY <1>3, <1>4, <2>1
<1>6. ASSUME NEW j \in 1 .. n - 1, NEW k \in 1 .. n - 1,
             calls[j].block = calls[k].block, calls[j + 1].block = calls[k + 1].block
      PROVE  j = k
  <2>1. stack[j - 1] = stack[k - 1] /\ stack[(j - 1) + 1] = stack[(k - 1) + 1]
    BY <1>4, <1>5, <1>6
  <2>2. j - 1 = k - 1
    BY <1>3, <1>4, <2>1
  <2> QED
    BY <1>4, <2>2
<1>7. ASSUME NEW k \in 1 .. n - 1
      PROVE  /\ calls[k].i - 1 \in DOMAIN a.outs[calls[k].block]
             /\ a.outs[calls[k].block][calls[k].i - 1] = calls[k + 1].block
  BY <1>4, <1>5
<1> QED
  BY <1>1, <1>2, <1>3, <1>6, <1>7 DEF n

\* A route that chose what the calls chose went through their blocks.
LEMMA BlocksAgree ==
  ASSUME TypeOK, IsAnalysis, RouteInv, IndexInv, calls # <<>>,
         NEW r \in RouteSet, IsRoute(r), NEW d \in 1 .. Len(calls), Agrees(r, calls, d)
  PROVE  \A k \in 1 .. d : r.blocks[k] = calls[k].block
<1> DEFINE bad == {k \in 1 .. d : r.blocks[k] # calls[k].block}
<1>1. d \in Nat /\ Len(calls) \in Nat /\ Len(r.outs) \in Nat
  BY CallsAreRoute, RouteShape
<1>2. bad = {}
  <2> SUFFICES ASSUME bad # {} PROVE FALSE
    OBVIOUS
  <2>1. bad \in SUBSET Nat
    BY <1>1
  <2> HIDE DEF bad
  <2>2. PICK k \in bad : \A j \in bad : k <= j
    BY <2>1, LeastNatural
  <2>3. k \in 1 .. d /\ r.blocks[k] # calls[k].block
    BY <2>2 DEF bad
  <2>4. k # 1
    BY <2>3 DEF Agrees
  <2>5. PICK m \in 1 .. d - 1 : k = m + 1
    <3>1. k - 1 \in 1 .. d - 1 /\ k = (k - 1) + 1
      BY <1>1, <2>3, <2>4
    <3> QED
      BY <3>1
  <2>6. m \in 1 .. d /\ ~(k <= m) /\ m \in 1 .. Len(calls) - 1 /\ m \in 1 .. Len(r.outs)
    BY <1>1, <2>5 DEF Agrees
  <2>7. r.blocks[m] = calls[m].block /\ r.outs[m] = calls[m].i - 1
    BY <2>2, <2>5, <2>6 DEF bad, Agrees
  <2>8. a.outs[calls[m].block][calls[m].i - 1] = calls[m + 1].block
    BY <2>6, CallsAreRoute
  <2>9. a.outs[r.blocks[m]][r.outs[m]] = r.blocks[m + 1]
    BY <2>6 DEF IsRoute
  <2> QED
    BY <2>3, <2>5, <2>7, <2>8, <2>9
<1> QED
  BY <1>2

\* What a call passes over, told from the calls.
LEMMA SkipsAre ==
  ASSUME TypeOK, IsAnalysis, RouteInv, IndexInv, calls # <<>>, NEW out
  PROVE  Skips(out) <=> \/ out = EXIT
                        \/ \E k \in 1 .. Len(calls) - 1 :
                             calls[k].block = Current.block /\ calls[k + 1].block = out
<1> DEFINE n == Len(calls)
<1>1. n \in Nat \ {0} /\ \A d \in 0 .. n - 1 : stack[d] = calls[d + 1].block
  BY CallsAreRoute DEF RouteInv, Holds
<1>2. Cycle(out) <=> \E d \in 0 .. (n - 1) - 1 : stack[d] = Current.block /\ stack[d + 1] = out
  BY DEF Cycle, Depth
<1> HIDE DEF n
<1>3. \A d \in 0 .. (n - 1) - 1 : /\ d + 1 \in 1 .. n - 1 /\ stack[d] = calls[d + 1].block
                                  /\ stack[d + 1] = calls[(d + 1) + 1].block
  <2> TAKE d \in 0 .. (n - 1) - 1
  <2>1. d + 1 \in 1 .. n - 1 /\ d \in 0 .. n - 1 /\ d + 1 \in 0 .. n - 1
    BY <1>1
  <2> QED
    BY <1>1, <2>1
<1>4. \A k \in 1 .. n - 1 : k - 1 \in 0 .. (n - 1) - 1 /\ (k - 1) + 1 = k
  BY <1>1
<1>5. Cycle(out) <=> \E k \in 1 .. n - 1 : calls[k].block = Current.block /\ calls[k + 1].block = out
  <2>1. ASSUME NEW k \in 1 .. n - 1, calls[k].block = Current.block, calls[k + 1].block = out
        PROVE  Cycle(out)
    <3>1. stack[k - 1] = Current.block /\ stack[(k - 1) + 1] = out
      BY <1>3, <1>4, <2>1
    <3> QED
      BY <1>2, <1>4, <3>1
  <2>2. ASSUME NEW d \in 0 .. (n - 1) - 1, stack[d] = Current.block, stack[d + 1] = out
        PROVE  \E k \in 1 .. n - 1 : calls[k].block = Current.block /\ calls[k + 1].block = out
    BY <1>3, <2>2
  <2> QED
    BY <1>2, <2>1, <2>2
<1> QED
  BY <1>5 DEF Skips, n

\* A route that has come to the current block the way the calls have: an out
\* passed over is none it takes, and one to be followed keeps it from ending.
LEMMA AtCurrent ==
  ASSUME TypeOK, IsAnalysis, RouteInv, IndexInv, calls # <<>>, NEW r \in Routes,
         Agrees(r, calls, Len(calls))
  PROVE  /\ Len(r.outs) >= Len(calls) =>
              /\ r.outs[Len(calls)] \in DOMAIN CurrentOuts
              /\ ~Skips(CurrentOuts[r.outs[Len(calls)]])
         /\ Len(r.outs) < Len(calls) =>
              \A i \in DOMAIN CurrentOuts : Skips(CurrentOuts[i])
<1> DEFINE n == Len(calls)
<1>1. /\ r \in RouteSet /\ IsRoute(r) /\ GoesOn(r) = {} /\ Len(r.outs) \in Nat
      /\ \A k \in 1 .. Len(r.outs) + 1 : r.blocks[k] \in AllBlocks
  BY RouteIn
<1>2. n \in Nat \ {0} /\ n \in 1 .. n /\ \A k \in 1 .. n - 1 : k \in 1 .. n /\ k + 1 \in 1 .. n
  BY CallsAreRoute
<1>3. \A k \in 1 .. n : r.blocks[k] = calls[k].block
  BY <1>1, <1>2, BlocksAgree
<1>4. r.blocks[n] = Current.block /\ CurrentOuts = a.outs[r.blocks[n]]
  BY <1>2, <1>3 DEF Current, CurrentOuts
<1>5. \A k \in 1 .. n - 1 : calls[k].block = r.blocks[k] /\ calls[k + 1].block = r.blocks[k + 1]
  BY <1>2, <1>3
<1>6. \A out : Skips(out) <=> out = EXIT \/ \E k \in 1 .. n - 1 : r.blocks[k] = r.blocks[n]
                                                                  /\ r.blocks[k + 1] = out
  <2> TAKE out
  <2>1. Skips(out) <=> out = EXIT \/ \E k \in 1 .. n - 1 : calls[k].block = Current.block
                                                           /\ calls[k + 1].block = out
    BY SkipsAre
  <2> HIDE DEF n
  <2> QED
    BY <1>4, <1>5, <2>1
<1> HIDE DEF n
<1>7. ASSUME Len(r.outs) >= n
      PROVE  r.outs[n] \in DOMAIN CurrentOuts /\ ~Skips(CurrentOuts[r.outs[n]])
  <2>1. n \in 1 .. Len(r.outs) /\ n + 1 \in 1 .. Len(r.outs) + 1
    BY <1>1, <1>2, <1>7
  <2>2. r.outs[n] \in DOMAIN CurrentOuts /\ CurrentOuts[r.outs[n]] = r.blocks[n + 1]
    BY <1>1, <1>4, <2>1 DEF IsRoute
  <2>3. r.blocks[n + 1] # EXIT
    <3>1. r.blocks[n + 1] \in AllBlocks
      BY <1>1, <2>1
    <3> QED
      BY <3>1, AnalysisType DEF AllBlocks, EXIT
  <2>4. ASSUME NEW k \in 1 .. n - 1, r.blocks[k] = r.blocks[n], r.blocks[k + 1] = r.blocks[n + 1]
        PROVE  FALSE
    <3>1. k \in 1 .. Len(r.outs) /\ k # n
      BY <1>2, <2>1
    <3> QED
      BY <1>1, <2>1, <2>4, <3>1 DEF IsRoute
  <2> QED
    BY <1>6, <2>2, <2>3, <2>4
<1>8. ASSUME Len(r.outs) < n
      PROVE  \A i \in DOMAIN CurrentOuts : Skips(CurrentOuts[i])
  <2>1. Len(r.outs) + 1 = n /\ Len(r.outs) = n - 1
    BY <1>1, <1>2, <1>8 DEF Agrees, n
  <2> TAKE i \in DOMAIN CurrentOuts
  <2>2. i \notin GoesOn(r)
    BY <1>1
  <2>3. CurrentOuts[i] = EXIT \/ \E k \in 1 .. n - 1 : r.blocks[k] = r.blocks[n]
                                                       /\ r.blocks[k + 1] = CurrentOuts[i]
    BY <1>1, <1>4, <2>1, <2>2, GoesOnTo
  <2> QED
    BY <1>6, <2>3
<1> QED
  BY <1>7, <1>8 DEF n

\* Being ahead of a call depends on the calls up to it.
LEMMA AgreesSame ==
  ASSUME NEW r, NEW cs, NEW ds, NEW d, ds[1].block = cs[1].block,
         \A k \in 1 .. d - 1 : ds[k].i = cs[k].i
  PROVE  Agrees(r, ds, d) <=> Agrees(r, cs, d)
BY DEF Agrees

LEMMA AheadOfSame ==
  ASSUME NEW r, NEW cs, NEW ds, NEW d \in Nat \ {0}, ds[1].block = cs[1].block,
         \A k \in 1 .. d : ds[k].i = cs[k].i, d # Len(cs), d # Len(ds)
  PROVE  AheadOf(r, ds, d) <=> AheadOf(r, cs, d)
<1>1. Agrees(r, ds, d) <=> Agrees(r, cs, d)
  BY AgreesSame
<1>2. ds[d].i = cs[d].i
  OBVIOUS
<1> QED
  BY <1>1, <1>2 DEF AheadOf

\* The calls after the current one has gone on.
LEMMA AheadOfMovedOn ==
  ASSUME TypeOK, IsAnalysis, RouteInv, IndexInv, calls # <<>>, NEW f \in BOOLEAN, NEW r
  PROVE  LET n == Len(calls)
             cs == MovedOn(f)
         IN  /\ Len(cs) = n /\ cs[1].block = calls[1].block
             /\ cs[n].i = Current.i + 1 /\ cs[n].found = f
             /\ \A k \in 1 .. n - 1 : cs[k] = calls[k]
             /\ \A d \in 1 .. n - 1 : AheadOf(r, cs, d) <=> AheadOf(r, calls, d)
             /\ AheadOf(r, cs, n) <=>
                  /\ Agrees(r, calls, n)
                  /\ IF Len(r.outs) >= n THEN r.outs[n] >= Current.i + 1 ELSE ~f
<1> DEFINE n == Len(calls)
           cs == MovedOn(f)
<1>1. n \in Nat \ {0} /\ calls \in Seq(Calls) /\ DOMAIN calls = 1 .. n
  BY CallsAreRoute DEF TypeOK
<1>2. /\ Len(cs) = n /\ cs[n].i = Current.i + 1 /\ cs[n].found = f /\ cs[n].block = Current.block
      /\ \A k \in 1 .. n - 1 : cs[k] = calls[k]
  BY <1>1 DEF MovedOn, Onto, Current
<1>3. cs[1].block = calls[1].block
  <2>1. CASE n = 1
    BY <1>2, <2>1 DEF Current
  <2>2. CASE n # 1
    <3>1. 1 \in 1 .. n - 1
      BY <1>1, <2>2
    <3> QED
      BY <1>2, <3>1
  <2> QED
    BY <2>1, <2>2
<1> HIDE DEF n, cs
<1>4. ASSUME NEW d \in 1 .. n - 1
      PROVE  AheadOf(r, cs, d) <=> AheadOf(r, calls, d)
  <2>1. /\ d \in Nat \ {0} /\ d # n /\ \A k \in 1 .. d : k \in 1 .. n - 1
    BY <1>1
  <2>2. \A k \in 1 .. d : cs[k].i = calls[k].i
    BY <1>2, <2>1
  <2>3. d # Len(cs) /\ d # Len(calls)
    BY <1>2, <2>1 DEF n
  <2> QED
    BY <1>3, <2>1, <2>2, <2>3, AheadOfSame
<1>5. Agrees(r, cs, n) <=> Agrees(r, calls, n)
  BY <1>2, <1>3, AgreesSame
<1>6. AheadOf(r, cs, n) <=> /\ Agrees(r, calls, n)
                            /\ IF Len(r.outs) >= n THEN r.outs[n] >= Current.i + 1 ELSE ~f
  BY <1>2, <1>5 DEF AheadOf
<1> QED
  BY <1>2, <1>3, <1>4, <1>6 DEF n, cs

\* Nothing is lost when an out is passed over...
LEMMA AheadSkipped ==
  ASSUME TypeOK, IsAnalysis, RouteInv, IndexInv, calls # <<>>, Current.i \in DOMAIN CurrentOuts,
         Skips(CurrentOuts[Current.i])
  PROVE  Ahead(MovedOn(Current.found), entry) = Ahead(calls, entry)
<1> DEFINE n == Len(calls)
           cs == MovedOn(Current.found)
<1>1. n \in Nat \ {0} /\ Current \in Calls /\ Current.i \in Nat
  BY CallsAreRoute DEF Current, Calls
<1>2. \A r : /\ Len(cs) = n
             /\ \A d \in 1 .. n - 1 : AheadOf(r, cs, d) <=> AheadOf(r, calls, d)
             /\ AheadOf(r, cs, n) <=>
                  /\ Agrees(r, calls, n)
                  /\ IF Len(r.outs) >= n THEN r.outs[n] >= Current.i + 1 ELSE ~Current.found
  BY <1>1, AheadOfMovedOn DEF Calls
<1>3. \A r : AheadOf(r, calls, n) <=>
               /\ Agrees(r, calls, n)
               /\ IF Len(r.outs) >= n THEN r.outs[n] >= Current.i ELSE ~Current.found
  BY DEF AheadOf, Current
<1>4. ASSUME NEW r \in Routes, Agrees(r, calls, n), Len(r.outs) >= n
      PROVE  r.outs[n] >= Current.i + 1 <=> r.outs[n] >= Current.i
  <2>1. r.outs[n] # Current.i
    BY <1>4, AtCurrent
  <2>2. r.outs[n] \in Nat
    <3>1. Len(r.outs) \in Nat /\ \A k \in 1 .. Len(r.outs) : r.outs[k] \in Nat
      BY RouteIn
    <3>2. n \in 1 .. Len(r.outs)
      BY <1>1, <1>4, <3>1
    <3> QED
      BY <3>1, <3>2
  <2> QED
    BY <1>1, <2>1, <2>2
<1> HIDE DEF n, cs
<1>5. \A r \in Routes : \A d \in 1 .. n : AheadOf(r, cs, d) <=> AheadOf(r, calls, d)
  <2> TAKE r \in Routes
  <2>1. AheadOf(r, cs, n) <=> AheadOf(r, calls, n)
    BY <1>2, <1>3, <1>4
  <2> TAKE d \in 1 .. n
  <2>2. d = n \/ d \in 1 .. n - 1
    BY <1>1
  <2> QED
    BY <1>2, <2>1, <2>2
<1>6. Len(cs) = Len(calls) /\ Len(calls) = n
  BY <1>2 DEF n
<1>7. Ahead(cs, entry) = Ahead(calls, entry)
  BY <1>5, <1>6 DEF Ahead
<1> QED
  BY <1>7 DEF cs

\* ... nor when one is followed: a call for it takes over, ...
LEMMA AheadFollowed ==
  ASSUME TypeOK, IsAnalysis, RouteInv, IndexInv, calls # <<>>, Current.i \in DOMAIN CurrentOuts,
         ~Skips(CurrentOuts[Current.i]), NEW b
  PROVE  Ahead(Append(MovedOn(TRUE), [block |-> b, i |-> 1, found |-> FALSE]), entry)
           = Ahead(calls, entry)
<1> DEFINE n == Len(calls)
           ms == MovedOn(TRUE)
           c == [block |-> b, i |-> 1, found |-> FALSE]
           cs == Append(ms, c)
<1>1. n \in Nat \ {0} /\ Current \in Calls /\ Current.i \in Nat
  BY CallsAreRoute DEF Current, Calls
<1>2. \A r : /\ Len(ms) = n /\ ms[1].block = calls[1].block /\ ms[n].i = Current.i + 1
             /\ \A k \in 1 .. n - 1 : ms[k] = calls[k]
             /\ \A d \in 1 .. n - 1 : AheadOf(r, ms, d) <=> AheadOf(r, calls, d)
             /\ AheadOf(r, ms, n) <=>
                  Agrees(r, calls, n) /\ IF Len(r.outs) >= n THEN r.outs[n] >= Current.i + 1 ELSE FALSE
  BY AheadOfMovedOn
<1>3. /\ Len(cs) = n + 1 /\ cs[n + 1] = c /\ \A k \in 1 .. n : cs[k] = ms[k]
  <2>1. ms \in Seq(Calls)
    BY MovedOnType DEF TypeOK
  <2> HIDE DEF ms, c, n
  <2> QED
    BY <1>2, <2>1, AfterBegun
<1>4. c.i = 1 /\ c.found = FALSE
  OBVIOUS
<1> HIDE DEF n, ms, c, cs
<1>5. 1 \in 1 .. n /\ n \in 1 .. n /\ n + 1 \in 1 .. n + 1 /\ \A d \in 1 .. n - 1 : d \in 1 .. n
  BY <1>1
<1>6. cs[1].block = ms[1].block /\ cs[n].i = Current.i + 1
  BY <1>2, <1>3, <1>5
<1>7. ASSUME NEW r, NEW d \in 1 .. n - 1
      PROVE  AheadOf(r, cs, d) <=> AheadOf(r, calls, d)
  <2>1. d \in Nat \ {0} /\ d # n + 1 /\ d # n /\ \A k \in 1 .. d : k \in 1 .. n
    BY <1>1
  <2>2. \A k \in 1 .. d : cs[k].i = ms[k].i
    BY <1>3, <2>1
  <2>3. AheadOf(r, cs, d) <=> AheadOf(r, ms, d)
    BY <1>2, <1>3, <1>6, <2>1, <2>2, AheadOfSame
  <2> QED
    BY <1>2, <2>3
<1>8. ASSUME NEW r
      PROVE  Agrees(r, cs, n) <=> Agrees(r, calls, n)
  <2>1. \A k \in 1 .. n - 1 : cs[k].i = calls[k].i
    BY <1>2, <1>3, <1>5
  <2> QED
    BY <1>2, <1>6, <2>1, AgreesSame
<1>9. ASSUME NEW r \in Routes
      PROVE  AheadOf(r, cs, n) \/ AheadOf(r, cs, n + 1) <=> AheadOf(r, calls, n)
  <2>1. Len(r.outs) \in Nat /\ \A k \in 1 .. Len(r.outs) : r.outs[k] \in Nat
    BY RouteIn
  <2>2. Agrees(r, calls, n) => Len(r.outs) >= n
    BY AtCurrent, <2>1, <1>1 DEF n
  <2>3. Len(r.outs) >= n => r.outs[n] \in Nat
    <3>1. Len(r.outs) >= n => n \in 1 .. Len(r.outs)
      BY <1>1, <2>1
    <3> QED
      BY <2>1, <3>1
  <2>4. AheadOf(r, calls, n) <=> Agrees(r, calls, n) /\ r.outs[n] >= Current.i
    BY <2>2 DEF AheadOf, Current, n
  <2>5. AheadOf(r, cs, n) <=> Agrees(r, calls, n) /\ r.outs[n] >= Current.i + 1
    <3>1. n # n + 1
      BY <1>1
    <3> QED
      BY <1>3, <1>6, <1>8, <2>2, <3>1 DEF AheadOf
  <2>6. Agrees(r, cs, n + 1) <=> Agrees(r, calls, n) /\ r.outs[n] = Current.i
    <3>1. /\ n + 1 - 1 = n /\ \A k \in 1 .. n : k = n \/ k \in 1 .. n - 1
      BY <1>1
    <3>2. Agrees(r, cs, n + 1) <=> /\ r.blocks[1] = cs[1].block /\ Len(r.outs) >= n
                                   /\ \A k \in 1 .. n : r.outs[k] = cs[k].i - 1
      <4>1. PICK p \in Nat : p = n + 1 /\ p - 1 = n
        BY <1>1
      <4>2. Agrees(r, cs, p) <=> /\ r.blocks[1] = cs[1].block /\ Len(r.outs) >= n
                                 /\ \A k \in 1 .. n : r.outs[k] = cs[k].i - 1
        BY <4>1 DEF Agrees
      <4> QED
        BY <4>1, <4>2
    <3>3. (\A k \in 1 .. n : r.outs[k] = cs[k].i - 1) <=>
            /\ \A k \in 1 .. n - 1 : r.outs[k] = cs[k].i - 1
            /\ r.outs[n] = cs[n].i - 1
      BY <1>5, <3>1
    <3>4. cs[n].i - 1 = Current.i
      BY <1>1, <1>6
    <3>5. Agrees(r, cs, n) <=> /\ r.blocks[1] = cs[1].block /\ Len(r.outs) >= n - 1
                               /\ \A k \in 1 .. n - 1 : r.outs[k] = cs[k].i - 1
      BY DEF Agrees
    <3>6. Len(r.outs) >= n => Len(r.outs) >= n - 1
      BY <1>1, <2>1
    <3> QED
      BY <1>8, <2>2, <3>2, <3>3, <3>4, <3>5, <3>6
  <2>7. AheadOf(r, cs, n + 1) <=> Agrees(r, calls, n) /\ r.outs[n] = Current.i
    <3>1. Len(r.outs) >= n + 1 => r.outs[n + 1] >= 1
      <4>1. ASSUME Len(r.outs) >= n + 1
            PROVE  r.outs[n + 1] >= 1
        <5>1. n + 1 \in 1 .. Len(r.outs)
          BY <1>1, <2>1, <4>1
        <5>2. r.outs[n + 1] \in DOMAIN a.outs[r.blocks[n + 1]] /\ r.blocks[n + 1] \in AllBlocks
          <6>1. IsRoute(r) /\ \A k \in 1 .. Len(r.outs) + 1 : r.blocks[k] \in AllBlocks
            BY RouteIn
          <6>2. n + 1 \in 1 .. Len(r.outs) + 1
            BY <2>1, <5>1
          <6> QED
            BY <5>1, <6>1, <6>2 DEF IsRoute
        <5>3. r.outs[n + 1] \in Nat \ {0}
          BY <5>2, OutIsBlock
        <5> QED
          BY <5>3
      <4> QED
        BY <4>1
    <3>2. AheadOf(r, cs, n + 1) <=> Agrees(r, cs, n + 1)
      BY <1>3, <1>4, <3>1 DEF AheadOf
    <3> QED
      BY <2>6, <3>2
  <2>8. Agrees(r, calls, n) => r.outs[n] \in Nat
    BY <2>2, <2>3
  <2> HIDE DEF n
  <2> QED
    BY <1>1, <2>4, <2>5, <2>7, <2>8
<1>10. ASSUME NEW r \in Routes
       PROVE  (\E d \in 1 .. n + 1 : AheadOf(r, cs, d)) <=> \E d \in 1 .. n : AheadOf(r, calls, d)
  <2>1. /\ \A d \in 1 .. n + 1 : d = n + 1 \/ d = n \/ d \in 1 .. n - 1
        /\ \A d \in 1 .. n : d = n \/ d \in 1 .. n - 1
        /\ \A d \in 1 .. n : d \in 1 .. n + 1
    BY <1>1
  <2> QED
    BY <1>5, <1>7, <1>9, <2>1
<1>11. Ahead(cs, entry) = Ahead(calls, entry)
  BY <1>3, <1>10 DEF Ahead, n
<1> QED
  BY <1>11 DEF cs, ms, c

\* ... or the depth cuts it off, which it does only where no route goes on.
LEMMA AheadCutOff ==
  ASSUME TypeOK, IsAnalysis, RouteInv, IndexInv, calls # <<>>, Current.i \in DOMAIN CurrentOuts,
         ~Skips(CurrentOuts[Current.i]), TooDeep(Len(calls))
  PROVE  Ahead(MovedOn(TRUE), entry) = Ahead(calls, entry)
<1> DEFINE n == Len(calls)
           cs == MovedOn(TRUE)
<1>1. n \in Nat \ {0} /\ n >= a.num_blocks + 1 /\ a.num_blocks \in Nat
  BY CallsAreRoute, AnalysisType DEF TooDeep
<1>2. \A r : /\ Len(cs) = n
             /\ \A d \in 1 .. n - 1 : AheadOf(r, cs, d) <=> AheadOf(r, calls, d)
             /\ AheadOf(r, cs, n) <=>
                  Agrees(r, calls, n) /\ IF Len(r.outs) >= n THEN r.outs[n] >= Current.i + 1 ELSE FALSE
  BY AheadOfMovedOn
<1>3. ASSUME NEW r \in Routes
      PROVE  ~Agrees(r, calls, n)
  <2>1. Len(r.outs) \in Nat /\ Len(r.outs) <= a.num_blocks
    BY RouteIn
  <2>2. Len(r.outs) < n
    BY <1>1, <2>1
  <2> QED
    BY <2>2, AtCurrent
<1> HIDE DEF n, cs
<1>4. \A r \in Routes : \A d \in 1 .. n : AheadOf(r, cs, d) <=> AheadOf(r, calls, d)
  <2> TAKE r \in Routes
  <2>1. ~AheadOf(r, cs, n) /\ ~AheadOf(r, calls, n)
    BY <1>2, <1>3 DEF AheadOf
  <2> TAKE d \in 1 .. n
  <2>2. d = n \/ d \in 1 .. n - 1
    BY <1>1
  <2> QED
    BY <1>2, <2>1, <2>2
<1>5. Len(cs) = Len(calls) /\ Len(calls) = n
  BY <1>2 DEF n
<1>6. Ahead(cs, entry) = Ahead(calls, entry)
  BY <1>4, <1>5 DEF Ahead
<1> QED
  BY <1>6 DEF cs

\* The calls after the current one has returned.
Ended == SubSeq(calls, 1, Len(calls) - 1)

LEMMA AheadOfEnded ==
  ASSUME TypeOK, IsAnalysis, Shape, RouteInv, IndexInv, CapInv, calls # <<>>, NEW r
  PROVE  /\ Len(Ended) = Len(calls) - 1
         /\ \A d \in 1 .. Len(calls) - 1 : AheadOf(r, Ended, d) <=> AheadOf(r, calls, d)
<1> DEFINE n == Len(calls)
<1>1. n \in Nat \ {0} /\ calls \in Seq(Calls)
  BY CallsAreRoute DEF TypeOK
<1>2. Len(Ended) = n - 1 /\ \A k \in 1 .. n - 1 : Ended[k] = calls[k]
  BY AfterEnded DEF Ended
<1>3. \A k \in 1 .. n - 1 : calls[k].found
  BY DEF CapInv
<1> HIDE DEF n
<1>4. ASSUME NEW d \in 1 .. n - 1
      PROVE  AheadOf(r, Ended, d) <=> AheadOf(r, calls, d)
  <2>1. 1 \in 1 .. n - 1 /\ \A k \in 1 .. d - 1 : k \in 1 .. n - 1
    BY <1>1
  <2>2. Agrees(r, Ended, d) <=> Agrees(r, calls, d)
    <3>1. Ended[1].block = calls[1].block /\ \A k \in 1 .. d - 1 : Ended[k].i = calls[k].i
      BY <1>2, <2>1
    <3> QED
      BY <3>1, AgreesSame
  <2>3. Ended[d].i = calls[d].i /\ Ended[d].found /\ calls[d].found
    BY <1>2, <1>3
  <2> QED
    BY <2>2, <2>3 DEF AheadOf
<1> QED
  BY <1>2, <1>4 DEF n

\* A call that has followed an out leaves nothing behind.
LEMMA AheadReturned ==
  ASSUME TypeOK, IsAnalysis, Shape, RouteInv, IndexInv, CapInv, calls # <<>>,
         Current.i \notin DOMAIN CurrentOuts, Current.found
  PROVE  Ahead(Ended, entry) = Ahead(calls, entry)
<1> DEFINE n == Len(calls)
<1>1. n \in Nat \ {0} /\ Current \in Calls /\ Current.i \in Nat \ {0}
  BY CallsAreRoute DEF Current, Calls
<1>2. \A r : /\ Len(Ended) = n - 1
             /\ \A d \in 1 .. n - 1 : AheadOf(r, Ended, d) <=> AheadOf(r, calls, d)
  BY AheadOfEnded
<1>3. ASSUME NEW r \in Routes
      PROVE  ~AheadOf(r, calls, n)
  <2> SUFFICES ASSUME AheadOf(r, calls, n) PROVE FALSE
    OBVIOUS
  <2>1. Agrees(r, calls, n) /\ Len(r.outs) >= n /\ r.outs[n] >= Current.i
    BY DEF AheadOf, Current
  <2>2. r.outs[n] \in DOMAIN CurrentOuts
    BY <2>1, AtCurrent
  <2>3. PICK m \in 0 .. MaxOuts : DOMAIN CurrentOuts = 1 .. m
    BY <1>1, AnalysisType DEF Calls, CurrentOuts
  <2>4. Current.i \in 1 .. m
    BY <1>1, <2>1, <2>2, <2>3
  <2> QED
    BY <2>3, <2>4
<1>4. n = Len(calls)
  OBVIOUS
<1> HIDE DEF n
<1>5. \A r \in Routes : (\E d \in 1 .. n : AheadOf(r, calls, d)) <=>
                          \E d \in 1 .. n - 1 : AheadOf(r, Ended, d)
  <2>1. /\ \A d \in 1 .. n : d = n \/ d \in 1 .. n - 1
        /\ \A d \in 1 .. n - 1 : d \in 1 .. n
    BY <1>1
  <2> QED
    BY <1>2, <1>3, <2>1
<1> QED
  BY <1>2, <1>4, <1>5 DEF Ahead

\* The route of the calls.
CurrentRoute ==
  [blocks |-> [k \in 1 .. Len(calls) |-> calls[k].block],
   outs |-> [k \in 1 .. Len(calls) - 1 |-> calls[k].i - 1]]

LEMMA CurrentRouteIs ==
  ASSUME TypeOK, IsAnalysis, RouteInv, IndexInv, FoundInv, calls # <<>>
  PROVE  /\ CurrentRoute \in RouteSet /\ IsRoute(CurrentRoute)
         /\ Len(CurrentRoute.outs) = Len(calls) - 1 /\ Len(CurrentRoute.blocks) = Len(calls)
         /\ \A k \in 1 .. Len(calls) : CurrentRoute.blocks[k] = calls[k].block
         /\ \A k \in 1 .. Len(calls) - 1 : CurrentRoute.outs[k] = calls[k].i - 1
<1> DEFINE n == Len(calls)
           r == CurrentRoute
<1>1. /\ n \in Nat \ {0}
      /\ \A k \in 1 .. n : calls[k] \in Calls
      /\ \A k \in 1 .. n - 1 : /\ calls[k].i - 1 \in DOMAIN a.outs[calls[k].block]
                               /\ a.outs[calls[k].block][calls[k].i - 1] = calls[k + 1].block
      /\ \A j, k \in 1 .. n - 1 :
           calls[j].block = calls[k].block /\ calls[j + 1].block = calls[k + 1].block => j = k
  BY CallsAreRoute
<1>2. PICK m \in Nat : n = m + 1 /\ n - 1 = m
  <2>1. n - 1 \in Nat /\ n = (n - 1) + 1
    BY <1>1
  <2> QED
    BY <2>1
<1>3. r.blocks = [k \in 1 .. n |-> calls[k].block] /\ r.outs = [k \in 1 .. m |-> calls[k].i - 1]
      /\ r = [blocks |-> r.blocks, outs |-> r.outs]
  BY <1>2 DEF CurrentRoute
<1>4. a.is_entry[calls[1].block]
  BY DEF FoundInv
<1> HIDE DEF n, r
<1>5. \A k \in 1 .. n : calls[k].block \in AllBlocks
  BY <1>1 DEF Calls
<1>6. \A k \in 1 .. m : calls[k].i - 1 \in Nat
  <2>1. \A k \in 1 .. m : k \in 1 .. n
    BY <1>2
  <2> QED
    BY <1>1, <2>1 DEF Calls
<1>7. r.blocks \in Seq(AllBlocks) /\ Len(r.blocks) = n /\ \A k \in 1 .. n : r.blocks[k] = calls[k].block
  BY <1>1, <1>3, <1>5
<1>8. r.outs \in Seq(Nat) /\ Len(r.outs) = m /\ \A k \in 1 .. m : r.outs[k] = calls[k].i - 1
  BY <1>2, <1>3, <1>6
<1>9. r \in RouteSet
  <2>1. [blocks |-> r.blocks, outs |-> r.outs] \in RouteSet
    BY <1>7, <1>8 DEF RouteSet
  <2> QED
    BY <1>3, <2>1
<1>10. 1 \in 1 .. n /\ \A k \in 1 .. m : k \in 1 .. n /\ k + 1 \in 1 .. n
  BY <1>1, <1>2
<1>11. \A k \in 1 .. m : r.blocks[k] = calls[k].block /\ r.blocks[k + 1] = calls[k + 1].block
  BY <1>7, <1>10
<1>12. IsRoute(r)
  <2>1. a.is_entry[r.blocks[1]] /\ Len(r.blocks) = Len(r.outs) + 1
    BY <1>2, <1>4, <1>7, <1>8, <1>10
  <2>2. \A k \in 1 .. m : r.outs[k] \in DOMAIN a.outs[r.blocks[k]]
                          /\ a.outs[r.blocks[k]][r.outs[k]] = r.blocks[k + 1]
    <3> TAKE k \in 1 .. m
    <3>1. r.outs[k] = calls[k].i - 1 /\ r.blocks[k] = calls[k].block
          /\ r.blocks[k + 1] = calls[k + 1].block
      BY <1>8, <1>11
    <3>2. calls[k].i - 1 \in DOMAIN a.outs[calls[k].block]
          /\ a.outs[calls[k].block][calls[k].i - 1] = calls[k + 1].block
      BY <1>1, <1>2
    <3> QED
      BY <3>1, <3>2
  <2>3. \A j, k \in 1 .. m : r.blocks[j] = r.blocks[k] /\ r.blocks[j + 1] = r.blocks[k + 1] => j = k
    BY <1>1, <1>2, <1>11
  <2> QED
    BY <1>8, <2>1, <2>2, <2>3 DEF IsRoute
<1> QED
  BY <1>2, <1>7, <1>8, <1>9, <1>12 DEF n, r

\* A call that has passed over all outs ends a route, the one it emits.
LEMMA CurrentIsLeaf ==
  ASSUME TypeOK, IsAnalysis, RouteInv, IndexInv, FoundInv, calls # <<>>,
         Current.i \notin DOMAIN CurrentOuts, ~Current.found
  PROVE  CurrentRoute \in Routes
<1> DEFINE n == Len(calls)
           r == CurrentRoute
<1>1. /\ n \in Nat \ {0} /\ n <= a.num_blocks + 1 /\ a.num_blocks \in Nat
      /\ Current \in Calls /\ Current.i \in Nat \ {0}
  BY CallsAreRoute, AnalysisType DEF Current, Calls
<1>2. /\ r \in RouteSet /\ IsRoute(r) /\ Len(r.outs) = n - 1
      /\ \A k \in 1 .. n : r.blocks[k] = calls[k].block
  BY CurrentRouteIs
<1>3. Len(r.outs) <= a.num_blocks /\ Len(r.outs) + 1 = n /\ n \in 1 .. n
      /\ \A k \in 1 .. n - 1 : k \in 1 .. n /\ k + 1 \in 1 .. n
  BY <1>1, <1>2
<1>4. r.blocks[n] = Current.block /\ CurrentOuts = a.outs[r.blocks[n]]
  BY <1>2, <1>3 DEF Current, CurrentOuts
<1>5. PICK m \in 0 .. MaxOuts : DOMAIN CurrentOuts = 1 .. m
  BY <1>1, AnalysisType DEF Calls, CurrentOuts
<1>6. ASSUME NEW j \in DOMAIN CurrentOuts
      PROVE  Skips(CurrentOuts[j])
  <2>1. j < Current.i
    BY <1>1, <1>5, MaxOutsAssumption
  <2> QED
    BY <2>1 DEF FoundInv
<1>7. \A out : Skips(out) => out = EXIT \/ \E k \in 1 .. n - 1 :
                               r.blocks[k] = r.blocks[n] /\ r.blocks[k + 1] = out
  <2> TAKE out
  <2>1. Skips(out) <=> out = EXIT \/ \E k \in 1 .. n - 1 : calls[k].block = Current.block
                                                           /\ calls[k + 1].block = out
    BY SkipsAre
  <2> HIDE DEF n, r
  <2>2. \A k \in 1 .. n - 1 : calls[k].block = r.blocks[k] /\ calls[k + 1].block = r.blocks[k + 1]
    BY <1>2, <1>3
  <2> QED
    BY <1>4, <2>1, <2>2
<1> HIDE DEF n, r
<1>8. GoesOn(r) = {}
  <2>1. ASSUME NEW i \in GoesOn(r)
        PROVE  FALSE
    <3>1. /\ i \in DOMAIN CurrentOuts /\ CurrentOuts[i] # EXIT
          /\ \A k \in 1 .. n - 1 : ~(r.blocks[k] = r.blocks[n] /\ r.blocks[k + 1] = CurrentOuts[i])
      BY <1>2, <1>3, <1>4, GoesOnTo
    <3> QED
      BY <1>6, <1>7, <3>1
  <2> QED
    BY <2>1
<1>9. r \in Routes
  BY <1>2, <1>3, <1>8, RoutesAre
<1> QED
  BY <1>9 DEF r

\* It is the one route that is no longer ahead when the call returns.
LEMMA AheadEmitted ==
  ASSUME TypeOK, IsAnalysis, Shape, RouteInv, IndexInv, CapInv, FoundInv, calls # <<>>,
         Current.i \notin DOMAIN CurrentOuts, ~Current.found
  PROVE  /\ Ahead(calls, entry) = Ahead(Ended, entry) \cup {CurrentRoute}
         /\ CurrentRoute \notin Ahead(Ended, entry)
<1> DEFINE n == Len(calls)
           c == CurrentRoute
<1>1. /\ n \in Nat \ {0} /\ Current \in Calls /\ Current.i \in Nat \ {0}
      /\ \A k \in 1 .. n : calls[k] \in Calls
      /\ calls[1].block < entry /\ entry \in Nat
  BY CallsAreRoute DEF Current, Calls
<1>2. \A r : /\ Len(Ended) = n - 1
             /\ \A d \in 1 .. n - 1 : AheadOf(r, Ended, d) <=> AheadOf(r, calls, d)
  BY AheadOfEnded
<1>3. c \in Routes
  BY CurrentIsLeaf
<1>4. /\ Len(c.outs) = n - 1 /\ Len(c.blocks) = n
      /\ \A k \in 1 .. n : c.blocks[k] = calls[k].block
      /\ \A k \in 1 .. n - 1 : c.outs[k] = calls[k].i - 1
      /\ c \in RouteSet
  BY CurrentRouteIs
<1> HIDE DEF c
<1>5. 1 \in 1 .. n /\ \A d \in 1 .. n - 1 : d \in 1 .. n /\ \A k \in 1 .. d - 1 : k \in 1 .. n - 1
  BY <1>1
<1>6. AheadOf(c, calls, n)
  <2>1. c.blocks[1] = calls[1].block /\ ~(n - 1 >= n) /\ n - 1 >= n - 1
    BY <1>1, <1>4, <1>5
  <2>2. Agrees(c, calls, n)
    BY <1>4, <2>1 DEF Agrees
  <2> QED
    BY <1>4, <2>1, <2>2 DEF AheadOf, Current
<1>7. ASSUME NEW r \in Routes, AheadOf(r, calls, n)
      PROVE  r = c
  <2>1. Agrees(r, calls, n)
    BY <1>7 DEF AheadOf
  <2>2. PICK m \in 0 .. MaxOuts : DOMAIN CurrentOuts = 1 .. m
    BY <1>1, AnalysisType DEF Calls, CurrentOuts
  <2>3. ~(Len(r.outs) >= n)
    <3> SUFFICES ASSUME Len(r.outs) >= n PROVE FALSE
      OBVIOUS
    <3>1. r.outs[n] \in DOMAIN CurrentOuts
      BY <2>1, AtCurrent
    <3>2. r.outs[n] >= Current.i
      BY <1>7 DEF AheadOf, Current
    <3>3. Current.i \in 1 .. m
      BY <1>1, <2>2, <3>1, <3>2, MaxOutsAssumption
    <3> QED
      BY <2>2, <3>3
  <2>4. /\ r \in RouteSet /\ IsRoute(r) /\ Len(r.outs) \in Nat /\ Len(r.blocks) = Len(r.outs) + 1
        /\ r = [blocks |-> r.blocks, outs |-> r.outs]
        /\ r.blocks \in Seq(AllBlocks) /\ r.outs \in Seq(Nat)
    BY RouteIn, RouteShape
  <2>5. n \in 1 .. n
    BY <1>1
  <2>6. \A k \in 1 .. n : r.blocks[k] = calls[k].block
    BY <2>1, <2>4, <2>5, BlocksAgree
  <2> HIDE DEF n
  <2>7. Len(r.outs) = n - 1 /\ Len(r.blocks) = n
    BY <1>1, <2>1, <2>3, <2>4 DEF Agrees
  <2>8. r.blocks = c.blocks
    <3>1. c.blocks \in Seq(AllBlocks)
      BY <1>4 DEF RouteSet
    <3>2. Len(r.blocks) = Len(c.blocks) /\ \A k \in 1 .. Len(r.blocks) : r.blocks[k] = c.blocks[k]
      BY <1>4, <2>6, <2>7
    <3> QED
      BY <2>4, <3>1, <3>2, SeqEqual
  <2>9. r.outs = c.outs
    <3>1. c.outs \in Seq(Nat)
      BY <1>4 DEF RouteSet
    <3>2. Len(r.outs) = Len(c.outs) /\ \A k \in 1 .. Len(r.outs) : r.outs[k] = c.outs[k]
      BY <1>4, <2>1, <2>7 DEF Agrees
    <3> QED
      BY <2>4, <3>1, <3>2, SeqEqual
  <2>10. c = [blocks |-> c.blocks, outs |-> c.outs]
    BY <1>4 DEF RouteSet
  <2> QED
    BY <2>4, <2>8, <2>9, <2>10
<1>8. ~(c.blocks[1] >= entry)
  <2>1. c.blocks[1] = calls[1].block /\ calls[1].block \in AllBlocks
    BY <1>1, <1>4, <1>5 DEF Calls
  <2>2. a.num_blocks \in Nat
    BY AnalysisType
  <2> QED
    BY <1>1, <2>1, <2>2 DEF AllBlocks
<1>9. ASSUME NEW d \in 1 .. n - 1
      PROVE  ~AheadOf(c, calls, d)
  <2>1. c.outs[d] = calls[d].i - 1 /\ n - 1 >= d /\ calls[d].i \in Nat
    BY <1>1, <1>4, <1>5 DEF Calls
  <2>2. ~(c.outs[d] >= calls[d].i)
    BY <2>1
  <2> QED
    BY <1>4, <2>1, <2>2 DEF AheadOf
<1>10. n = Len(calls)
  OBVIOUS
<1> HIDE DEF n
<1>11. c \notin Ahead(Ended, entry)
  BY <1>2, <1>8, <1>9 DEF Ahead
<1>12. \A d \in 1 .. n : d = n \/ d \in 1 .. n - 1
  BY <1>1
<1>13. n \in 1 .. n /\ \A d \in 1 .. n - 1 : d \in 1 .. n
  BY <1>1
<1>14. ASSUME NEW r
       PROVE  r \in Ahead(calls, entry) <=> r \in Ahead(Ended, entry) \cup {c}
  <2>1. CASE r = c
    BY <1>3, <1>6, <1>10, <1>13, <2>1 DEF Ahead
  <2>2. CASE r # c
    <3>1. r \in Routes => ((\E d \in 1 .. n : AheadOf(r, calls, d)) <=>
                             \E d \in 1 .. n - 1 : AheadOf(r, Ended, d))
      BY <1>2, <1>7, <1>12, <1>13, <2>2
    <3> QED
      BY <1>2, <1>10, <2>2, <3>1 DEF Ahead
  <2> QED
    BY <2>1, <2>2
<1>15. Ahead(calls, entry) = Ahead(Ended, entry) \cup {c}
  BY <1>14
<1> QED
  BY <1>11, <1>15 DEF c

\* At an entry the call for it takes over; where there is none no route begins.
LEMMA AheadEntered ==
  ASSUME TypeOK, IsAnalysis, calls = <<>>, entry < a.num_blocks
  PROVE  /\ a.is_entry[entry] =>
              Ahead(<<[block |-> entry, i |-> 1, found |-> FALSE]>>, entry + 1) = Ahead(calls, entry)
         /\ ~a.is_entry[entry] => Ahead(calls, entry + 1) = Ahead(calls, entry)
<1>1. entry \in Nat /\ a.num_blocks \in Nat
  BY AnalysisType DEF TypeOK
<1>2. ASSUME NEW r \in Routes
      PROVE  /\ a.is_entry[r.blocks[1]]
             /\ r.blocks[1] >= entry <=> r.blocks[1] >= entry + 1 \/ r.blocks[1] = entry
  <2>1. r.blocks[1] \in AllBlocks /\ IsRoute(r)
    BY RouteIn
  <2> QED
    BY <1>1, <2>1 DEF AllBlocks, IsRoute
<1>3. (1 .. Len(calls)) = {}
  BY EmptySeq
<1>4. Ahead(calls, entry) = {r \in Routes : r.blocks[1] >= entry}
  BY <1>3 DEF Ahead
<1>5. ASSUME ~a.is_entry[entry]
      PROVE  Ahead(calls, entry + 1) = Ahead(calls, entry)
  <2>1. Ahead(calls, entry + 1) = {r \in Routes : r.blocks[1] >= entry + 1}
    BY <1>3 DEF Ahead
  <2>2. \A r \in Routes : r.blocks[1] >= entry <=> r.blocks[1] >= entry + 1
    BY <1>2, <1>5
  <2> QED
    BY <1>4, <2>1, <2>2
<1> DEFINE cs == <<[block |-> entry, i |-> 1, found |-> FALSE]>>
<1>6. Len(cs) = 1 /\ cs[1].block = entry /\ cs[1].i = 1 /\ cs[1].found = FALSE
  OBVIOUS
<1> HIDE DEF cs
<1>7. ASSUME NEW r \in Routes
      PROVE  AheadOf(r, cs, 1) <=> r.blocks[1] = entry
  <2>1. /\ IsRoute(r) /\ Len(r.outs) \in Nat
        /\ \A k \in 1 .. Len(r.outs) + 1 : r.blocks[k] \in AllBlocks
    BY RouteIn
  <2>2. Agrees(r, cs, 1) <=> r.blocks[1] = entry
    BY <1>6, <2>1 DEF Agrees
  <2>3. Len(r.outs) >= 1 => r.outs[1] >= 1
    <3>1. ASSUME Len(r.outs) >= 1
          PROVE  r.outs[1] >= 1
      <4>1. 1 \in 1 .. Len(r.outs) /\ 1 \in 1 .. Len(r.outs) + 1
        BY <2>1, <3>1
      <4>2. r.outs[1] \in DOMAIN a.outs[r.blocks[1]] /\ r.blocks[1] \in AllBlocks
        BY <2>1, <4>1 DEF IsRoute
      <4>3. r.outs[1] \in Nat \ {0}
        BY <4>2, OutIsBlock
      <4> QED
        BY <4>3
    <3> QED
      BY <3>1
  <2> QED
    BY <1>6, <2>2, <2>3 DEF AheadOf
<1>8. Ahead(cs, entry + 1) = {r \in Routes : r.blocks[1] >= entry + 1 \/ AheadOf(r, cs, 1)}
  BY <1>6 DEF Ahead
<1>9. Ahead(cs, entry + 1) = Ahead(calls, entry)
  BY <1>2, <1>4, <1>7, <1>8
<1> QED
  BY <1>5, <1>9 DEF cs

\* outidx[] holds what the loop counters had when their outs were followed.
LEMMA IndexStep ==
  ASSUME TypeOK, IsAnalysis, Shape, RouteInv, IndexInv, [Next]_vars
  PROVE  IndexInv'
<1>1. Len(calls) \in Nat /\ calls \in Seq(Calls) /\ (calls # <<>> => Len(calls) # 0)
  BY EmptySeq DEF TypeOK
<1>2. CASE IniSet \/ StartCoverage \/ Execute \/ EndSearch \/ UNCHANGED vars
  <2>1. UNCHANGED search
    BY <1>2 DEF IniSet, StartCoverage, Execute, EndSearch, vars
  <2> QED
    BY <2>1 DEF IndexInv, search
<1>3. CASE Collect
  <2>1. calls' = <<>> /\ (0 .. Len(<<>>) - 2) = {}
    BY <1>3, EmptySeq DEF Collect
  <2> QED
    BY <2>1 DEF IndexInv
<1>4. CASE TryEntry
  <2>1. calls = <<>> /\ entry' = entry + 1 /\ entry \in Nat
    BY <1>4, AnalysisType DEF TryEntry, TypeOK
  <2>2. CASE calls' = <<>>
    <3>1. (0 .. Len(<<>>) - 2) = {}
      BY EmptySeq
    <3> QED
      BY <2>2, <3>1 DEF IndexInv
  <2>3. CASE calls' # <<>>
    <3> DEFINE r == [block |-> entry, i |-> 1, found |-> FALSE]
    <3>1. calls' = Append(<<>>, r)
      BY <1>4, <2>1, <2>3 DEF TryEntry, FindPaths
    <3>2. Len(calls') = 1 /\ calls'[1] = r
      <4>1. <<>> \in Seq({}) /\ Len(<<>>) = 0 /\ 0 + 1 = 1
        BY EmptySeq
      <4> HIDE DEF r
      <4> QED
        BY <3>1, <4>1, AfterBegun
    <3>3. (0 .. Len(calls') - 2) = {} /\ calls'[1].block < entry'
      BY <2>1, <3>2
    <3> QED
      BY <3>3 DEF IndexInv
  <2> QED
    BY <2>2, <2>3
<1>5. ASSUME calls # <<>>, NEW f
      PROVE  /\ Len(MovedOn(f)) = Len(calls) /\ MovedOn(f)[1].block = calls[1].block
             /\ \A k \in 1 .. Len(calls) - 1 : MovedOn(f)[k] = calls[k]
  <2>1. 1 \in 1 .. Len(calls)
    BY <1>1, <1>5
  <2> QED
    BY <1>5, <2>1, AfterMovedOn
<1>6. CASE SkipOut
  <2>1. calls # <<>> /\ calls' = MovedOn(Current.found) /\ UNCHANGED <<outidx, entry>>
    BY <1>6 DEF SkipOut, InCall
  <2>2. /\ Len(calls') = Len(calls) /\ calls'[1].block = calls[1].block
        /\ \A k \in 1 .. Len(calls) - 1 : calls'[k] = calls[k]
    BY <1>5, <2>1
  <2>3. \A d \in 0 .. Len(calls) - 2 : d + 1 \in 1 .. Len(calls) - 1
    BY <1>1
  <2> QED
    BY <2>1, <2>2, <2>3 DEF IndexInv
<1>7. CASE FollowOut
  <2> DEFINE n == Len(calls)
             ms == MovedOn(TRUE)
  <2>1. /\ calls # <<>> /\ outidx' = IndexFollowed /\ entry' = entry
        /\ FindPaths(CurrentOuts[Current.i], ms)
    BY <1>7 DEF FollowOut, InCall
  <2>2. Len(ms) = n /\ ms[1].block = calls[1].block /\ \A k \in 1 .. n - 1 : ms[k] = calls[k]
    BY <1>5, <2>1
  <2>3. ms[n].i = Current.i + 1 /\ Current.i \in Nat /\ ms \in Seq(Calls)
    <3>1. DOMAIN calls = 1 .. n /\ n \in DOMAIN calls
      BY <1>1, <2>1
    <3>2. Current \in Calls /\ ms \in Seq(Calls)
      BY <1>1, <2>1, MovedOnType
    <3> QED
      BY <3>1, <3>2 DEF MovedOn, Onto, Calls
  <2>4. n \in Nat \ {0} /\ 1 \in 1 .. n
    BY <1>1, <2>1
  <2>5. /\ calls'[1].block = calls[1].block
        /\ Len(calls') = n \/ Len(calls') = n + 1
        /\ \A k \in 1 .. n - 1 : calls'[k] = calls[k]
        /\ Len(calls') = n + 1 => calls'[n].i = Current.i + 1
    <3>1. CASE ReturnsAtOnce(Len(ms))
      <4>1. calls' = ms
        BY <2>1, <3>1 DEF FindPaths
      <4> HIDE DEF n, ms
      <4> QED
        BY <2>2, <2>4, <4>1
    <3>2. CASE ~ReturnsAtOnce(Len(ms))
      <4> DEFINE r == [block |-> CurrentOuts[Current.i], i |-> 1, found |-> FALSE]
      <4>1. calls' = Append(ms, r)
        BY <2>1, <3>2 DEF FindPaths
      <4> HIDE DEF ms, n, r
      <4>2. Len(calls') = n + 1 /\ \A k \in 1 .. n : calls'[k] = ms[k]
        BY <2>2, <2>3, <4>1, AfterBegun
      <4>3. n \in 1 .. n /\ \A k \in 1 .. n - 1 : k \in 1 .. n
        BY <2>4
      <4> QED
        BY <2>2, <2>3, <2>4, <4>2, <4>3
    <3> QED
      BY <3>1, <3>2
  <2>6. /\ \A d \in 0 .. n - 2 : outidx'[d] = outidx[d]
        /\ outidx'[n - 1] = Current.i
    <3>1. n <= a.num_blocks + 1 /\ a.num_blocks \in Nat
      BY AnalysisType DEF RouteInv, Holds
    <3>2. outidx' = [outidx EXCEPT ![n - 1] = Current.i]
      BY <2>1 DEF IndexFollowed, Depth
    <3>3. DOMAIN outidx = 0 .. a.num_blocks + 1
      BY DEF Shape
    <3> HIDE DEF n
    <3>4. n - 1 \in DOMAIN outidx /\ \A d \in 0 .. n - 2 : d # n - 1
      BY <2>4, <3>1, <3>3
    <3> QED
      BY <3>2, <3>4
  <2>7. ASSUME NEW d \in 0 .. Len(calls') - 2
        PROVE  outidx'[d] = calls'[d + 1].i - 1
    <3> HIDE DEF n, ms
    <3>1. CASE d \in 0 .. n - 2
      <4>1. d + 1 \in 1 .. n - 1
        BY <2>4, <3>1
      <4>2. outidx[d] = calls[d + 1].i - 1
        BY <3>1 DEF IndexInv, n
      <4>3. calls'[d + 1] = calls[d + 1] /\ outidx'[d] = outidx[d]
        BY <2>5, <2>6, <3>1, <4>1
      <4> QED
        BY <4>2, <4>3
    <3>2. CASE d \notin 0 .. n - 2
      <4>1. d = n - 1 /\ Len(calls') = n + 1 /\ d + 1 = n
        BY <2>4, <2>5, <2>7, <3>2
      <4>2. calls'[d + 1].i - 1 = Current.i
        BY <2>3, <2>5, <4>1
      <4> QED
        BY <2>6, <4>1, <4>2
    <3> QED
      BY <3>1, <3>2
  <2> QED
    BY <2>1, <2>5, <2>7 DEF IndexInv
<1>8. CASE Return
  <2>1. calls # <<>> /\ calls' = SubSeq(calls, 1, Len(calls) - 1) /\ UNCHANGED <<outidx, entry>>
    BY <1>8 DEF Return, InCall
  <2>2. Len(calls') = Len(calls) - 1 /\ \A k \in 1 .. Len(calls) - 1 : calls'[k] = calls[k]
    BY <2>1, AfterEnded
  <2>3. \A d \in 0 .. Len(calls') - 2 : d \in 0 .. Len(calls) - 2 /\ d + 1 \in 1 .. Len(calls) - 1
    BY <1>1, <2>2
  <2>4. calls' # <<>> => 1 \in 1 .. Len(calls) - 1
    <3>1. calls' # <<>> => Len(calls') # 0
      <4>1. \E S : calls' \in Seq(S)
        BY <2>1, AfterEnded
      <4> QED
        BY <4>1, EmptySeq
    <3> QED
      BY <1>1, <2>2, <3>1
  <2> QED
    BY <2>1, <2>2, <2>3, <2>4 DEF IndexInv
<1> QED
  BY <1>2, <1>3, <1>4, <1>6, <1>7, <1>8 DEF Next, Step

\* The hits miss no block and no edge of an execution.
LEMMA HitsCompleteStep ==
  ASSUME HitsComplete, [Next]_vars
  PROVE  HitsComplete'
<1>1. UNCHANGED <<a, edge_buf>>
  BY DEF Next, Step, vars, function, IniSet, StartCoverage, Execute, Collect, TryEntry, SkipOut,
         FollowOut, Return, EndSearch
<1>2. \A b, c : EdgeTaken(b, c)' = EdgeTaken(b, c)
  BY <1>1 DEF EdgeTaken
<1>3. CASE ~Execute
  <2>1. UNCHANGED hits
    BY <1>3 DEF Next, Step, vars, IniSet, StartCoverage, Collect, TryEntry, SkipOut,
                FollowOut, Return, EndSearch
  <2>2. UNCHANGED <<block_hit, edge_hit, executions>>
    BY <2>1 DEF hits
  <2> QED
    BY <1>1, <1>2, <2>2 DEF HitsComplete, Moves
<1>4. CASE Execute
  <2>1. PICK w \in Executions \ executions :
          /\ executions' = executions \cup {w}
          /\ block_hit' = block_hit \cup Range(w)
          /\ edge_hit' = IF edge_buf
                         THEN edge_hit \cup UNION {EdgeTaken(m[1], m[2]) : m \in Moves(w)}
                         ELSE edge_hit
    BY <1>4 DEF Execute
  <2> DEFINE new == UNION {EdgeTaken(m[1], m[2]) : m \in Moves(w)}
  <2>2. \A m \in Moves(w) : EdgeTaken(m[1], m[2]) \subseteq new
    OBVIOUS
  <2> HIDE DEF new
  <2>3. edge_buf => edge_hit' = edge_hit \cup new
    BY <2>1 DEF new
  <2>4. ASSUME NEW v \in executions'
        PROVE  /\ Range(v) \subseteq block_hit'
               /\ edge_buf' => \A m \in Moves(v) : EdgeTaken(m[1], m[2]) \subseteq edge_hit'
    <3>1. CASE v = w
      BY <1>1, <2>1, <2>2, <2>3, <3>1
    <3>2. CASE v \in executions
      BY <1>1, <2>1, <2>3, <3>2 DEF HitsComplete
    <3> QED
      BY <2>1, <3>1, <3>2
  <2> QED
    BY <1>2, <2>4 DEF HitsComplete, Moves
<1> QED
  BY <1>3, <1>4

\* The routes and how they are listed stay while nothing is recorded.
LEMMA RoutesKept ==
  ASSUME UNCHANGED <<function, hits>>
  PROVE  /\ Routes' = Routes
         /\ \A r : Item(r)' = Item(r)
         /\ Ahead(calls, entry)' = Ahead(calls', entry')
<1>1. UNCHANGED <<a, edge_buf, block_hit, edge_hit>>
  BY DEF function, hits
<1>2. Routes' = Routes
  BY <1>1 DEF Routes, LeafRoutes, Extended, GoesOn, Moves, AllBlocks
<1>3. \A r : Item(r)' = Item(r)
  BY <1>1 DEF Item, PathOf, RouteHit
<1>4. Ahead(calls, entry)' = Ahead(calls', entry')
  BY <1>2 DEF Ahead, AheadOf, Agrees
<1> QED
  BY <1>2, <1>3, <1>4

\* A step of the search that lists no path.
LEMMA SearchGoesOn ==
  ASSUME SearchInv, UNCHANGED <<phase, function, hits, latched, paths>>, Searching,
         Len(paths) < effective_max_paths => Ahead(calls', entry') = Ahead(calls, entry)
  PROVE  SearchInv'
<1>1. Routes' = Routes /\ (\A r : Item(r)' = Item(r)) /\ Ahead(calls, entry)' = Ahead(calls', entry')
  BY RoutesKept
<1>2. Searching' /\ ~Collected' /\ paths' = paths /\ effective_max_paths' = effective_max_paths
  BY DEF Searching, Collected, latched
<1>3. \A p \in Range(paths') : \E r \in Routes' : p = Item(r)'
  BY <1>1, <1>2 DEF SearchInv, Searching
<1>4. CASE Len(paths) < effective_max_paths
  <2>1. Ahead(calls, entry)' = Ahead(calls, entry)
    BY <1>1, <1>4
  <2> QED
    BY <1>1, <1>2, <1>3, <1>4, <2>1 DEF SearchInv
<1>5. CASE ~(Len(paths) < effective_max_paths)
  BY <1>1, <1>2, <1>3, <1>5 DEF SearchInv
<1> QED
  BY <1>4, <1>5

\* The path emitted is the current route, as it is listed.
LEMMA EmittedItem ==
  ASSUME TypeOK, IsAnalysis, RouteInv, IndexInv, FoundInv, calls # <<>>
  PROVE  PathEmitted = Item(CurrentRoute)
<1> DEFINE n == Len(calls)
           c == CurrentRoute
<1>1. /\ n \in Nat \ {0}
      /\ \A d \in 0 .. n - 1 : stack[d] = calls[d + 1].block
      /\ \A d \in 0 .. n - 2 : outidx[d] = calls[d + 1].i - 1
  BY CallsAreRoute DEF RouteInv, Holds, IndexInv
<1>2. /\ Len(c.outs) = n - 1 /\ Len(c.blocks) = n
      /\ \A k \in 1 .. n : c.blocks[k] = calls[k].block
      /\ \A k \in 1 .. n - 1 : c.outs[k] = calls[k].i - 1
      /\ c \in RouteSet
  BY CurrentRouteIs
<1>3. PathEmitted = [path |-> [k \in 1 .. n |-> a.start_op[stack[k - 1]]], hit |-> AllHit]
  BY DEF PathEmitted
<1>4. Depth = n - 1
  BY DEF Depth
<1> HIDE DEF n, c
<1>5. \A k \in 1 .. n : k - 1 \in 0 .. n - 1 /\ (k - 1) + 1 = k
  BY <1>1
<1>6. \A k \in 1 .. n : stack[k - 1] = c.blocks[k]
  BY <1>1, <1>2, <1>5
<1>7. DOMAIN c.blocks = 1 .. n /\ Last(c.blocks) = c.blocks[n]
  <2>1. c.blocks \in Seq(AllBlocks)
    BY <1>2 DEF RouteSet
  <2> QED
    BY <1>2, <2>1 DEF Last
<1>8. [k \in 1 .. n |-> a.start_op[stack[k - 1]]] = PathOf(c.blocks)
  BY <1>6, <1>7 DEF PathOf
<1>9. \A d \in 0 .. n - 1 : d + 1 \in 1 .. n /\ stack[d] = c.blocks[d + 1]
  BY <1>1, <1>2
<1>10. stack[n - 1] = Last(c.blocks)
  <2>1. n - 1 \in 0 .. n - 1 /\ (n - 1) + 1 = n
    BY <1>1
  <2> QED
    BY <1>7, <1>9, <2>1
<1>11. (\A d \in 0 .. n - 1 : stack[d] \in block_hit) <=> \A k \in 1 .. n : c.blocks[k] \in block_hit
  BY <1>5, <1>6, <1>9
<1>12. (\A d \in 0 .. (n - 1) - 1 : <<stack[d], outidx[d]>> \in edge_hit) <=>
         \A k \in 1 .. n - 1 : <<c.blocks[k], c.outs[k]>> \in edge_hit
  <2>1. \A d \in 0 .. (n - 1) - 1 : d + 1 \in 1 .. n - 1 /\ d \in 0 .. n - 1 /\ d \in 0 .. n - 2
    BY <1>1
  <2>2. \A k \in 1 .. n - 1 : k - 1 \in 0 .. (n - 1) - 1 /\ (k - 1) + 1 = k
    BY <1>1
  <2>3. \A d \in 0 .. (n - 1) - 1 : stack[d] = c.blocks[d + 1] /\ outidx[d] = c.outs[d + 1]
    BY <1>1, <1>2, <1>9, <2>1
  <2>4. \A k \in 1 .. n - 1 : stack[k - 1] = c.blocks[k] /\ outidx[k - 1] = c.outs[k]
    BY <2>2, <2>3
  <2> QED
    BY <2>1, <2>2, <2>3, <2>4
<1>13. AllHit <=> RouteHit(c)
  BY <1>2, <1>4, <1>10, <1>11, <1>12 DEF AllHit, RouteHit
<1>14. AllHit = RouteHit(c)
  <2>1. AllHit \in BOOLEAN /\ RouteHit(c) \in BOOLEAN
    BY DEF AllHit, RouteHit
  <2> QED
    BY <1>13, <2>1
<1>15. PathEmitted = Item(c)
  BY <1>3, <1>8, <1>14 DEF Item
<1> QED
  BY <1>15 DEF c

LEMMA SearchReturns ==
  ASSUME TypeOK, IsAnalysis, Shape, RouteInv, IndexInv, CapInv, FoundInv, SearchInv, Return
  PROVE  SearchInv'
<1>1. /\ calls # <<>> /\ Searching /\ Current.i \notin DOMAIN CurrentOuts
      /\ paths' = IF Current.found THEN paths ELSE Append(paths, PathEmitted)
      /\ calls' = Ended
      /\ UNCHANGED <<phase, function, hits, latched, entry>>
  BY DEF Return, InCall, PathEmitted, Ended
<1>2. CASE Current.found
  <2>1. paths' = paths
    BY <1>1, <1>2
  <2>2. Ahead(calls', entry') = Ahead(calls, entry)
    BY <1>1, <1>2, AheadReturned
  <2> QED
    BY <1>1, <2>1, <2>2, SearchGoesOn
<1>3. CASE ~Current.found
  <2> DEFINE n == Len(paths)
             left == Ahead(Ended, entry)
             all == Cardinality(Routes)
  <2>1. n \in Nat /\ effective_max_paths \in Nat /\ n < effective_max_paths /\ all \in Nat
    <3>1. n \in Nat /\ effective_max_paths \in Nat
      BY DEF TypeOK
    <3>2. n < effective_max_paths
      BY <1>1, <1>3 DEF CapInv, Current
    <3> QED
      BY <3>1, <3>2, RoutesAre
  <2>2. /\ Ahead(calls, entry) = left \cup {CurrentRoute} /\ CurrentRoute \notin left
        /\ CurrentRoute \in Routes
    BY <1>1, <1>3, AheadEmitted, CurrentIsLeaf
  <2>3. n + Cardinality(Ahead(calls, entry)) = all
        /\ \A r \in Routes \ Ahead(calls, entry) : Item(r) \in Range(paths)
    BY <1>1, <2>1 DEF SearchInv
  <2>4. IsFiniteSet(left) /\ Cardinality(left) \in Nat
    BY AheadFinite
  <2>5. Cardinality(Ahead(calls, entry)) = Cardinality(left) + 1
    <3> HIDE DEF left
    <3> QED
      BY <2>2, <2>4, FS_AddElement
  <2>6. PICK q : q = PathEmitted
    OBVIOUS
  <2>7. q = Item(CurrentRoute)
    BY <1>1, <2>6, EmittedItem
  <2>8. Range(paths') = Range(paths) \cup {q} /\ Len(paths') = n + 1
    <3>1. PathEmitted \in Paths /\ paths \in Seq(Paths)
      BY EmittedType DEF TypeOK
    <3>2. Range(Append(paths, q)) = Range(paths) \cup {q}
      BY <2>6, <3>1, RangeOfAppend
    <3>3. paths' = Append(paths, q)
      BY <1>1, <1>3, <2>6
    <3>4. Len(Append(paths, q)) = n + 1
      BY <2>6, <3>1
    <3> QED
      BY <3>2, <3>3, <3>4
  <2>9. Routes' = Routes /\ (\A r : Item(r)' = Item(r)) /\ Ahead(calls, entry)' = left
    <3>1. Ahead(calls', entry') = left
      BY <1>1
    <3> HIDE DEF left
    <3> QED
      BY <1>1, <3>1, RoutesKept
  <2>10. Searching' /\ ~Collected' /\ effective_max_paths' = effective_max_paths
    BY <1>1 DEF Searching, Collected, latched
  <2> HIDE DEF n, left
  <2>11. \A p \in Range(paths') : \E r \in Routes : p = Item(r)
    BY <1>1, <2>2, <2>7, <2>8 DEF SearchInv, Searching
  <2>12. \A r \in Routes \ left : Item(r) \in Range(paths')
    BY <2>2, <2>3, <2>7, <2>8
  <2>13. (n + 1) + Cardinality(left) = all
    <3> HIDE DEF all
    <3> QED
      BY <2>1, <2>3, <2>4, <2>5
  <2>14. ~(n + 1 < effective_max_paths) => effective_max_paths <= all
    <3> HIDE DEF all
    <3> QED
      BY <2>1, <2>4, <2>13
  <2>15. \A p \in Range(paths') : \E r \in Routes' : p = Item(r)'
    BY <2>9, <2>11
  <2>16. \A r \in Routes' \ Ahead(calls, entry)' : Item(r)' \in Range(paths')
    BY <2>9, <2>12
  <2>17. /\ Len(paths') + Cardinality(Ahead(calls, entry)') = Cardinality(Routes')
         /\ ~(Len(paths') < effective_max_paths') => effective_max_paths' <= Cardinality(Routes')
    BY <2>8, <2>9, <2>10, <2>13, <2>14
  <2> QED
    BY <2>10, <2>15, <2>16, <2>17 DEF SearchInv
<1> QED
  BY <1>2, <1>3

\* The listing and what is ahead stay in balance.
LEMMA SearchStep ==
  ASSUME TypeOK, IsAnalysis, Shape, RouteInv, IndexInv, CapInv, FoundInv, SearchInv, [Next]_vars
  PROVE  SearchInv'
<1>1. CASE StartCoverage \/ Execute
  <2>1. phase' = "recording"
    BY <1>1 DEF StartCoverage, Execute
  <2> QED
    BY <2>1 DEF SearchInv, Searching, Collected
<1>2. CASE IniSet \/ UNCHANGED vars
  <2>1. UNCHANGED <<phase, function, hits, latched, search, outcome>>
    BY <1>2 DEF IniSet, vars
  <2>2. /\ Routes' = Routes /\ \A r : Item(r)' = Item(r)
        /\ Ahead(calls, entry)' = Ahead(calls', entry')
    BY <2>1, RoutesKept
  <2>3. /\ calls' = calls /\ entry' = entry /\ paths' = paths
        /\ effective_max_paths' = effective_max_paths
        /\ Searching' = Searching /\ Collected' = Collected /\ phase' = phase
    BY <2>1 DEF search, latched, outcome, Searching, Collected
  <2>4. Ahead(calls, entry)' = Ahead(calls, entry)
    BY <2>2, <2>3
  <2> QED
    BY <2>2, <2>3, <2>4 DEF SearchInv
<1>3. CASE Collect
  <2>1. /\ paths' = <<>> /\ calls' = <<>> /\ entry' = 0
        /\ phase' = (IF skipped' THEN "collected" ELSE "searching")
        /\ UNCHANGED <<function, hits, latched>>
    BY <1>3 DEF Collect
  <2>2. Range(<<>>) = {} /\ Len(<<>>) = 0 /\ Range(paths') = {} /\ Len(paths') = 0
    BY <2>1, EmptySeq DEF Range
  <2>3. ~Collected'
    BY <2>1 DEF Collected
  <2>4. Ahead(calls, entry)' = Routes /\ Routes' = Routes
    <3>1. \A r \in Routes : r.blocks[1] >= 0
      BY RouteIn DEF AllBlocks
    <3>2. Ahead(calls', entry') = Routes
      BY <2>1, <3>1 DEF Ahead
    <3> QED
      BY <2>1, <3>2, RoutesKept
  <2>5. 0 < effective_max_paths' /\ Cardinality(Routes) \in Nat
    <3>1. effective_max_paths' = effective_max_paths /\ effective_max_paths \in Nat \ {0}
      BY <2>1 DEF latched, TypeOK
    <3> QED
      BY <3>1, RoutesAre
  <2>6. Len(paths') + Cardinality(Ahead(calls, entry)') = Cardinality(Routes')
    BY <2>2, <2>4, <2>5
  <2>7. \A r \in Routes' \ Ahead(calls, entry)' : Item(r)' \in Range(paths')
    BY <2>4
  <2>8. Len(paths') < effective_max_paths'
    BY <2>2, <2>5
  <2> QED
    BY <2>2, <2>3, <2>6, <2>7, <2>8 DEF SearchInv
<1>4. CASE TryEntry
  <2>1. /\ Searching /\ calls = <<>> /\ entry < a.num_blocks /\ entry' = entry + 1
        /\ IF a.is_entry[entry] THEN FindPaths(entry, <<>>) ELSE UNCHANGED <<calls, stack>>
        /\ UNCHANGED <<phase, function, hits, latched, paths>>
    BY <1>4 DEF TryEntry
  <2>2. ASSUME Len(paths) < effective_max_paths
        PROVE  Ahead(calls', entry') = Ahead(calls, entry)
    <3>1. CASE a.is_entry[entry]
      <4> DEFINE r == [block |-> entry, i |-> 1, found |-> FALSE]
      <4>1. ~ReturnsAtOnce(Len(<<>>))
        <5>1. Len(<<>>) = 0 /\ a.num_blocks \in Nat /\ ~(0 >= a.num_blocks + 1)
          BY AnalysisType, EmptySeq
        <5>2. Len(paths) \in Nat /\ effective_max_paths \in Nat
          BY DEF TypeOK
        <5> QED
          BY <2>2, <5>1, <5>2 DEF ReturnsAtOnce, TooDeep
      <4>2. calls' = Append(<<>>, r)
        BY <2>1, <3>1, <4>1 DEF FindPaths
      <4>3. calls' = <<r>>
        <5> HIDE DEF r
        <5> QED
          BY <4>2
      <4> QED
        BY <2>1, <3>1, <4>3, AheadEntered
    <3>2. CASE ~a.is_entry[entry]
      BY <2>1, <3>2, AheadEntered
    <3> QED
      BY <3>1, <3>2
  <2> QED
    BY <2>1, <2>2, SearchGoesOn
<1>5. CASE SkipOut
  <2>1. /\ Searching /\ calls # <<>> /\ Current.i \in DOMAIN CurrentOuts
        /\ Skips(CurrentOuts[Current.i])
        /\ calls' = MovedOn(Current.found) /\ entry' = entry
        /\ UNCHANGED <<phase, function, hits, latched, paths>>
    BY <1>5 DEF SkipOut, InCall
  <2>2. Ahead(calls', entry') = Ahead(calls, entry)
    BY <2>1, AheadSkipped
  <2> QED
    BY <2>1, <2>2, SearchGoesOn
<1>6. CASE FollowOut
  <2>1. /\ Searching /\ calls # <<>> /\ Current.i \in DOMAIN CurrentOuts
        /\ ~Skips(CurrentOuts[Current.i])
        /\ FindPaths(CurrentOuts[Current.i], MovedOn(TRUE)) /\ entry' = entry
        /\ UNCHANGED <<phase, function, hits, latched, paths>>
    BY <1>6 DEF FollowOut, InCall
  <2>2. Len(MovedOn(TRUE)) = Len(calls)
    BY <2>1, AfterMovedOn
  <2>3. ASSUME Len(paths) < effective_max_paths
        PROVE  Ahead(calls', entry') = Ahead(calls, entry)
    <3>1. ReturnsAtOnce(Len(calls)) <=> TooDeep(Len(calls))
      <4>1. Len(paths) \in Nat /\ effective_max_paths \in Nat
        BY DEF TypeOK
      <4> QED
        BY <2>3, <4>1 DEF ReturnsAtOnce
    <3>2. CASE TooDeep(Len(calls))
      <4>1. calls' = MovedOn(TRUE)
        BY <2>1, <2>2, <3>1, <3>2 DEF FindPaths
      <4> QED
        BY <2>1, <3>2, <4>1, AheadCutOff
    <3>3. CASE ~TooDeep(Len(calls))
      <4>1. calls' = Append(MovedOn(TRUE),
                            [block |-> CurrentOuts[Current.i], i |-> 1, found |-> FALSE])
        BY <2>1, <2>2, <3>1, <3>3 DEF FindPaths
      <4> QED
        BY <2>1, <4>1, AheadFollowed
    <3> QED
      BY <3>2, <3>3
  <2> QED
    BY <2>1, <2>3, SearchGoesOn
<1>7. CASE Return
  BY <1>7, SearchReturns
<1>8. CASE EndSearch
  <2>1. /\ Searching /\ calls = <<>> /\ entry = a.num_blocks /\ phase' = "collected"
        /\ UNCHANGED <<function, hits, latched, search, outcome>>
    BY <1>8 DEF EndSearch
  <2>2. Routes' = Routes /\ \A r : Item(r)' = Item(r)
    BY <2>1, RoutesKept
  <2>3. paths' = paths /\ effective_max_paths' = effective_max_paths /\ ~Searching'
    BY <2>1 DEF search, latched, Searching
  <2>4. Ahead(calls, entry) = {}
    <3>1. (1 .. Len(calls)) = {}
      BY <2>1, EmptySeq
    <3>2. \A r \in Routes : ~(r.blocks[1] >= entry)
      <4>1. a.num_blocks \in Nat
        BY AnalysisType
      <4> QED
        BY <2>1, <4>1, RouteIn DEF AllBlocks
    <3> QED
      BY <3>1, <3>2 DEF Ahead
  <2>5. \A p \in Range(paths) : \E r \in Routes : p = Item(r)
    BY <2>1 DEF SearchInv, Searching
  <2>6. CASE Len(paths) < effective_max_paths
    <3>1. /\ Len(paths) + Cardinality(Ahead(calls, entry)) = Cardinality(Routes)
          /\ \A r \in Routes : Item(r) \in Range(paths)
      BY <2>1, <2>4, <2>6 DEF SearchInv
    <3>2. Len(paths) = Cardinality(Routes)
      <4>1. Cardinality({}) = 0 /\ Len(paths) \in Nat
        BY FS_EmptySet DEF TypeOK
      <4> QED
        BY <2>4, <3>1, <4>1
    <3> QED
      BY <2>2, <2>3, <2>5, <2>6, <3>1, <3>2 DEF SearchInv
  <2>7. CASE ~(Len(paths) < effective_max_paths)
    <3>1. effective_max_paths <= Cardinality(Routes)
      BY <2>1, <2>7 DEF SearchInv
    <3> QED
      BY <2>2, <2>3, <2>5, <2>7, <3>1 DEF SearchInv
  <2> QED
    BY <2>6, <2>7
<1> QED
  BY <1>1, <1>2, <1>3, <1>4, <1>5, <1>6, <1>7, <1>8 DEF Next, Step

\* What the invariant says of a listing that is complete.
LEMMA ListingComplete ==
  ASSUME TypeOK, IsAnalysis, CapInv, SearchInv
  PROVE  ListsLeafPaths
<1> SUFFICES ASSUME Collected
             PROVE  LET all == {PathOf(r.blocks) : r \in Routes}
                    IN  /\ Listed \subseteq all
                        /\ Len(paths) = Min({effective_max_paths, Cardinality(Routes)})
                        /\ Len(paths) < effective_max_paths => Listed = all
  BY DEF ListsLeafPaths, Routes
<1> DEFINE all == {PathOf(r.blocks) : r \in Routes}
           cap == effective_max_paths
           n == Cardinality(Routes)
<1>1. \A r : Item(r).path = PathOf(r.blocks)
  BY DEF Item
<1>2. Listed \subseteq all
  <2>1. \A p \in Range(paths) : \E r \in Routes : p = Item(r)
    BY DEF SearchInv, Collected
  <2> QED
    BY <1>1, <2>1 DEF Listed
<1>3. Len(paths) < cap => Listed = all
  <2>1. Len(paths) < cap => \A r \in Routes : Item(r) \in Range(paths)
    BY DEF SearchInv
  <2>2. Len(paths) < cap => all \subseteq Listed
    BY <1>1, <2>1 DEF Listed
  <2> QED
    BY <1>2, <2>2
<1>4. Len(paths) \in Nat /\ cap \in Nat /\ n \in Nat /\ Len(paths) <= cap
  <2>1. Len(paths) \in Nat /\ cap \in Nat
    BY DEF TypeOK
  <2>2. Len(paths) <= cap
    BY DEF CapInv, Collected
  <2> QED
    BY <2>1, <2>2, RoutesAre
<1>5. IF Len(paths) < cap THEN Len(paths) = n ELSE cap <= n
  BY DEF SearchInv
<1> HIDE DEF cap, n
<1>6. Len(paths) \in {cap, n} /\ \A y \in {cap, n} : Len(paths) <= y
  BY <1>4, <1>5
<1>7. \A x \in {cap, n} : (\A y \in {cap, n} : x <= y) => x = Len(paths)
  BY <1>4, <1>6
<1>8. Len(paths) = Min({cap, n})
  BY <1>6, <1>7 DEF Min
<1> QED
  BY <1>2, <1>3, <1>8 DEF cap, n

\* Of the outs that lead to the same block an execution's route has the first,
\* which fxd_mark takes.
LEMMA RunRouteHit ==
  ASSUME TypeOK, IsAnalysis, HitsComplete, NEW w \in executions, Listable(w)
  PROVE  \E r \in Routes : r.blocks = w /\ RouteHit(r)
<1>1. PICK q \in Routes : q.blocks = w
  BY DEF Listable, Routes
<1>2. /\ q \in RouteSet /\ IsRoute(q) /\ GoesOn(q) = {} /\ Len(q.outs) <= a.num_blocks
      /\ Len(q.outs) \in Nat /\ Len(q.blocks) = Len(q.outs) + 1
      /\ \A k \in 1 .. Len(q.outs) + 1 : q.blocks[k] \in AllBlocks
  BY RouteIn
<1>3. PICK n \in Nat : n = Len(q.outs)
  BY <1>2
<1>4. w \in Seq(AllBlocks) /\ Len(w) = n + 1 /\ Len(w) - 1 = n
  BY <1>1, <1>2, <1>3 DEF RouteSet
<1>5. \A k \in 1 .. n : w[k] \in AllBlocks /\ w[k + 1] \in AllBlocks /\ w[k] # w[k + 1]
  <2> TAKE k \in 1 .. n
  <2>1. k \in 1 .. n + 1 /\ k + 1 \in 1 .. n + 1
    OBVIOUS
  <2> QED
    BY <1>1, <1>2, <1>3, <1>4, <2>1 DEF Listable
<1> DEFINE outs(k) == {i \in DOMAIN a.outs[w[k]] : a.outs[w[k]][i] = w[k + 1]}
           os == [k \in 1 .. n |-> Min(outs(k))]
           r == [blocks |-> w, outs |-> os]
<1>6. ASSUME NEW k \in 1 .. n
      PROVE  Min(outs(k)) \in outs(k) /\ outs(k) # {}
  <2>1. q.outs[k] \in outs(k)
    BY <1>1, <1>2, <1>3 DEF IsRoute
  <2>2. outs(k) \in SUBSET Nat
    BY <1>5, OutIsBlock
  <2> HIDE DEF outs
  <2>3. \E i \in outs(k) : \A j \in outs(k) : i <= j
    BY <2>1, <2>2, LeastNatural
  <2> QED
    BY <2>1, <2>3 DEF Min
<1>7. \A k \in 1 .. n : /\ os[k] = Min(outs(k)) /\ os[k] \in Nat
                        /\ os[k] \in DOMAIN a.outs[w[k]] /\ a.outs[w[k]][os[k]] = w[k + 1]
  <2> TAKE k \in 1 .. n
  <2>1. os[k] = Min(outs(k))
    OBVIOUS
  <2>2. os[k] \in outs(k)
    BY <1>6, <2>1
  <2>3. os[k] \in DOMAIN a.outs[w[k]] /\ a.outs[w[k]][os[k]] = w[k + 1]
    BY <2>2
  <2> HIDE DEF os, outs
  <2> QED
    BY <1>5, <2>1, <2>3, OutIsBlock
<1>8. os \in Seq(Nat) /\ Len(os) = n
  <2>1. os = [k \in 1 .. n |-> os[k]] /\ \A k \in 1 .. n : os[k] \in Nat
    BY <1>7
  <2> HIDE DEF os
  <2> QED
    BY <2>1
<1>9. r \in RouteSet /\ r.blocks = w /\ r.outs = os
  BY <1>4, <1>8 DEF RouteSet
<1> HIDE DEF os, r
<1>10. IsRoute(r)
  <2>1. a.is_entry[w[1]] /\ \A j, k \in 1 .. n : w[j] = w[k] /\ w[j + 1] = w[k + 1] => j = k
    BY <1>1, <1>2, <1>3 DEF IsRoute
  <2> QED
    BY <1>4, <1>7, <1>8, <1>9, <2>1 DEF IsRoute
<1>11. r \in Routes
  <2>1. GoesOn(r) = {}
    BY <1>1, <1>2, <1>9 DEF GoesOn
  <2>2. Len(r.outs) <= a.num_blocks
    BY <1>2, <1>3, <1>8, <1>9
  <2> QED
    BY <1>9, <1>10, <2>1, <2>2, RoutesAre
<1>12. \A k \in 1 .. n + 1 : w[k] \in block_hit
  <2>1. DOMAIN w = 1 .. n + 1
    BY <1>4
  <2> QED
    BY <2>1 DEF HitsComplete, Range
<1>13. ASSUME edge_buf, NEW k \in 1 .. n
       PROVE  <<w[k], os[k]>> \in edge_hit
  <2>1. <<w[k], w[k + 1]>> \in Moves(w)
    BY <1>4 DEF Moves
  <2>2. \A b, c : <<b, c>>[1] = b /\ <<b, c>>[2] = c
    OBVIOUS
  <2>3. EdgeTaken(w[k], w[k + 1]) \subseteq edge_hit
    <3>1. \A m \in Moves(w) : EdgeTaken(m[1], m[2]) \subseteq edge_hit
      BY <1>13 DEF HitsComplete
    <3> QED
      BY <2>1, <2>2, <3>1
  <2>4. EdgeTaken(w[k], w[k + 1]) = {<<w[k], Min(outs(k))>>}
    BY <1>5, <1>6 DEF EdgeTaken
  <2> QED
    BY <1>7, <2>3, <2>4
<1>14. RouteHit(r)
  <2>1. Last(w) = w[n + 1] /\ n + 1 \in 1 .. n + 1
    BY <1>4 DEF Last
  <2> QED
    BY <1>4, <1>8, <1>9, <1>12, <1>13, <2>1 DEF RouteHit
<1> QED
  BY <1>9, <1>11, <1>14

LEMMA RunsListed ==
  ASSUME TypeOK, IsAnalysis, HitsComplete, SearchInv
  PROVE  RunPathsAreHit
<1> SUFFICES ASSUME Collected, Len(paths) < effective_max_paths, NEW w \in executions, Listable(w)
             PROVE  [path |-> PathOf(w), hit |-> TRUE] \in Range(paths)
  BY DEF RunPathsAreHit
<1>1. PICK r \in Routes : r.blocks = w /\ RouteHit(r)
  BY RunRouteHit
<1>2. Item(r) \in Range(paths)
  BY DEF SearchInv
<1>3. RouteHit(r) = TRUE
  BY <1>1 DEF RouteHit
<1>4. Item(r) = [path |-> PathOf(w), hit |-> TRUE]
  BY <1>1, <1>3 DEF Item
<1> QED
  BY <1>2, <1>4

-----------------------------------------------------------------------------
LEMMA InitIInv == Init => IInv
<1> SUFFICES ASSUME Init PROVE IInv
  OBVIOUS
<1>1. a.num_blocks \in Nat \ {0}
  <2>1. PICK o \in OpArrays : a = Analyse(o)
    BY DEF Init
  <2>2. IsOpArray(o) /\ 0 \in Ops(o)
    BY PathFinderAssumption DEF IsOpArray, Ops
  <2> QED
    BY <2>1, <2>2, BlockInRange
<1>2. /\ <<>> \in Seq({}) /\ Len(<<>>) = 0
      /\ (1 .. 0 - 1) = {} /\ (0 .. 0 - 1) = {} /\ (0 .. 0 - 2) = {}
  BY EmptySeq
<1>3. Shape
  BY <1>1, <1>2 DEF Init, Shape
<1>4. RouteInv
  BY <1>1, <1>2 DEF Init, RouteInv, Holds
<1>5. CapInv
  BY <1>2 DEF Init, CapInv
<1> QED
  BY <1>3, <1>4, <1>5 DEF IInv

\* The invariant of the search, of what it lists and of the memory guard.
FullInv ==
  /\ IInv
  /\ TypeOK /\ IsAnalysis
  /\ GuardInv
  /\ HitsInv /\ FoundInv /\ PathsInv
  /\ IndexInv /\ HitsComplete /\ SearchInv

LEMMA Inductive == Spec => []FullInv
<1>1. Init => FullInv
  <2> SUFFICES ASSUME Init PROVE FullInv
    OBVIOUS
  <2>1. IInv /\ TypeOK /\ IsAnalysis
    BY InitIInv, TypeInit
  <2>2. phase = "off" /\ block_hit = {} /\ edge_hit = {} /\ calls = <<>> /\ paths = <<>>
    BY DEF Init
  <2>3. Range(<<>>) = {}
    BY DEF Range
  <2>4. GuardInv /\ HitsInv /\ FoundInv /\ PathsInv
    <3>1. memory_limit_bytes = started.limit /\ memory_guard = started.guard
      BY DEF Init
    <3> QED
      BY <2>2, <2>3, <3>1 DEF GuardInv, HitsInv, FoundInv, PathsInv
  <2>5. executions = {} /\ (0 .. Len(<<>>) - 2) = {}
    BY EmptySeq DEF Init
  <2>6. IndexInv /\ HitsComplete /\ SearchInv
    BY <2>2, <2>5 DEF IndexInv, HitsComplete, SearchInv, Searching, Collected
  <2> QED
    BY <2>1, <2>4, <2>6 DEF FullInv
<1>2. FullInv /\ [Next]_vars => FullInv'
  <2> SUFFICES ASSUME FullInv, [Next]_vars PROVE FullInv'
    OBVIOUS
  <2>1. IInv' /\ TypeOK' /\ IsAnalysis' /\ GuardInv'
    BY RouteStep, CapStep, TypeStep, GuardStep DEF FullInv, IInv
  <2>2. HitsInv' /\ FoundInv' /\ PathsInv'
    BY HitsStep, FoundStep, PathsStep DEF FullInv, IInv
  <2>3. IndexInv' /\ HitsComplete' /\ SearchInv'
    BY IndexStep, HitsCompleteStep, SearchStep DEF FullInv, IInv
  <2> QED
    BY <2>1, <2>2, <2>3 DEF FullInv
<1> QED
  BY <1>1, <1>2, PTL DEF Spec

(* Whatever the function, fxd_find_paths stays within the num_blocks + 2      *)
(* places of the buffers its calls share, and they hold its route.            *)
THEOREM SearchStaysInBuffers == Spec => []BuffersHoldRoute
<1>1. FullInv => BuffersHoldRoute
  <2> SUFFICES ASSUME FullInv PROVE BuffersHoldRoute
    OBVIOUS
  <2>1. Len(calls) \in Nat /\ a.num_blocks \in Nat /\ Len(calls) <= a.num_blocks + 1
    BY CallsLength DEF FullInv, IInv, Shape, RouteInv, Holds
  <2>2. Depth = Len(calls) - 1 /\ Depth - 1 = Len(calls) - 2 /\ Len(calls) <= a.num_blocks + 2
    BY <2>1 DEF Depth
  <2> QED
    BY <2>2 DEF BuffersHoldRoute, FullInv, IInv, RouteInv, Holds
<1> QED
  BY Inductive, <1>1, PTL

(* fxd_build_function never lists more paths than the cap latched at the      *)
(* start of coverage lets it.                                                 *)
THEOREM PathsCapped ==
  Spec => [](phase = "collected" => Len(paths) <= effective_max_paths)
<1>1. FullInv => (phase = "collected" => Len(paths) <= effective_max_paths)
  BY DEF FullInv, IInv, CapInv
<1> QED
  BY Inductive, <1>1, PTL

(* Every value the search and the memory guard keep is of its kind.           *)
THEOREM TypeCorrect == Spec => []TypeOK
<1>1. FullInv => TypeOK
  BY DEF FullInv
<1> QED
  BY Inductive, <1>1, PTL

(* fxd_find_paths lists whole leaf paths only, for every op_array, cap and    *)
(* order of the entries: neither the cap nor the guard on the depth makes it  *)
(* emit the beginning of one.                                                 *)
THEOREM OnlyLeafPaths == Spec => []ListsOnlyLeafPaths
<1>1. FullInv => ListsOnlyLeafPaths
  BY DEF FullInv, PathsInv, ListsOnlyLeafPaths, BlocksOf
<1> QED
  BY Inductive, <1>1, PTL

(* fxd_find_paths reports a path as hit only if executions went along each of *)
(* its edges, or through each of its blocks where no edges were recorded.     *)
THEOREM HitPathsRan == Spec => []HitPathsWereRun
<1>1. FullInv => HitPathsWereRun
  <2> SUFFICES ASSUME FullInv, Collected
               PROVE  \A p \in {q \in Range(paths) : q.hit} :
                        IF edge_buf
                        THEN Moves(p.path) \subseteq UNION {Moves(PathOf(w)) : w \in executions}
                        ELSE Range(p.path) \subseteq UNION {Range(PathOf(w)) : w \in executions}
    BY DEF HitPathsWereRun
  <2>1. \A p \in Range(paths) : Ran(p)
    BY DEF FullInv, PathsInv, Collected
  <2> QED
    BY <2>1 DEF Ran
<1> QED
  BY Inductive, <1>1, PTL

(* fxd_build_function skips the search exactly when the memory in use is at   *)
(* the threshold of the limit latched at the start of coverage, whatever      *)
(* limit, and whatever ini_set and collections came before.                   *)
THEOREM GuardIsExact == Spec => []SkipsUnderPressure
<1>1. FullInv => SkipsUnderPressure
  BY GuardSkips DEF FullInv
<1> QED
  BY Inductive, <1>1, PTL

(* fxd_find_paths lists as many leaf paths as the cap lets through, and below *)
(* the cap misses none that has no more blocks than the function, and one:    *)
(* for every graph of blocks, with the buffers shared by all its calls.       *)
THEOREM AllLeafPathsListed == Spec => []ListsLeafPaths
<1>1. FullInv => ListsLeafPaths
  BY ListingComplete DEF FullInv, IInv
<1> QED
  BY Inductive, <1>1, PTL

(* Below the cap, the leaf path an execution took is listed and hit: fxd_mark *)
(* and fxd_find_paths agree on the outs, whichever of them lead to the same   *)
(* block.                                                                     *)
THEOREM RunPathsListedHit == Spec => []RunPathsAreHit
<1>1. FullInv => RunPathsAreHit
  BY RunsListed DEF FullInv
<1> QED
  BY Inductive, <1>1, PTL
=============================================================================
