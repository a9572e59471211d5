--------------------------- MODULE Profiler_proof ---------------------------
(***************************************************************************)
(* The profiler's frames, edges and costs, for any functions, fibers,      *)
(* sessions and depth of calls (module Profiler).  The first part is about *)
(* sums over finite sets, which SumFunction computes by recursion over the *)
(* subsets: induction is over the set of the subsets a fact holds of.      *)
(***************************************************************************)
EXTENDS Profiler, FiniteSetTheorems, SequenceTheorems, TLAPS

-----------------------------------------------------------------------------
\* Sums over finite sets.

\* The order of the naturals as a relation.
Less == {ss \in Nat \X Nat : ss[1] < ss[2]}

LEMMA LeastNatural ==
  ASSUME NEW S \in SUBSET Nat, S # {}
  PROVE  \E x \in S : \A y \in S : x <= y
<1>1. IsWellFoundedOn(Less, Nat)
  BY NatLessThanWellFounded DEF OpToRel, Less
<1>2. PICK x \in S : \A y \in S : <<y, x>> \notin Less
  BY <1>1, WFMin
<1>3. \A y \in S : ~(y < x)
  BY <1>2 DEF Less
<1> QED
  BY <1>3

(* Of the subsets of a finite set, a set that holds {} and every s all of    *)
(* whose s \ {x} it holds, holds all.                                        *)
LEMMA SubsetInduction ==
  ASSUME NEW S, IsFiniteSet(S), NEW G, {} \in G,
         ASSUME NEW s \in SUBSET S, s # {}, \A x \in s : s \ {x} \in G
         PROVE  s \in G
  PROVE  SUBSET S \subseteq G
<1> DEFINE bad == {s \in SUBSET S : s \notin G}
           sizes == {Cardinality(s) : s \in bad}
<1> SUFFICES ASSUME bad # {} PROVE FALSE
  OBVIOUS
<1>1. \A s \in SUBSET S : IsFiniteSet(s) /\ Cardinality(s) \in Nat
  BY FS_Subset, FS_CardinalityType
<1>2. PICK s \in bad : \A t \in bad : Cardinality(s) <= Cardinality(t)
  <2>1. sizes \in SUBSET Nat /\ sizes # {}
    BY <1>1
  <2> HIDE DEF sizes
  <2>2. PICK n \in sizes : \A m \in sizes : n <= m
    BY <2>1, LeastNatural
  <2> QED
    BY <2>2 DEF sizes
<1>3. s # {}
  OBVIOUS
<1>4. PICK x \in s : s \ {x} \notin G
  BY <1>3
<1>5. s \ {x} \in bad /\ Cardinality(s \ {x}) = Cardinality(s) - 1
  BY <1>1, <1>4, FS_RemoveElement
<1> QED
  BY <1>1, <1>2, <1>5

\* The element a sum takes first, and the sums of the subsets of S.
Chosen(s) == CHOOSE x \in s : TRUE
IsSums(f, S, sums) ==
  sums = [s \in SUBSET S |-> IF s = {} THEN 0 ELSE f[Chosen(s)] + sums[s \ {Chosen(s)}]]

Agree(p, q, S) == \A s \in SUBSET S : p[s] = q[s]

LEMMA ChosenOf ==
  ASSUME NEW s, s # {}
  PROVE  Chosen(s) \in s
BY DEF Chosen

LEMMA SumIsChosen ==
  ASSUME NEW f, NEW S, \E sums : IsSums(f, S, sums)
  PROVE  \E sums : IsSums(f, S, sums) /\ SumFunctionOnSet(f, S) = sums[S]
BY DEF SumFunctionOnSet, FoldFunctionOnSet, MapThenFoldSet, IsSums, Chosen

LEMMA SumsOfSubsets ==
  ASSUME NEW f, NEW S, NEW sums, IsSums(f, S, sums), NEW T, T \subseteq S
  PROVE  \E part : IsSums(f, T, part) /\ Agree(part, sums, T)
<1> DEFINE part == [s \in SUBSET T |-> sums[s]]
           next == [s \in SUBSET T |-> IF s = {} THEN 0 ELSE f[Chosen(s)] + part[s \ {Chosen(s)}]]
<1>1. ASSUME NEW s \in SUBSET T
      PROVE  part[s] = next[s]
  <2>1. s \ {Chosen(s)} \in SUBSET T /\ s \in SUBSET S
    OBVIOUS
  <2>2. sums[s] = IF s = {} THEN 0 ELSE f[Chosen(s)] + sums[s \ {Chosen(s)}]
    BY <2>1 DEF IsSums
  <2> QED
    BY <2>1, <2>2
<1>2. part = next
  BY <1>1
<1>3. IsSums(f, T, part) /\ Agree(part, sums, T)
  BY <1>2 DEF IsSums, Agree
<1> QED
  BY <1>3

LEMMA SumsUnique ==
  ASSUME NEW f, NEW S, IsFiniteSet(S), NEW p, NEW q, IsSums(f, S, p), IsSums(f, S, q)
  PROVE  p = q
<1> DEFINE G == {s \in SUBSET S : p[s] = q[s]}
<1>1. \A s \in SUBSET S : p[s] = IF s = {} THEN 0 ELSE f[Chosen(s)] + p[s \ {Chosen(s)}]
  BY DEF IsSums
<1>2. \A s \in SUBSET S : q[s] = IF s = {} THEN 0 ELSE f[Chosen(s)] + q[s \ {Chosen(s)}]
  BY DEF IsSums
<1>3. {} \in G
  BY <1>1, <1>2
<1>4. ASSUME NEW s \in SUBSET S, s # {}, \A x \in s : s \ {x} \in G
      PROVE  s \in G
  BY <1>1, <1>2, <1>4, ChosenOf
<1> HIDE DEF G
<1>5. SUBSET S \subseteq G
  BY <1>3, <1>4, SubsetInduction
<1>6. \A s \in SUBSET S : p[s] = q[s]
  BY <1>5 DEF G
<1>7. p = [s \in SUBSET S |-> p[s]] /\ q = [s \in SUBSET S |-> q[s]]
  BY DEF IsSums
<1> QED
  BY <1>6, <1>7

LEMMA SumsAgree ==
  ASSUME NEW f, NEW S, NEW T, IsFiniteSet(S), NEW p, NEW q, IsSums(f, S, p), IsSums(f, T, q)
  PROVE  Agree(p, q, S \cap T)
<1> DEFINE m == S \cap T
<1>1. m \subseteq S /\ m \subseteq T
  OBVIOUS
<1>2. IsFiniteSet(m)
  BY <1>1, FS_Subset
<1> HIDE DEF m
<1>3. PICK pm : IsSums(f, m, pm) /\ Agree(pm, p, m)
  BY <1>1, SumsOfSubsets
<1>4. PICK qm : IsSums(f, m, qm) /\ Agree(qm, q, m)
  BY <1>1, SumsOfSubsets
<1>5. pm = qm
  BY <1>2, <1>3, <1>4, SumsUnique
<1>6. Agree(p, q, m)
  BY <1>3, <1>4, <1>5 DEF Agree
<1> QED
  BY <1>6 DEF m

LEMMA SumsExist ==
  ASSUME NEW f, NEW S, IsFiniteSet(S)
  PROVE  \A s \in SUBSET S : \E sums : IsSums(f, s, sums)
<1> DEFINE G == {s \in SUBSET S : \E sums : IsSums(f, s, sums)}
<1>1. {} \in G
  <2> DEFINE zero == [s \in SUBSET {} |-> 0]
  <2>1. IsSums(f, {}, zero)
    BY DEF IsSums
  <2> QED
    BY <2>1
<1>2. ASSUME NEW s \in SUBSET S, s # {}, \A x \in s : s \ {x} \in G
      PROVE  s \in G
  <2> DEFINE of == [x \in s |-> CHOOSE sums : IsSums(f, s \ {x}, sums)]
             at(t) == of[CHOOSE x \in s : x \notin t][t]
             whole == [t \in SUBSET s |->
                         IF t = {} THEN 0
                         ELSE IF t = s THEN f[Chosen(s)] + at(s \ {Chosen(s)}) ELSE at(t)]
  <2>1. \A x \in s : IsSums(f, s \ {x}, of[x])
    BY <1>2
  <2>2. ASSUME NEW x \in s, NEW y \in s, NEW t \in SUBSET s, x \notin t, y \notin t
        PROVE  of[x][t] = of[y][t]
    <3> HIDE DEF of
    <3>1. IsSums(f, s \ {x}, of[x]) /\ IsSums(f, s \ {y}, of[y])
      BY <2>1
    <3>2. IsFiniteSet(s \ {x})
      BY FS_Subset
    <3>3. Agree(of[x], of[y], (s \ {x}) \cap (s \ {y}))
      BY <3>1, <3>2, SumsAgree
    <3> QED
      BY <2>2, <3>3 DEF Agree
  <2>3. ASSUME NEW x \in s, NEW t \in SUBSET s, x \notin t
        PROVE  at(t) = of[x][t]
    <3> HIDE DEF of
    <3> QED
      BY <2>2, <2>3
  <2>4. ASSUME NEW t \in SUBSET s, t # {}
        PROVE  whole[t] = f[Chosen(t)] + whole[t \ {Chosen(t)}]
    <3>0. Chosen(t) \in t
      BY <2>4, ChosenOf
    <3>1. whole[t \ {Chosen(t)}] = at(t \ {Chosen(t)})
      <4>1. CASE t \ {Chosen(t)} # {}
        <5> HIDE DEF at
        <5> QED
          BY <4>1, <3>0
      <4>2. CASE t \ {Chosen(t)} = {}
        <5>1. at({}) = of[Chosen(t)][{}]
          <6> HIDE DEF at, of
          <6> QED
            BY <2>3, <3>0
        <5>2. of[Chosen(t)][{}] = 0
          <6> HIDE DEF of
          <6>1. IsSums(f, s \ {Chosen(t)}, of[Chosen(t)])
            BY <2>1, <3>0
          <6> QED
            BY <6>1 DEF IsSums
        <5> HIDE DEF at
        <5> QED
          BY <4>2, <5>1, <5>2
      <4> QED
        BY <4>1, <4>2
    <3>2. CASE t = s
      <4> HIDE DEF at
      <4> QED
        BY <3>1, <3>2, <2>4
    <3>3. CASE t # s
      <4>1. PICK x \in s : x \notin t
        BY <3>3
      <4>2. at(t) = of[x][t] /\ at(t \ {Chosen(t)}) = of[x][t \ {Chosen(t)}]
        <5> HIDE DEF at, of
        <5> QED
          BY <2>3, <4>1
      <4>3. of[x][t] = f[Chosen(t)] + of[x][t \ {Chosen(t)}]
        <5> HIDE DEF of
        <5>1. IsSums(f, s \ {x}, of[x])
          BY <2>1
        <5> QED
          BY <5>1, <4>1, <2>4 DEF IsSums
      <4>4. whole[t] = at(t)
        <5> HIDE DEF at
        <5> QED
          BY <3>3, <2>4
      <4> QED
        BY <3>1, <4>2, <4>3, <4>4
    <3> QED
      BY <3>2, <3>3
  <2>5. IsSums(f, s, whole)
    <3> DEFINE next == [t \in SUBSET s |->
                          IF t = {} THEN 0 ELSE f[Chosen(t)] + whole[t \ {Chosen(t)}]]
    <3>1. whole[{}] = 0
      OBVIOUS
    <3>3. whole = [t \in SUBSET s |-> whole[t]]
      OBVIOUS
    <3> HIDE DEF whole
    <3>2. whole = next
      BY <2>4, <3>1, <3>3
    <3> QED
      BY <3>2 DEF IsSums
  <2> QED
    BY <2>5
<1> HIDE DEF G
<1>3. SUBSET S \subseteq G
  BY <1>1, <1>2, SubsetInduction
<1> QED
  BY <1>3 DEF G

LEMMA SumOf ==
  ASSUME NEW f, NEW S, IsFiniteSet(S)
  PROVE  \E sums : IsSums(f, S, sums) /\ SumFunctionOnSet(f, S) = sums[S]
<1>1. S \in SUBSET S
  OBVIOUS
<1> QED
  BY <1>1, SumsExist, SumIsChosen

(* SumFunctionOnSet(f, S) takes the elements of S one by one.                *)
LEMMA SumStep ==
  ASSUME NEW f, NEW S, IsFiniteSet(S)
  PROVE  /\ SumFunctionOnSet(f, {}) = 0
         /\ S # {} => SumFunctionOnSet(f, S)
                        = f[Chosen(S)] + SumFunctionOnSet(f, S \ {Chosen(S)})
<1>1. SumFunctionOnSet(f, {}) = 0
  <2>1. PICK sums : IsSums(f, {}, sums) /\ SumFunctionOnSet(f, {}) = sums[{}]
    BY SumOf, FS_EmptySet
  <2> QED
    BY <2>1 DEF IsSums
<1>2. ASSUME S # {}
      PROVE  SumFunctionOnSet(f, S) = f[Chosen(S)] + SumFunctionOnSet(f, S \ {Chosen(S)})
  <2> DEFINE T == S \ {Chosen(S)}
  <2>1. T \subseteq S /\ IsFiniteSet(T)
    BY FS_Subset
  <2> HIDE DEF T
  <2>2. PICK p : IsSums(f, S, p) /\ SumFunctionOnSet(f, S) = p[S]
    BY SumOf
  <2>3. PICK q : IsSums(f, T, q) /\ SumFunctionOnSet(f, T) = q[T]
    BY <2>1, SumOf
  <2>4. Agree(q, p, T \cap S)
    BY <2>1, <2>2, <2>3, SumsAgree
  <2>5. q[T] = p[T]
    BY <2>1, <2>4 DEF Agree
  <2>6. p[S] = f[Chosen(S)] + p[T]
    BY <1>2, <2>2 DEF IsSums, T
  <2> QED
    BY <2>2, <2>3, <2>5, <2>6 DEF T
<1> QED
  BY <1>1, <1>2

LEMMA SumEmpty ==
  ASSUME NEW f
  PROVE  SumFunctionOnSet(f, {}) = 0
<1>1. IsFiniteSet({})
  BY FS_EmptySet
<1> QED
  BY <1>1, SumStep

LEMMA SumType ==
  ASSUME NEW f, NEW S, IsFiniteSet(S), \A x \in S : f[x] \in Nat
  PROVE  SumFunctionOnSet(f, S) \in Nat
<1> DEFINE G == {s \in SUBSET S : SumFunctionOnSet(f, s) \in Nat}
<1>1. {} \in G
  BY SumEmpty
<1>2. ASSUME NEW s \in SUBSET S, s # {}, \A x \in s : s \ {x} \in G
      PROVE  s \in G
  <2>1. IsFiniteSet(s)
    BY FS_Subset
  <2>2. Chosen(s) \in s
    BY <1>2, ChosenOf
  <2>3. SumFunctionOnSet(f, s) = f[Chosen(s)] + SumFunctionOnSet(f, s \ {Chosen(s)})
    BY <1>2, <2>1, SumStep
  <2>4. SumFunctionOnSet(f, s \ {Chosen(s)}) \in Nat /\ f[Chosen(s)] \in Nat
    BY <1>2, <2>2
  <2> QED
    BY <2>3, <2>4
<1> HIDE DEF G
<1>3. SUBSET S \subseteq G
  BY <1>1, <1>2, SubsetInduction
<1>4. S \in G
  BY <1>3
<1> QED
  BY <1>4 DEF G

(* The order in which they are taken does not matter.                        *)
LEMMA SumRemove ==
  ASSUME NEW f, NEW S, IsFiniteSet(S), \A x \in S : f[x] \in Nat, NEW x \in S
  PROVE  SumFunctionOnSet(f, S) = f[x] + SumFunctionOnSet(f, S \ {x})
<1> DEFINE Sum(s) == SumFunctionOnSet(f, s)
           G == {s \in SUBSET S : \A y \in s : Sum(s) = f[y] + Sum(s \ {y})}
<1>0. \A s \in SUBSET S : IsFiniteSet(s) /\ Sum(s) \in Nat
  BY FS_Subset, SumType
<1>1. {} \in G
  OBVIOUS
<1>2. ASSUME NEW s \in SUBSET S, s # {}, \A z \in s : s \ {z} \in G
      PROVE  s \in G
  <2> SUFFICES ASSUME NEW y \in s PROVE Sum(s) = f[y] + Sum(s \ {y})
    OBVIOUS
  <2> DEFINE c == Chosen(s)
  <2>1. c \in s
    BY <1>2, ChosenOf
  <2>2. Sum(s) = f[c] + Sum(s \ {c})
    BY <1>0, <1>2, SumStep
  <2> HIDE DEF c, Sum
  <2>3. CASE y = c
    BY <2>2, <2>3
  <2>4. CASE y # c
    <3>1. Sum(s \ {c}) = f[y] + Sum((s \ {c}) \ {y})
      BY <1>2, <2>1, <2>4
    <3>2. Sum(s \ {y}) = f[c] + Sum((s \ {y}) \ {c})
      BY <1>2, <2>1, <2>4
    <3>3. (s \ {y}) \ {c} = (s \ {c}) \ {y}
      OBVIOUS
    <3>4. f[c] \in Nat /\ f[y] \in Nat /\ Sum((s \ {c}) \ {y}) \in Nat
      BY <1>0, <2>1
    <3> QED
      BY <2>2, <3>1, <3>2, <3>3, <3>4
  <2> QED
    BY <2>3, <2>4
<1> HIDE DEF G
<1>3. SUBSET S \subseteq G
  BY <1>1, <1>2, SubsetInduction
<1>4. S \in G
  BY <1>3
<1> QED
  BY <1>4 DEF G

LEMMA SumSame ==
  ASSUME NEW f, NEW g, NEW S, IsFiniteSet(S), \A x \in S : f[x] = g[x]
  PROVE  SumFunctionOnSet(f, S) = SumFunctionOnSet(g, S)
<1> DEFINE G == {s \in SUBSET S : SumFunctionOnSet(f, s) = SumFunctionOnSet(g, s)}
<1>1. {} \in G
  <2>1. SumFunctionOnSet(f, {}) = 0 /\ SumFunctionOnSet(g, {}) = 0
    BY SumEmpty
  <2> QED
    BY <2>1
<1>2. ASSUME NEW s \in SUBSET S, s # {}, \A x \in s : s \ {x} \in G
      PROVE  s \in G
  <2>1. IsFiniteSet(s) /\ Chosen(s) \in s
    BY <1>2, FS_Subset, ChosenOf
  <2>2. SumFunctionOnSet(f, s) = f[Chosen(s)] + SumFunctionOnSet(f, s \ {Chosen(s)})
    BY <1>2, <2>1, SumStep
  <2>3. SumFunctionOnSet(g, s) = g[Chosen(s)] + SumFunctionOnSet(g, s \ {Chosen(s)})
    BY <1>2, <2>1, SumStep
  <2> QED
    BY <1>2, <2>1, <2>2, <2>3
<1> HIDE DEF G
<1>3. SUBSET S \subseteq G
  BY <1>1, <1>2, SubsetInduction
<1>4. S \in G
  BY <1>3
<1> QED
  BY <1>4 DEF G

LEMMA SumZeros ==
  ASSUME NEW f, NEW S, IsFiniteSet(S), \A x \in S : f[x] = 0
  PROVE  SumFunctionOnSet(f, S) = 0
<1> DEFINE G == {s \in SUBSET S : SumFunctionOnSet(f, s) = 0}
<1>1. {} \in G
  BY SumEmpty
<1>2. ASSUME NEW s \in SUBSET S, s # {}, \A x \in s : s \ {x} \in G
      PROVE  s \in G
  <2>1. IsFiniteSet(s) /\ Chosen(s) \in s
    BY <1>2, FS_Subset, ChosenOf
  <2>2. SumFunctionOnSet(f, s) = f[Chosen(s)] + SumFunctionOnSet(f, s \ {Chosen(s)})
    BY <1>2, <2>1, SumStep
  <2> QED
    BY <1>2, <2>1, <2>2
<1> HIDE DEF G
<1>3. SUBSET S \subseteq G
  BY <1>1, <1>2, SubsetInduction
<1>4. S \in G
  BY <1>3
<1> QED
  BY <1>4 DEF G

(* Changing one term changes the sum by as much.                             *)
LEMMA SumChange ==
  ASSUME NEW f, NEW g, NEW S, IsFiniteSet(S), NEW x \in S,
         \A y \in S : f[y] \in Nat /\ g[y] \in Nat,
         \A y \in S \ {x} : g[y] = f[y]
  PROVE  /\ SumFunctionOnSet(f, S) \in Nat /\ SumFunctionOnSet(g, S) \in Nat
         /\ SumFunctionOnSet(g, S) + f[x] = SumFunctionOnSet(f, S) + g[x]
<1> DEFINE T == S \ {x}
<1>1. IsFiniteSet(T) /\ T \subseteq S
  BY FS_Subset
<1>2. SumFunctionOnSet(f, T) = SumFunctionOnSet(g, T)
  BY <1>1, SumSame
<1>3. SumFunctionOnSet(f, S) = f[x] + SumFunctionOnSet(f, T)
  BY SumRemove
<1>4. SumFunctionOnSet(g, S) = g[x] + SumFunctionOnSet(g, T)
  BY SumRemove
<1>5. SumFunctionOnSet(f, T) \in Nat
  BY <1>1, SumType
<1> QED
  BY <1>2, <1>3, <1>4, <1>5

-----------------------------------------------------------------------------
\* The inductive invariant.

Empty == [i \in Fibers |-> <<>>]
NoRecords == [f \in Funcs |-> NoRecord]

(* Between requests nothing is live.  A session starts with the request in   *)
(* mode profile, and the profiler is only on in a session.                   *)
SessionInv ==
  /\ ~request => calls = Empty /\ sessions = 0
  /\ ProfileMode /\ request => sessions > 0
  /\ prof_active => sessions > 0
  /\ \A i \in Fibers : \A k \in 1 .. Len(calls[i]) : calls[i][k].session <= sessions

(* Before its first session a request has recorded nothing.                  *)
ZeroInv ==
  sessions = 0 => /\ prof_stack = <<>> /\ prof_funcs = NoRecords
                  /\ root_time = [f \in Funcs |-> 0]

(* Until it is switched, the program runs in the main fiber.                 *)
FiberInv == ~switched => fiber = 1 /\ \A i \in Fibers \ {1} : calls[i] = <<>>

(* While the profiler is on, the calls of its session are the innermost.     *)
SuffixInv ==
  prof_active =>
    \A i \in Fibers : \A k \in 1 .. Len(calls[i]) : \A j \in 1 .. k :
      calls[i][j].session = sessions => calls[i][k].session = sessions

(* Every caller is recorded in the history of the calls made.                *)
MadeInv ==
  \A i \in Fibers : \A k \in 1 .. Len(calls[i]) - 1 :
    <<calls[i][k].fn, calls[i][k + 1].fn>> \in made

(* In the session that starts with the request the frame at every depth is   *)
(* the call's at that depth.                                                 *)
PlainInv ==
  Plain /\ request /\ prof_active =>
    /\ \A f \in Funcs : handlers[f] # "none"
    /\ Depth = Len(calls[1])
    /\ \A k \in 1 .. Depth : /\ prof_stack[k].key = calls[1][k].fn
                             /\ calls[1][k].session = sessions /\ calls[1][k].observed

IInv ==
  /\ TypeOK /\ SessionInv /\ ZeroInv /\ FiberInv /\ SuffixInv /\ MadeInv /\ PlainInv
  /\ FramesAreObservedCalls /\ SelfTimesFit /\ EdgesAreCalls

-----------------------------------------------------------------------------
\* What a step does to the calls.

LEMMA CallsShape ==
  ASSUME TypeOK, NEW i \in Fibers
  PROVE  /\ calls[i] \in Seq(Calls) /\ Len(calls[i]) \in Nat
         /\ DOMAIN calls[i] = 1 .. Len(calls[i])
         /\ calls[i] # <<>> <=> Len(calls[i]) > 0
         /\ \A k \in 1 .. Len(calls[i]) : calls[i][k] \in Calls
<1>1. calls[i] \in Seq(Calls)
  BY DEF TypeOK
<1> QED
  BY <1>1, LenProperties, EmptySeq

\* The calls c and d differ at most in whether they ran.
SameCall(c, d) == c.fn = d.fn /\ c.observed = d.observed /\ c.session = d.session

LEMMA AfterRuns ==
  ASSUME TypeOK, NEW f, Runs(f)
  PROVE  /\ Len(Current) > 0
         /\ calls' \in [Fibers -> Seq(Calls)]
         /\ \A i \in Fibers :
              /\ Len(calls'[i]) = Len(calls[i])
              /\ \A k \in 1 .. Len(calls[i]) : SameCall(calls[i][k], calls'[i][k])
<1> DEFINE n == Len(Current)
           c == [Current[n] EXCEPT !.ran = TRUE]
<1>1. fiber \in Fibers
  BY DEF TypeOK
<1>2. Current \in Seq(Calls) /\ n \in Nat /\ n > 0 /\ n \in 1 .. n
  BY <1>1, CallsShape DEF Runs, Current
<1>3. Current[n] \in Calls
  BY <1>1, <1>2, CallsShape DEF Current
<1>4. c \in Calls /\ SameCall(Current[n], c)
  BY <1>3 DEF Calls, SameCall
<1>5. calls' = [calls EXCEPT ![fiber] = [Current EXCEPT ![n] = c]]
  BY DEF Runs, Current
<1> HIDE DEF c, n
<1>6. /\ [Current EXCEPT ![n] = c] \in Seq(Calls)
      /\ Len([Current EXCEPT ![n] = c]) = n
  BY <1>2, <1>4, ExceptSeq DEF n
<1>7. DOMAIN Current = 1 .. n
  BY <1>1, CallsShape DEF Current, n
<1>8. \A k \in 1 .. n : SameCall(Current[k], [Current EXCEPT ![n] = c][k])
  BY <1>2, <1>4, <1>7 DEF SameCall
<1>9. calls \in [Fibers -> Seq(Calls)]
  BY DEF TypeOK
<1>10. calls'[fiber] = [Current EXCEPT ![n] = c] /\ \A i \in Fibers \ {fiber} : calls'[i] = calls[i]
  BY <1>1, <1>5, <1>9
<1>11. calls' \in [Fibers -> Seq(Calls)]
  BY <1>1, <1>5, <1>6, <1>9
<1>12. ASSUME NEW i \in Fibers
       PROVE  /\ Len(calls'[i]) = Len(calls[i])
              /\ \A k \in 1 .. Len(calls[i]) : SameCall(calls[i][k], calls'[i][k])
  <2>1. CASE i = fiber
    BY <1>6, <1>8, <1>10, <2>1 DEF Current, n
  <2>2. CASE i # fiber
    BY <1>10, <2>2 DEF SameCall
  <2> QED
    BY <2>1, <2>2
<1> QED
  BY <1>2, <1>11, <1>12 DEF n

LEMMA AfterCall ==
  ASSUME TypeOK, NEW f \in Funcs, Call(f)
  PROVE  LET n == Len(Current)
             c == NewCall(f, ObserverInit(f))
         IN  /\ n \in Nat /\ c \in Calls
             /\ calls' \in [Fibers -> Seq(Calls)]
             /\ \A i \in Fibers \ {fiber} : calls'[i] = calls[i]
             /\ Len(calls'[fiber]) = n + 1
             /\ calls'[fiber][n + 1] = c
             /\ \A k \in 1 .. n : calls'[fiber][k] = calls[fiber][k]
<1> DEFINE c == NewCall(f, ObserverInit(f))
<1>1. fiber \in Fibers /\ calls \in [Fibers -> Seq(Calls)]
  BY DEF TypeOK
<1>2. Current \in Seq(Calls)
  BY <1>1 DEF Current
<1>3. c \in Calls
  BY DEF TypeOK, Calls, NewCall
<1>4. calls' = [calls EXCEPT ![fiber] = Append(Current, c)]
  BY DEF Call, Current
<1> HIDE DEF c
<1>5. /\ Append(Current, c) \in Seq(Calls) /\ Len(Current) \in Nat
      /\ Len(Append(Current, c)) = Len(Current) + 1
      /\ Append(Current, c)[Len(Current) + 1] = c
      /\ \A k \in 1 .. Len(Current) : Append(Current, c)[k] = Current[k]
  BY <1>2, <1>3, AppendProperties, LenProperties
<1>6. /\ calls' \in [Fibers -> Seq(Calls)]
      /\ calls'[fiber] = Append(Current, c)
      /\ \A i \in Fibers \ {fiber} : calls'[i] = calls[i]
  BY <1>1, <1>4, <1>5
<1> QED
  BY <1>3, <1>5, <1>6 DEF Current, c

LEMMA FrontOf ==
  ASSUME NEW S, NEW s \in Seq(S), Len(s) > 0
  PROVE  /\ Front(s) \in Seq(S) /\ Len(Front(s)) = Len(s) - 1
         /\ \A k \in 1 .. Len(s) - 1 : Front(s)[k] = s[k]
<1> DEFINE n == Len(s)
           t == SubSeq(s, 1, n - 1)
<1>1. n \in Nat /\ n > 0 /\ \A k \in 1 .. n - 1 : s[k] \in S
  BY LenProperties, ElementOfSeq
<1>2. n - 1 \in Int /\ 1 \in Int
  BY <1>1
<1>3. /\ t \in Seq(S)
      /\ Len(t) = IF 1 <= n - 1 THEN (n - 1) - 1 + 1 ELSE 0
      /\ \A k \in 1 .. (n - 1) - 1 + 1 : t[k] = s[1 + k - 1]
  BY <1>1, <1>2, SubSeqProperties
<1>4. Front(s) = t
  BY DEF Front
<1> HIDE DEF n, t
<1>5. Len(t) = n - 1
  BY <1>1, <1>3
<1>6. \A k \in 1 .. n - 1 : t[k] = s[k]
  BY <1>1, <1>3
<1> QED
  BY <1>3, <1>4, <1>5, <1>6 DEF n

LEMMA AfterReturn ==
  ASSUME TypeOK, Return
  PROVE  LET n == Len(Current)
         IN  /\ n \in Nat \ {0} /\ Current[n] \in Calls /\ Last(Current) = Current[n]
             /\ calls' \in [Fibers -> Seq(Calls)]
             /\ \A i \in Fibers \ {fiber} : calls'[i] = calls[i]
             /\ Len(calls'[fiber]) = n - 1
             /\ \A k \in 1 .. n - 1 : calls'[fiber][k] = calls[fiber][k]
<1>1. fiber \in Fibers /\ calls \in [Fibers -> Seq(Calls)]
  BY DEF TypeOK
<1>2. /\ Current \in Seq(Calls) /\ Len(Current) \in Nat /\ Len(Current) > 0
      /\ Current[Len(Current)] \in Calls
  BY <1>1, CallsShape DEF Return, Current
<1>3. calls' = [calls EXCEPT ![fiber] = Front(Current)]
  BY DEF Return, Current
<1>4. /\ Front(Current) \in Seq(Calls) /\ Len(Front(Current)) = Len(Current) - 1
      /\ \A k \in 1 .. Len(Current) - 1 : Front(Current)[k] = Current[k]
  BY <1>2, FrontOf
<1>5. /\ calls' \in [Fibers -> Seq(Calls)]
      /\ calls'[fiber] = Front(Current)
      /\ \A i \in Fibers \ {fiber} : calls'[i] = calls[i]
  BY <1>1, <1>3, <1>4
<1>6. Last(Current) = Current[Len(Current)]
  BY DEF Last
<1> DEFINE n == Len(Current)
<1> HIDE DEF n
<1>7. n \in Nat \ {0}
  BY <1>2 DEF n
<1>8. Len(calls'[fiber]) = n - 1 /\ \A k \in 1 .. n - 1 : calls'[fiber][k] = Current[k]
  BY <1>4, <1>5 DEF n
<1>9. Current = calls[fiber]
  BY DEF Current
<1> QED
  BY <1>2, <1>5, <1>6, <1>7, <1>8, <1>9 DEF n

-----------------------------------------------------------------------------
\* What the hooks do to the frames.

LEMMA FramesShape ==
  ASSUME TypeOK
  PROVE  /\ prof_stack \in Seq(ProfFrames) /\ Depth \in Nat
         /\ DOMAIN prof_stack = 1 .. Depth
         /\ \A k \in 1 .. Depth : prof_stack[k] \in ProfFrames
<1>1. prof_stack \in Seq(ProfFrames)
  BY DEF TypeOK
<1> QED
  BY <1>1, LenProperties, EmptySeq DEF Depth

LEMMA AfterBegin ==
  ASSUME TypeOK, prof_active, NEW f \in Funcs, Begin(f)
  PROVE  /\ prof_stack' \in Seq(ProfFrames) /\ Depth' = Depth + 1
         /\ prof_stack'[Depth + 1] = [key |-> f, t_start |-> now, children_time |-> 0]
         /\ \A k \in 1 .. Depth : prof_stack'[k] = prof_stack[k]
<1> DEFINE fr == [key |-> f, t_start |-> now, children_time |-> 0]
<1>1. fr \in ProfFrames
  BY ProfilerAssumption DEF TypeOK, ProfFrames
<1>2. prof_stack' = Append(prof_stack, fr)
  BY DEF Begin
<1> HIDE DEF fr
<1>3. prof_stack' \in Seq(ProfFrames)
  BY <1>1, <1>2, FramesShape, AppendProperties
<1>4. Depth' = Depth + 1 /\ prof_stack'[Depth + 1] = fr
  BY <1>1, <1>2, FramesShape, AppendProperties DEF Depth
<1>5. \A k \in 1 .. Depth : prof_stack'[k] = prof_stack[k]
  BY <1>1, <1>2, FramesShape, AppendProperties DEF Depth
<1> QED
  BY <1>3, <1>4, <1>5 DEF fr

\* The costs of the call that ends are naturals.
LEMMA CostsFit ==
  ASSUME TypeOK, SelfTimesFit, Pops
  PROVE  /\ Depth \in Nat \ {0} /\ prof_stack[Depth].key \in Funcs
         /\ prof_stack[Depth].t_start \in Nat /\ prof_stack[Depth].children_time \in Nat
         /\ Inclusive \in Nat /\ Self \in Nat
         /\ Inclusive = Self + prof_stack[Depth].children_time
         /\ now = prof_stack[Depth].t_start + Inclusive
<1>1. Depth \in Nat /\ Depth > 0 /\ prof_active
  BY FramesShape DEF Pops
<1>2. prof_stack[Depth] \in ProfFrames
  BY <1>1, FramesShape
<1>3. prof_stack[Depth].t_start + prof_stack[Depth].children_time <= now
  BY <1>1 DEF SelfTimesFit
<1>4. now \in Nat
  BY ProfilerAssumption DEF TypeOK
<1>5. /\ prof_stack[Depth].key \in Funcs /\ prof_stack[Depth].t_start \in Nat
      /\ prof_stack[Depth].children_time \in Nat
  BY <1>2 DEF ProfFrames
<1> QED
  BY <1>1, <1>3, <1>4, <1>5 DEF Inclusive, Self

\* A frame is popped; the one under it, if any, is charged for its callee.
LEMMA AfterEnd ==
  ASSUME TypeOK, SelfTimesFit, Pops, End
  PROVE  /\ prof_stack' \in Seq(ProfFrames) /\ Depth' = Depth - 1
         /\ \A k \in 1 .. Depth - 1 :
              /\ prof_stack'[k].key = prof_stack[k].key
              /\ prof_stack'[k].t_start = prof_stack[k].t_start
         /\ \A k \in 1 .. Depth - 2 : prof_stack'[k] = prof_stack[k]
         /\ Depth > 1 =>
              prof_stack'[Depth - 1].children_time = Parent.children_time + Inclusive
<1>1. /\ Depth \in Nat \ {0} /\ prof_stack \in Seq(ProfFrames) /\ Inclusive \in Nat
      /\ \A k \in 1 .. Depth : prof_stack[k] \in ProfFrames
  BY FramesShape, CostsFit
<1>2. CASE Depth > 1
  <2> DEFINE d == Depth - 1
             rest == Front(prof_stack)
             fr == [rest[d] EXCEPT !.children_time = @ + Inclusive]
  <2>1. d \in Nat /\ d \in 1 .. d /\ d \in 1 .. Depth
    BY <1>1, <1>2
  <2>2. rest \in Seq(ProfFrames) /\ Len(rest) = d /\ \A k \in 1 .. d : rest[k] = prof_stack[k]
    BY <1>1, FrontOf DEF Depth
  <2>3. rest[d] \in ProfFrames /\ rest[d] = Parent
    BY <1>1, <2>1, <2>2 DEF Parent
  <2>4. /\ fr \in ProfFrames /\ fr.key = Parent.key /\ fr.t_start = Parent.t_start
        /\ fr.children_time = Parent.children_time + Inclusive
    BY <1>1, <2>3 DEF ProfFrames
  <2>5. prof_stack' = [rest EXCEPT ![d] = fr]
    BY <1>2 DEF End, Pops
  <2>6. Parent = prof_stack[d]
    BY DEF Parent
  <2> HIDE DEF rest, fr
  <2>7. prof_stack' \in Seq(ProfFrames) /\ Len(prof_stack') = d
    BY <2>1, <2>2, <2>4, <2>5, ExceptSeq
  <2>8. DOMAIN rest = 1 .. d
    BY <2>2, LenProperties
  <2>9. prof_stack'[d] = fr /\ \A k \in 1 .. d : k # d => prof_stack'[k] = prof_stack[k]
    BY <2>1, <2>2, <2>5, <2>8
  <2> HIDE DEF d
  <2>10. \A k \in 1 .. d : /\ prof_stack'[k].key = prof_stack[k].key
                            /\ prof_stack'[k].t_start = prof_stack[k].t_start
    BY <2>4, <2>6, <2>9
  <2>11. \A k \in 1 .. d - 1 : prof_stack'[k] = prof_stack[k]
    BY <2>1, <2>9
  <2>12. Depth' = d
    BY <2>7 DEF Depth
  <2>13. prof_stack'[d].children_time = Parent.children_time + Inclusive
    BY <2>4, <2>9
  <2> QED
    BY <1>1, <2>7, <2>10, <2>11, <2>12, <2>13 DEF d
<1>3. CASE ~(Depth > 1)
  <2>0. prof_stack' = <<>>
    BY <1>3 DEF End
  <2>1. prof_stack' = <<>> /\ Depth = 1
    BY <1>1, <1>3, <2>0
  <2>2. Depth' = 0 /\ prof_stack' \in Seq(ProfFrames)
    BY <2>1, EmptySeq DEF Depth
  <2> QED
    BY <2>1, <2>2
<1> QED
  BY <1>2, <1>3

LEMMA RecordCharged ==
  ASSUME NEW rec \in [self_time : Nat, called : Nat, edges : [Funcs -> Edges]], NEW c \in Nat
  PROVE  LET r == [rec EXCEPT !.self_time = @ + c, !.called = @ + 1]
         IN  /\ r \in [self_time : Nat, called : Nat, edges : [Funcs -> Edges]]
             /\ r.self_time = rec.self_time + c /\ r.edges = rec.edges
<1> DEFINE r1 == [rec EXCEPT !.self_time = @ + c]
<1>1. /\ r1 \in [self_time : Nat, called : Nat, edges : [Funcs -> Edges]]
      /\ r1.self_time = rec.self_time + c /\ r1.edges = rec.edges
  OBVIOUS
<1>2. [rec EXCEPT !.self_time = @ + c, !.called = @ + 1] = [r1 EXCEPT !.called = rec.called + 1]
  OBVIOUS
<1> HIDE DEF r1
<1>3. LET r == [r1 EXCEPT !.called = rec.called + 1]
      IN  /\ r \in [self_time : Nat, called : Nat, edges : [Funcs -> Edges]]
          /\ r.self_time = r1.self_time /\ r.edges = r1.edges
  <2>1. rec.called + 1 \in Nat
    OBVIOUS
  <2> QED
    BY <1>1, <2>1
<1> QED
  BY <1>1, <1>2, <1>3

\* What an end adds to the records.
LEMMA AfterEndRecords ==
  ASSUME TypeOK, SelfTimesFit, Pops, End
  PROVE  LET key == prof_stack[Depth].key
         IN  /\ prof_funcs' \in [Funcs -> [self_time : Nat, called : Nat, edges : [Funcs -> Edges]]]
             /\ root_time' \in [Funcs -> Nat] /\ total_time' \in Nat
             /\ \A f \in Funcs :
                  prof_funcs'[f].self_time = prof_funcs[f].self_time + (IF f = key THEN Self ELSE 0)
             /\ \A f, g \in Funcs :
                  LET e == prof_funcs[f].edges[g]
                  IN  prof_funcs'[f].edges[g] =
                        IF Depth > 1 /\ f = Parent.key /\ g = key
                        THEN [count |-> e.count + 1, time |-> e.time + Inclusive] ELSE e
             /\ \A f \in Funcs :
                  root_time'[f] = root_time[f] + (IF Depth = 1 /\ f = key THEN Inclusive ELSE 0)
             /\ Depth > 1 => Parent.key \in Funcs
<1> DEFINE key == prof_stack[Depth].key
           Records == [self_time : Nat, called : Nat, edges : [Funcs -> Edges]]
           own == [prof_funcs EXCEPT ![key].self_time = @ + Self, ![key].called = @ + 1]
<1>1. Depth \in Nat \ {0} /\ key \in Funcs /\ Inclusive \in Nat /\ Self \in Nat
  BY CostsFit
<1>2. /\ prof_funcs \in [Funcs -> Records] /\ root_time \in [Funcs -> Nat] /\ total_time \in Nat
  BY DEF TypeOK
<1>3. total_time' = total_time + Self
  BY DEF End
<1> HIDE DEF key
<1>4. /\ own \in [Funcs -> Records]
      /\ \A f \in Funcs : /\ own[f].self_time = prof_funcs[f].self_time + (IF f = key THEN Self ELSE 0)
                          /\ own[f].edges = prof_funcs[f].edges
  <2> DEFINE r == [prof_funcs[key] EXCEPT !.self_time = @ + Self, !.called = @ + 1]
  <2>1. prof_funcs[key] \in Records
    BY <1>1, <1>2
  <2>2. /\ r \in Records /\ r.self_time = prof_funcs[key].self_time + Self
        /\ r.edges = prof_funcs[key].edges
    BY <1>1, <2>1, RecordCharged
  <2>3. own = [prof_funcs EXCEPT ![key] = r]
    BY <1>1, <1>2
  <2> HIDE DEF r, own
  <2>4. own[key] = r /\ \A f \in Funcs \ {key} : own[f] = prof_funcs[f]
    BY <1>1, <1>2, <2>3
  <2>5. own \in [Funcs -> Records]
    BY <1>2, <2>2, <2>3
  <2>6. \A f \in Funcs : prof_funcs[f].self_time \in Nat
    BY <1>2
  <2> QED
    BY <2>2, <2>4, <2>5, <2>6
<1>5. CASE Depth > 1
  <2> DEFINE p == Parent.key
             e == own[p].edges[key]
             n == [count |-> e.count + 1, time |-> e.time + Inclusive]
             r == [own[p] EXCEPT !.edges = [@ EXCEPT ![key] = n]]
  <2>1. p \in Funcs
    BY <1>1, <1>5, FramesShape DEF Parent, ProfFrames
  <2>2. prof_funcs' = [own EXCEPT ![p].edges[key] =
                         [count |-> @.count + 1, time |-> @.time + Inclusive]]
    BY <1>5 DEF End, key
  <2>3. root_time' = root_time
    BY <1>5 DEF End
  <2> HIDE DEF own, p
  <2>4. own[p] \in Records
    BY <1>4, <2>1
  <2>5. own[p].edges \in [Funcs -> Edges] /\ e \in Edges
    BY <1>1, <2>4
  <2>6. n \in Edges
    BY <1>1, <2>5 DEF Edges
  <2>7. prof_funcs' = [own EXCEPT ![p] = r]
    BY <1>4, <2>1, <2>2
  <2> HIDE DEF n
  <2>8. [own[p].edges EXCEPT ![key] = n] \in [Funcs -> Edges]
    BY <2>5, <2>6
  <2>9. /\ r \in Records /\ r.self_time = own[p].self_time
        /\ r.edges = [own[p].edges EXCEPT ![key] = n]
    BY <2>4, <2>8
  <2> HIDE DEF r
  <2>10. prof_funcs' \in [Funcs -> Records]
    BY <1>4, <2>7, <2>9
  <2>11. prof_funcs'[p] = r /\ \A f \in Funcs \ {p} : prof_funcs'[f] = own[f]
    BY <1>4, <2>1, <2>7
  <2>12. \A f \in Funcs : prof_funcs'[f].self_time = own[f].self_time
    BY <2>9, <2>11
  <2>13. \A f, g \in Funcs :
           prof_funcs'[f].edges[g] = IF f = p /\ g = key THEN n ELSE own[f].edges[g]
    BY <1>1, <2>1, <2>5, <2>9, <2>11
  <2>14. \A f \in Funcs : root_time[f] \in Nat
    BY <1>2
  <2>15. \A f \in Funcs : own[f].edges = prof_funcs[f].edges
    BY <1>4
  <2>16. \A f, g \in Funcs :
           LET d == prof_funcs[f].edges[g]
           IN  prof_funcs'[f].edges[g] =
                 IF Depth > 1 /\ f = p /\ g = key
                 THEN [count |-> d.count + 1, time |-> d.time + Inclusive] ELSE d
    BY <1>5, <2>13, <2>15 DEF n
  <2> QED
    BY <1>1, <1>2, <1>3, <1>4, <1>5, <2>1, <2>3, <2>10, <2>12, <2>14, <2>16 DEF key, p
<1>6. CASE ~(Depth > 1)
  <2>1. prof_funcs' = own /\ root_time' = [root_time EXCEPT ![key] = @ + Inclusive]
    BY <1>6 DEF End, key
  <2>2. Depth = 1
    BY <1>1, <1>6
  <2> HIDE DEF own
  <2>3. root_time' \in [Funcs -> Nat] /\ \A f \in Funcs :
          root_time'[f] = root_time[f] + (IF f = key THEN Inclusive ELSE 0)
    BY <1>1, <1>2, <2>1
  <2> QED
    BY <1>1, <1>2, <1>3, <1>4, <2>1, <2>2, <2>3 DEF key
<1> QED
  BY <1>5, <1>6

-----------------------------------------------------------------------------
\* Every step keeps the types.

LEMMA Bounds ==
  /\ MaxCalls \in Nat /\ MaxTime \in Nat /\ MaxSessions \in Nat \ {0}
  /\ 1 \in Fibers /\ ProfileMode \in BOOLEAN
BY ProfilerAssumption

\* What a request begins with is of the right types.
LEMMA FreshTypes ==
  /\ <<>> \in Seq(ProfFrames) /\ Empty \in [Fibers -> Seq(Calls)]
  /\ [f \in Funcs |-> "unset"] \in [Funcs -> {"unset", "none", "both"}]
  /\ [f \in Funcs |-> 0] \in [Funcs -> Nat]
  /\ NoRecords \in [Funcs -> [self_time : Nat, called : Nat, edges : [Funcs -> Edges]]]
  /\ 0 \in 0 .. MaxTime /\ 0 \in 0 .. MaxCalls /\ {0, 1} \subseteq 0 .. MaxSessions
<1>1. <<>> \in Seq(Calls) /\ <<>> \in Seq(ProfFrames)
  BY EmptySeq
<1>2. NoRecord \in [self_time : Nat, called : Nat, edges : [Funcs -> Edges]]
  BY DEF NoRecord, NoEdge, Edges
<1>3. Empty \in [Fibers -> Seq(Calls)]
  BY <1>1 DEF Empty
<1>4. NoRecords \in [Funcs -> [self_time : Nat, called : Nat, edges : [Funcs -> Edges]]]
  BY <1>2 DEF NoRecords
<1> QED
  BY <1>1, <1>3, <1>4, Bounds

LEMMA InitType == Init => TypeOK
<1> SUFFICES ASSUME Init PROVE TypeOK
  OBVIOUS
<1> DEFINE unset == [f \in Funcs |-> "unset"]
           zeros == [f \in Funcs |-> 0]
<1>1. calls = Empty /\ prof_funcs = NoRecords /\ handlers = unset /\ root_time = zeros
  BY DEF Init, Empty, NoRecords
<1>2. unset \in [Funcs -> {"unset", "none", "both"}] /\ zeros \in [Funcs -> Nat]
  OBVIOUS
<1> HIDE DEF unset, zeros
<1> QED
  BY <1>1, <1>2, FreshTypes, Bounds DEF Init, TypeOK

\* The steps of the engine and of the API, by the calls they leave.
LEMMA CallType ==
  ASSUME TypeOK, NEW f \in Funcs, Call(f)
  PROVE  TypeOK'
<1>1. calls' \in [Fibers -> Seq(Calls)]
  BY AfterCall
<1>2. prof_stack' \in Seq(ProfFrames)
  <2>1. CASE prof_active /\ ObserverInit(f) = "both"
    BY <2>1, AfterBegin DEF Call
  <2>2. CASE ~(prof_active /\ ObserverInit(f) = "both")
    BY <2>2 DEF Call, Begin, TypeOK
  <2> QED
    BY <2>1, <2>2
<1>3. handlers' \in [Funcs -> {"unset", "none", "both"}]
  BY DEF Call, ObserverInit, TypeOK
<1>4. made' \subseteq Funcs \X Funcs
  <2>1. Callers \subseteq Funcs
    <3>1. CASE Current # <<>>
      <4>1. Last(Current) \in Calls
        BY <3>1, CallsShape DEF Current, Last, TypeOK
      <4> QED
        BY <3>1, <4>1 DEF Callers, Calls
    <3>2. CASE Current = <<>>
      BY <3>2, ProfilerAssumption DEF Callers, TypeOK
    <3> QED
      BY <3>1, <3>2
  <2> QED
    BY <2>1 DEF Call, TypeOK
<1>5. begun' \in 0 .. MaxCalls
  BY Bounds DEF Call, TypeOK
<1> QED
  BY <1>1, <1>2, <1>3, <1>4, <1>5 DEF Call, TypeOK

LEMMA ReturnType ==
  ASSUME TypeOK, SelfTimesFit, Return
  PROVE  TypeOK'
<1>1. calls' \in [Fibers -> Seq(Calls)]
  BY AfterReturn
<1>2. /\ prof_stack' \in Seq(ProfFrames) /\ total_time' \in Nat /\ root_time' \in [Funcs -> Nat]
      /\ prof_funcs' \in [Funcs -> [self_time : Nat, called : Nat, edges : [Funcs -> Edges]]]
  <2>1. CASE End /\ Pops
    BY <2>1, AfterEnd, AfterEndRecords
  <2>2. CASE ~(End /\ Pops)
    BY <2>2 DEF Return, End, TypeOK
  <2> QED
    BY <2>1, <2>2
<1> QED
  BY <1>1, <1>2 DEF Return, callHistory, TypeOK

LEMMA ApiType ==
  ASSUME TypeOK, XdebugStartTrace \/ XdebugStopTrace \/ SwitchFiber
  PROVE  TypeOK'
<1>1. CASE XdebugStartTrace
  <2>1. calls' \in [Fibers -> Seq(Calls)]
    BY <1>1, AfterRuns DEF XdebugStartTrace
  <2>2. sessions' \in 0 .. MaxSessions /\ prof_stack' \in Seq(ProfFrames)
    BY <1>1, Bounds, EmptySeq DEF XdebugStartTrace, Start, TypeOK
  <2> QED
    BY <1>1, <2>1, <2>2 DEF XdebugStartTrace, Start, callHistory, TypeOK
<1>2. CASE XdebugStopTrace
  <2>1. calls' \in [Fibers -> Seq(Calls)]
    BY <1>2, AfterRuns DEF XdebugStopTrace
  <2> QED
    BY <1>2, <2>1 DEF XdebugStopTrace, callHistory, TypeOK
<1>3. CASE SwitchFiber
  <2>1. calls' \in [Fibers -> Seq(Calls)]
    BY <1>3, AfterRuns DEF SwitchFiber, TypeOK
  <2> QED
    BY <1>3, <2>1 DEF SwitchFiber, profVars, callHistory, TypeOK
<1> QED
  BY <1>1, <1>2, <1>3

LEMMA RequestType ==
  ASSUME TypeOK, RInit \/ RShutdown \/ Tick \/ UNCHANGED vars
  PROVE  TypeOK'
<1>2. CASE RInit
  <2> DEFINE unset == [f \in Funcs |-> "unset"]
  <2>1. handlers' = unset
    BY <1>2 DEF RInit
  <2>2. unset \in [Funcs -> {"unset", "none", "both"}]
    OBVIOUS
  <2> HIDE DEF unset
  <2>3. /\ request' \in BOOLEAN /\ prof_active' \in BOOLEAN /\ switched' = switched
        /\ prof_stack' = <<>> /\ sessions' \in {0, 1} /\ prof_funcs' = prof_funcs
        /\ total_time' \in {total_time, 0}
    BY <1>2 DEF RInit, Start
  <2>4. UNCHANGED <<now, calls, fiber, begun, made, root_time>>
    BY <1>2 DEF RInit, callHistory
  <2> QED
    <3>1. {request, prof_active, switched}' \subseteq BOOLEAN
      BY <2>3 DEF TypeOK
    <3>2. total_time' \in Nat /\ sessions' \in 0 .. MaxSessions /\ prof_stack' \in Seq(ProfFrames)
      BY <2>3, FreshTypes DEF TypeOK
    <3>3. handlers' \in [Funcs -> {"unset", "none", "both"}]
      BY <2>1, <2>2
    <3> QED
      BY <2>3, <2>4, <3>1, <3>2, <3>3 DEF TypeOK
<1>3. CASE RShutdown
  <2> DEFINE zeros == [f \in Funcs |-> 0]
  <2>1. prof_funcs' = NoRecords /\ root_time' = zeros
    BY <1>3 DEF RShutdown, NoRecords
  <2>2. zeros \in [Funcs -> Nat]
    OBVIOUS
  <2> HIDE DEF zeros
  <2>3. /\ request' = FALSE /\ fiber' = 1 /\ prof_active' = FALSE /\ prof_stack' = <<>>
        /\ now' = 0 /\ begun' = 0 /\ made' = {} /\ sessions' = 0 /\ switched' = FALSE
        /\ UNCHANGED <<calls, handlers, total_time>>
    BY <1>3 DEF RShutdown
  <2> QED
    <3>1. handlers' = handlers /\ calls' = calls /\ total_time' = total_time
      BY <2>3
    <3>2. {request, prof_active, switched}' \subseteq BOOLEAN
      BY <2>3
    <3>3. /\ now' \in 0 .. MaxTime /\ sessions' \in 0 .. MaxSessions /\ begun' \in 0 .. MaxCalls
          /\ made' \subseteq Funcs \X Funcs /\ fiber' \in Fibers
      BY <2>3, FreshTypes, Bounds
    <3>4. prof_stack' \in Seq(ProfFrames)
      BY <2>3, FreshTypes
    <3>5. /\ prof_funcs' \in [Funcs -> [self_time : Nat, called : Nat, edges : [Funcs -> Edges]]]
          /\ root_time' \in [Funcs -> Nat]
      BY <2>1, <2>2, FreshTypes
    <3> QED
      BY <3>1, <3>2, <3>3, <3>4, <3>5 DEF TypeOK
<1>4. CASE Tick
  BY <1>4, Bounds DEF Tick, profVars, callHistory, TypeOK
<1>5. CASE UNCHANGED vars
  BY <1>5 DEF vars, engineVars, profVars, callHistory, TypeOK
<1> QED
  BY <1>2, <1>3, <1>4, <1>5

(* Every step keeps the types: the costs it subtracts fit.                   *)
LEMMA TypeStep ==
  ASSUME TypeOK, SelfTimesFit, [Next]_vars
  PROVE  TypeOK'
BY CallType, ReturnType, ApiType, RequestType DEF Next

-----------------------------------------------------------------------------
\* Every step keeps the costs of the open frames.

\* What a step that leaves the profiler on does to its frames.
LEMMA FramesMove ==
  ASSUME TypeOK, [Next]_vars, prof_active'
  PROVE  \/ prof_stack' = <<>>
         \/ prof_active /\ prof_stack' = prof_stack /\ now' \in {now, now + 1}
         \/ prof_active /\ now' = now /\ \E f \in Funcs : Begin(f)
         \/ prof_active /\ now' = now /\ End /\ Pops
<1>1. ASSUME NEW f \in Funcs, Call(f)
      PROVE  prof_active /\ now' = now /\ (prof_stack' = prof_stack \/ Begin(f))
  BY <1>1 DEF Call
<1>2. CASE Return
  BY <1>2 DEF Return, End
<1>3. CASE Tick
  BY <1>3 DEF Tick, profVars
<1>4. CASE XdebugStartTrace \/ RInit
  BY <1>4 DEF XdebugStartTrace, RInit, Start
<1>5. CASE XdebugStopTrace \/ RShutdown
  BY <1>5 DEF XdebugStopTrace, RShutdown
<1>6. CASE SwitchFiber
  BY <1>6 DEF SwitchFiber, profVars
<1>7. CASE UNCHANGED vars
  BY <1>7 DEF vars, engineVars, profVars
<1> QED
  BY <1>1, <1>2, <1>3, <1>4, <1>5, <1>6, <1>7 DEF Next

LEMMA CostsStep ==
  ASSUME TypeOK, SelfTimesFit, [Next]_vars
  PROVE  SelfTimesFit'
<1> SUFFICES ASSUME prof_active', NEW k \in 1 .. Depth'
             PROVE  prof_stack'[k].t_start + prof_stack'[k].children_time
                      <= (IF k = Depth' THEN now' ELSE prof_stack'[k + 1].t_start)
  BY DEF SelfTimesFit
<1>1. now \in Nat /\ Depth \in Nat
  BY Bounds, FramesShape DEF TypeOK
<1>2. \A j \in 1 .. Depth : /\ prof_stack[j].t_start \in Nat
                            /\ prof_stack[j].children_time \in Nat
  BY FramesShape DEF ProfFrames
<1>3. prof_active => \A j \in 1 .. Depth :
        prof_stack[j].t_start + prof_stack[j].children_time
          <= (IF j = Depth THEN now ELSE prof_stack[j + 1].t_start)
  BY DEF SelfTimesFit
<1>4. CASE prof_stack' = <<>>
  <2>1. Depth' = 0
    BY <1>4, EmptySeq DEF Depth
  <2> QED
    BY <2>1
<1>5. CASE prof_active /\ prof_stack' = prof_stack /\ now' \in {now, now + 1}
  <2>1. Depth' = Depth
    BY <1>5 DEF Depth
  <2> QED
    BY <1>1, <1>2, <1>3, <1>5, <2>1
<1>6. ASSUME prof_active, now' = now, NEW f \in Funcs, Begin(f)
      PROVE  prof_stack'[k].t_start + prof_stack'[k].children_time
               <= (IF k = Depth' THEN now' ELSE prof_stack'[k + 1].t_start)
  <2>1. /\ Depth' = Depth + 1
        /\ prof_stack'[Depth + 1].t_start = now /\ prof_stack'[Depth + 1].children_time = 0
        /\ \A j \in 1 .. Depth : prof_stack'[j] = prof_stack[j]
    <3>1. /\ prof_stack'[Depth + 1] = [key |-> f, t_start |-> now, children_time |-> 0]
          /\ Depth' = Depth + 1 /\ \A j \in 1 .. Depth : prof_stack'[j] = prof_stack[j]
      BY <1>6, AfterBegin
    <3> QED
      BY <3>1
  <2>2. CASE k = Depth + 1
    BY <1>1, <1>6, <2>1, <2>2
  <2>3. CASE k \in 1 .. Depth
    <3>1. prof_stack[k].t_start + prof_stack[k].children_time
            <= (IF k = Depth THEN now ELSE prof_stack[k + 1].t_start)
      BY <1>3, <1>6, <2>3
    <3>2. CASE k = Depth
      BY <1>1, <2>1, <2>3, <3>1, <3>2
    <3>3. CASE k # Depth
      <4>1. k + 1 \in 1 .. Depth /\ k # Depth'
        BY <1>1, <2>1, <2>3, <3>3
      <4> QED
        BY <2>1, <2>3, <3>1, <3>3, <4>1
    <3> QED
      BY <3>2, <3>3
  <2> QED
    BY <1>1, <2>1, <2>2, <2>3
<1>7. CASE prof_active /\ now' = now /\ End /\ Pops
  <2>1. /\ Depth' = Depth - 1
        /\ \A j \in 1 .. Depth - 1 : prof_stack'[j].t_start = prof_stack[j].t_start
        /\ \A j \in 1 .. Depth - 2 : prof_stack'[j] = prof_stack[j]
        /\ Depth > 1 =>
             prof_stack'[Depth - 1].children_time = prof_stack[Depth - 1].children_time + Inclusive
    BY <1>7, AfterEnd DEF Parent
  <2>2. k \in 1 .. Depth - 1
    BY <2>1
  <2>3. /\ prof_stack[Depth].t_start \in Nat /\ Inclusive \in Nat
        /\ now = prof_stack[Depth].t_start + Inclusive
    BY <1>7, CostsFit
  <2>4. k \in 1 .. Depth /\ k # Depth /\ Depth > 1
    BY <1>1, <2>2
  <2>5. prof_stack[k].t_start + prof_stack[k].children_time <= prof_stack[k + 1].t_start
    BY <1>3, <1>7, <2>4
  <2>6. CASE k = Depth - 1
    <3>1. k + 1 = Depth /\ k = Depth'
      BY <1>1, <2>1, <2>6
    <3>2. prof_stack'[k].t_start = prof_stack[k].t_start
      BY <2>1, <2>2
    <3>3. prof_stack'[k].children_time = prof_stack[k].children_time + Inclusive
      BY <2>1, <2>4, <2>6
    <3> QED
      BY <1>2, <1>7, <2>3, <2>4, <2>5, <3>1, <3>2, <3>3
  <2>7. CASE k # Depth - 1
    <3>1. k \in 1 .. Depth - 2 /\ k + 1 \in 1 .. Depth - 1 /\ k # Depth'
      BY <1>1, <2>1, <2>2, <2>7
    <3> QED
      BY <2>1, <2>5, <3>1
  <2> QED
    BY <2>6, <2>7
<1> QED
  BY <1>4, <1>5, <1>6, <1>7, FramesMove

-----------------------------------------------------------------------------
\* Every step keeps what is said of sessions, fibers and calls made.

\* What a step does to the calls and the session.
LEMMA CallsMove ==
  ASSUME TypeOK, [Next]_vars
  PROVE  \/ \E f \in Funcs : Call(f)
         \/ Return
         \/ /\ \A i \in Fibers :
                 /\ Len(calls'[i]) = Len(calls[i])
                 /\ \A k \in 1 .. Len(calls[i]) : SameCall(calls[i][k], calls'[i][k])
            /\ calls' = calls \/ Len(Current) > 0
            /\ XdebugStartTrace \/ XdebugStopTrace \/ SwitchFiber \/ Tick
               \/ RInit \/ RShutdown \/ UNCHANGED vars
<1>0. calls' = calls => \A i \in Fibers :
        /\ Len(calls'[i]) = Len(calls[i])
        /\ \A k \in 1 .. Len(calls[i]) : SameCall(calls[i][k], calls'[i][k])
  BY DEF SameCall
<1>1. CASE XdebugStartTrace
  BY <1>1, AfterRuns DEF XdebugStartTrace
<1>2. CASE XdebugStopTrace
  BY <1>2, AfterRuns DEF XdebugStopTrace
<1>3. CASE SwitchFiber
  BY <1>0, <1>3, AfterRuns DEF SwitchFiber
<1>4. CASE Tick \/ RInit \/ RShutdown \/ UNCHANGED vars
  BY <1>0, <1>4 DEF Tick, RInit, RShutdown, vars, engineVars
<1> QED
  BY <1>1, <1>2, <1>3, <1>4 DEF Next

LEMMA SessionStep ==
  ASSUME TypeOK, SessionInv, [Next]_vars
  PROVE  SessionInv'
<1>0. fiber \in Fibers /\ sessions \in Nat /\ \A i \in Fibers : Len(calls[i]) \in Nat
  BY Bounds, CallsShape DEF TypeOK
<1>1. ASSUME NEW f \in Funcs, Call(f)
      PROVE  SessionInv'
  <2> DEFINE n == Len(Current)
             c == NewCall(f, ObserverInit(f))
  <2>1. /\ n \in Nat /\ Len(calls'[fiber]) = n + 1 /\ calls'[fiber][n + 1] = c
        /\ \A k \in 1 .. n : calls'[fiber][k] = calls[fiber][k]
        /\ \A i \in Fibers \ {fiber} : calls'[i] = calls[i]
    BY <1>1, AfterCall
  <2>2. c.session <= sessions
    BY <1>0 DEF NewCall
  <2>3. /\ request /\ request' = request /\ sessions' = sessions
        /\ prof_active' = prof_active
    BY <1>1 DEF Call
  <2> HIDE DEF c
  <2>4. ASSUME NEW i \in Fibers, NEW k \in 1 .. Len(calls'[i])
        PROVE  calls'[i][k].session <= sessions
    <3>1. CASE i # fiber
      BY <2>1, <3>1 DEF SessionInv
    <3>2. CASE i = fiber
      <4>1. k \in 1 .. n \/ k = n + 1
        BY <2>1, <3>2
      <4> QED
        BY <2>1, <2>2, <3>2, <4>1, <1>0 DEF SessionInv, Current
    <3> QED
      BY <3>1, <3>2
  <2> QED
    BY <2>3, <2>4 DEF SessionInv
<1>2. CASE Return
  <2> DEFINE n == Len(Current)
  <2>1. /\ n \in Nat \ {0} /\ Len(calls'[fiber]) = n - 1
        /\ \A k \in 1 .. n - 1 : calls'[fiber][k] = calls[fiber][k]
        /\ \A i \in Fibers \ {fiber} : calls'[i] = calls[i]
    BY <1>2, AfterReturn
  <2>2. request' = request /\ sessions' = sessions /\ prof_active' = prof_active
    BY <1>2 DEF Return
  <2>3. request
    BY <1>0, <2>1, EmptySeq DEF SessionInv, Empty, Current
  <2>4. ASSUME NEW i \in Fibers, NEW k \in 1 .. Len(calls'[i])
        PROVE  calls'[i][k].session <= sessions
    <3>1. k \in 1 .. Len(calls[i]) /\ calls'[i][k] = calls[i][k]
      <4>1. CASE i = fiber
        <5>1. n = Len(calls[i])
          BY <4>1 DEF Current
        <5> HIDE DEF n
        <5>2. k \in 1 .. n - 1 /\ k \in 1 .. n
          BY <2>1, <4>1
        <5> QED
          BY <2>1, <4>1, <5>1, <5>2
      <4>2. CASE i # fiber
        BY <2>1, <4>2
      <4> QED
        BY <4>1, <4>2
    <3> QED
      BY <1>0, <3>1 DEF SessionInv
  <2> QED
    BY <2>2, <2>3, <2>4 DEF SessionInv
<1>3. ASSUME \A i \in Fibers :
               /\ Len(calls'[i]) = Len(calls[i])
               /\ \A k \in 1 .. Len(calls[i]) : SameCall(calls[i][k], calls'[i][k]),
             calls' = calls \/ Len(Current) > 0,
             XdebugStartTrace \/ XdebugStopTrace \/ SwitchFiber \/ Tick
               \/ RInit \/ RShutdown \/ UNCHANGED vars
      PROVE  SessionInv'
  <2>1. ASSUME sessions' >= sessions
        PROVE  \A i \in Fibers : \A k \in 1 .. Len(calls'[i]) : calls'[i][k].session <= sessions'
    <3> SUFFICES ASSUME NEW i \in Fibers, NEW k \in 1 .. Len(calls'[i])
                 PROVE  calls'[i][k].session <= sessions'
      OBVIOUS
    <3>1. calls'[i][k].session = calls[i][k].session /\ calls[i][k] \in Calls
      BY <1>3, CallsShape DEF SameCall
    <3>2. calls[i][k].session <= sessions /\ calls[i][k].session \in Nat
      BY <1>3, <3>1 DEF SessionInv, Calls
    <3>3. sessions' \in Int
      BY <1>0, <1>3 DEF XdebugStartTrace, XdebugStopTrace, SwitchFiber, Tick, RInit, RShutdown,
                       vars
    <3> QED
      BY <1>0, <2>1, <3>1, <3>2, <3>3
  <2>2. Len(Current) > 0 => request
    BY <1>0, EmptySeq DEF SessionInv, Empty, Current
  <2>3. CASE XdebugStartTrace
    BY <1>0, <2>1, <2>2, <2>3, AfterRuns DEF XdebugStartTrace, Start, SessionInv
  <2>4. CASE XdebugStopTrace
    BY <1>0, <2>1, <2>2, <2>4, AfterRuns DEF XdebugStopTrace, SessionInv
  <2>5. CASE SwitchFiber
    BY <1>0, <2>1, <2>5 DEF SwitchFiber, profVars, SessionInv
  <2>6. CASE Tick
    BY <1>0, <2>1, <2>6 DEF Tick, profVars, SessionInv
  <2>7. CASE UNCHANGED vars
    BY <1>0, <2>1, <2>7 DEF vars, engineVars, profVars, SessionInv
  <2>8. CASE RInit
    <3>1. calls' = Empty
      BY <2>8 DEF RInit, SessionInv
    <3>2. \A i \in Fibers : Len(calls'[i]) = 0
      BY <3>1, EmptySeq DEF Empty
    <3> QED
      BY <2>8, <3>2 DEF RInit, Start, SessionInv
  <2>9. CASE RShutdown
    <3>1. /\ calls' = calls /\ ~request' /\ sessions' = 0 /\ ~prof_active'
          /\ \A i \in Fibers : calls[i] = <<>>
      BY <2>9 DEF RShutdown
    <3>2. calls' = Empty
      <4>1. calls = [i \in Fibers |-> calls[i]]
        BY DEF TypeOK
      <4> QED
        BY <3>1, <4>1 DEF Empty
    <3>3. \A i \in Fibers : Len(calls'[i]) = 0
      BY <3>1, EmptySeq
    <3> QED
      BY <3>1, <3>2, <3>3 DEF SessionInv
  <2> QED
    BY <1>3, <2>3, <2>4, <2>5, <2>6, <2>7, <2>8, <2>9
<1> QED
  BY <1>1, <1>2, <1>3, CallsMove

LEMMA ZeroStep ==
  ASSUME TypeOK, SessionInv, ZeroInv, [Next]_vars
  PROVE  ZeroInv'
<1>1. ASSUME NEW f \in Funcs, Call(f)
      PROVE  ZeroInv'
  BY <1>1 DEF Call, Begin, SessionInv, ZeroInv
<1>2. CASE Return
  <2> SUFFICES ASSUME sessions' = 0
               PROVE  UNCHANGED <<sessions, prof_stack, prof_funcs, root_time>>
    BY DEF ZeroInv
  <2>1. sessions' = sessions /\ ~Pops
    BY <1>2 DEF Return, Pops, SessionInv
  <2> QED
    BY <1>2, <2>1 DEF Return, End
<1>3. CASE XdebugStartTrace
  BY <1>3, Bounds DEF XdebugStartTrace, TypeOK, ZeroInv
<1>4. CASE XdebugStopTrace \/ SwitchFiber \/ Tick \/ UNCHANGED vars
  BY <1>4 DEF XdebugStopTrace, SwitchFiber, Tick, vars, engineVars, profVars, ZeroInv
<1>5. CASE RInit
  BY <1>5 DEF RInit, Start, SessionInv, ZeroInv
<1>6. CASE RShutdown
  BY <1>6 DEF RShutdown, ZeroInv, NoRecords
<1> QED
  BY <1>1, <1>2, <1>3, <1>4, <1>5, <1>6 DEF Next

\* No step puts a call on another fiber than the running one.
LEMMA EmptyStays ==
  ASSUME TypeOK, TypeOK', [Next]_vars, NEW i \in Fibers \ {fiber}, calls[i] = <<>>
  PROVE  calls'[i] = <<>>
<1>1. ASSUME NEW f \in Funcs, Call(f)
      PROVE  calls'[i] = <<>>
  BY <1>1, AfterCall
<1>2. CASE Return
  BY <1>2, AfterReturn DEF Return, Current
<1>3. ASSUME \A j \in Fibers : Len(calls'[j]) = Len(calls[j])
      PROVE  calls'[i] = <<>>
  <2>1. calls'[i] \in Seq(Calls)
    BY DEF TypeOK
  <2> QED
    BY <1>3, <2>1, EmptySeq
<1> QED
  BY <1>1, <1>2, <1>3, CallsMove

LEMMA FiberStep ==
  ASSUME TypeOK, TypeOK', FiberInv, [Next]_vars
  PROVE  FiberInv'
<1>1. \A i \in Fibers \ {fiber} : calls[i] = <<>> => calls'[i] = <<>>
  BY EmptyStays
<1>2. CASE SwitchFiber
  BY <1>2 DEF SwitchFiber, FiberInv
<1>3. CASE RShutdown
  BY <1>3 DEF RShutdown, FiberInv
<1>4. ASSUME fiber' = fiber, switched' = switched
      PROVE  FiberInv'
  BY <1>1, <1>4 DEF FiberInv
<1>5. (\E f \in Funcs : Call(f)) \/ Return \/ Tick \/ XdebugStartTrace \/ XdebugStopTrace
        \/ RInit \/ UNCHANGED vars => fiber' = fiber /\ switched' = switched
  BY DEF Call, Return, Tick, XdebugStartTrace, XdebugStopTrace, RInit, vars, engineVars
<1> QED
  BY <1>2, <1>3, <1>4, <1>5 DEF Next

LEMMA SuffixStep ==
  ASSUME TypeOK, SessionInv, SuffixInv, [Next]_vars
  PROVE  SuffixInv'
<1> SUFFICES ASSUME prof_active', NEW i \in Fibers, NEW k \in 1 .. Len(calls'[i]),
                    NEW j \in 1 .. k, calls'[i][j].session = sessions'
             PROVE  calls'[i][k].session = sessions'
  BY DEF SuffixInv
<1>0. fiber \in Fibers /\ sessions \in Nat /\ Len(calls[i]) \in Nat
  BY Bounds, CallsShape DEF TypeOK
<1>1. ASSUME NEW f \in Funcs, Call(f)
      PROVE  calls'[i][k].session = sessions'
  <2> DEFINE n == Len(Current)
             c == NewCall(f, ObserverInit(f))
  <2>1. /\ n \in Nat /\ Len(calls'[fiber]) = n + 1 /\ calls'[fiber][n + 1] = c
        /\ \A l \in 1 .. n : calls'[fiber][l] = calls[fiber][l]
        /\ \A l \in Fibers \ {fiber} : calls'[l] = calls[l]
    BY <1>1, AfterCall
  <2>2. prof_active /\ sessions' = sessions /\ c.session = sessions
    BY <1>1 DEF Call, NewCall
  <2> HIDE DEF c
  <2>3. CASE i # fiber
    BY <2>1, <2>2, <2>3 DEF SuffixInv
  <2>4. CASE i = fiber /\ k = n + 1
    BY <2>1, <2>2, <2>4
  <2>5. CASE i = fiber /\ k \in 1 .. n
    <3>1. j \in 1 .. n
      BY <2>1, <2>5
    <3> QED
      BY <2>1, <2>2, <2>5, <3>1 DEF SuffixInv, Current
  <2>6. i = fiber => k = n + 1 \/ k \in 1 .. n
    BY <2>1
  <2> QED
    BY <2>3, <2>4, <2>5, <2>6
<1>2. CASE Return
  <2> DEFINE n == Len(Current)
  <2>1. /\ n \in Nat \ {0} /\ Len(calls'[fiber]) = n - 1
        /\ \A l \in 1 .. n - 1 : calls'[fiber][l] = calls[fiber][l]
        /\ \A l \in Fibers \ {fiber} : calls'[l] = calls[l]
    BY <1>2, AfterReturn
  <2>2. prof_active /\ sessions' = sessions
    BY <1>2 DEF Return
  <2>3. CASE i # fiber
    BY <2>1, <2>2, <2>3 DEF SuffixInv
  <2>4. CASE i = fiber
    <3>1. k \in 1 .. n - 1 /\ j \in 1 .. n - 1 /\ k \in 1 .. n
      BY <2>1, <2>4
    <3>2. calls'[i][k] = calls[i][k] /\ calls'[i][j] = calls[i][j]
      BY <2>1, <2>4, <3>1
    <3>3. k \in 1 .. Len(calls[i])
      BY <2>4, <3>1 DEF Current
    <3> QED
      BY <2>2, <3>2, <3>3 DEF SuffixInv
  <2> QED
    BY <2>3, <2>4
<1>3. ASSUME \A l \in Fibers :
               /\ Len(calls'[l]) = Len(calls[l])
               /\ \A m \in 1 .. Len(calls[l]) : SameCall(calls[l][m], calls'[l][m]),
             XdebugStartTrace \/ XdebugStopTrace \/ SwitchFiber \/ Tick
               \/ RInit \/ RShutdown \/ UNCHANGED vars
      PROVE  calls'[i][k].session = sessions'
  <2>1. j \in 1 .. Len(calls[i]) /\ k \in 1 .. Len(calls[i])
    BY <1>0, <1>3
  <2>2. calls'[i][j].session = calls[i][j].session /\ calls'[i][k].session = calls[i][k].session
    BY <1>3, <2>1 DEF SameCall
  <2>3. CASE XdebugStartTrace
    <3>1. sessions' = sessions + 1
      BY <2>3 DEF XdebugStartTrace
    <3>2. calls[i][j].session <= sessions
      BY <2>1 DEF SessionInv
    <3>3. calls[i][j].session \in Nat
      BY <2>1, CallsShape DEF Calls
    <3>4. calls[i][j].session = sessions + 1
      BY <2>2, <3>1
    <3> QED
      BY <1>0, <3>2, <3>3, <3>4
  <2>4. CASE XdebugStopTrace \/ RShutdown
    BY <2>4 DEF XdebugStopTrace, RShutdown
  <2>5. CASE SwitchFiber \/ Tick \/ UNCHANGED vars
    <3>1. prof_active /\ sessions' = sessions
      BY <2>5 DEF SwitchFiber, Tick, profVars, vars
    <3> QED
      BY <2>1, <2>2, <3>1 DEF SuffixInv
  <2>6. CASE RInit
    <3>1. Len(calls[i]) = 0
      BY <2>6, EmptySeq DEF RInit, SessionInv, Empty
    <3> QED
      BY <2>1, <3>1
  <2> QED
    BY <1>3, <2>3, <2>4, <2>5, <2>6
<1> QED
  BY <1>1, <1>2, <1>3, CallsMove

LEMMA MadeStep ==
  ASSUME TypeOK, MadeInv, [Next]_vars
  PROVE  MadeInv'
<1> SUFFICES ASSUME NEW i \in Fibers, NEW k \in 1 .. Len(calls'[i]) - 1
             PROVE  <<calls'[i][k].fn, calls'[i][k + 1].fn>> \in made'
  BY DEF MadeInv
<1>0. fiber \in Fibers /\ Len(calls[i]) \in Nat
  BY CallsShape DEF TypeOK
<1>1. ASSUME NEW f \in Funcs, Call(f)
      PROVE  <<calls'[i][k].fn, calls'[i][k + 1].fn>> \in made'
  <2> DEFINE n == Len(Current)
             c == NewCall(f, ObserverInit(f))
  <2>1. /\ n \in Nat /\ Len(calls'[fiber]) = n + 1 /\ calls'[fiber][n + 1] = c
        /\ \A l \in 1 .. n : calls'[fiber][l] = calls[fiber][l]
        /\ \A l \in Fibers \ {fiber} : calls'[l] = calls[l]
    BY <1>1, AfterCall
  <2>2. made' = made \cup (Callers \X {f}) /\ c.fn = f
    BY <1>1 DEF Call, NewCall
  <2> HIDE DEF c
  <2>3. CASE i # fiber
    BY <2>1, <2>2, <2>3 DEF MadeInv
  <2>4. CASE i = fiber /\ k = n
    <3>1. Current # <<>>
      BY <2>1, <2>4, EmptySeq
    <3>2. Current[n].fn \in Callers
      BY <3>1 DEF Callers, Last
    <3> QED
      BY <2>1, <2>2, <2>4, <3>2 DEF Current
  <2>5. CASE i = fiber /\ k \in 1 .. n - 1
    <3>1. k \in 1 .. n /\ k + 1 \in 1 .. n
      BY <2>1, <2>5
    <3> QED
      BY <2>1, <2>2, <2>5, <3>1 DEF MadeInv, Current
  <2>6. i = fiber => k = n \/ k \in 1 .. n - 1
    BY <2>1
  <2> QED
    BY <2>3, <2>4, <2>5, <2>6
<1>2. CASE Return
  <2> DEFINE n == Len(Current)
  <2>1. /\ n \in Nat \ {0} /\ Len(calls'[fiber]) = n - 1
        /\ \A l \in 1 .. n - 1 : calls'[fiber][l] = calls[fiber][l]
        /\ \A l \in Fibers \ {fiber} : calls'[l] = calls[l]
    BY <1>2, AfterReturn
  <2>2. made' = made
    BY <1>2 DEF Return, callHistory
  <2>3. CASE i # fiber
    BY <2>1, <2>2, <2>3 DEF MadeInv
  <2>4. CASE i = fiber
    <3>1. k \in 1 .. n - 1 /\ k + 1 \in 1 .. n - 1
      BY <2>1, <2>4
    <3> QED
      BY <2>1, <2>2, <2>4, <3>1 DEF MadeInv, Current
  <2> QED
    BY <2>3, <2>4
<1>3. ASSUME \A l \in Fibers :
               /\ Len(calls'[l]) = Len(calls[l])
               /\ \A m \in 1 .. Len(calls[l]) : SameCall(calls[l][m], calls'[l][m]),
             XdebugStartTrace \/ XdebugStopTrace \/ SwitchFiber \/ Tick
               \/ RInit \/ RShutdown \/ UNCHANGED vars
      PROVE  <<calls'[i][k].fn, calls'[i][k + 1].fn>> \in made'
  <2>1. k \in 1 .. Len(calls[i]) /\ k + 1 \in 1 .. Len(calls[i]) /\ k \in 1 .. Len(calls[i]) - 1
    BY <1>0, <1>3
  <2>2. calls'[i][k].fn = calls[i][k].fn /\ calls'[i][k + 1].fn = calls[i][k + 1].fn
    BY <1>3, <2>1 DEF SameCall
  <2>3. CASE RShutdown
    <3>1. Len(calls[i]) = 0
      BY <2>3, EmptySeq DEF RShutdown
    <3> QED
      BY <2>1, <3>1
  <2>4. CASE ~RShutdown
    <3>1. made' = made
      BY <1>3, <2>4 DEF XdebugStartTrace, XdebugStopTrace, SwitchFiber, Tick, RInit, vars, callHistory
    <3> QED
      BY <2>1, <2>2, <3>1 DEF MadeInv
  <2> QED
    BY <2>3, <2>4
<1> QED
  BY <1>1, <1>2, <1>3, CallsMove

-----------------------------------------------------------------------------
\* Every step keeps the frames those of the calls.

\* The step starts a session.
Starts == XdebugStartTrace \/ RInit

\* A step that leaves the profiler on in a request that has not switched.
LEMMA MainFiberMove ==
  ASSUME IInv, [Next]_vars, request', prof_active', ~switched'
  PROVE  \/ Starts
         \/ /\ request /\ prof_active /\ ~switched /\ sessions' = sessions
            /\ fiber = 1 /\ fiber' = 1
            /\ (\E f \in Funcs : Call(f)) \/ Return \/ Tick \/ UNCHANGED vars
<1>1. ASSUME NEW f \in Funcs, Call(f)
      PROVE  /\ request /\ prof_active /\ ~switched /\ sessions' = sessions
             /\ fiber = 1 /\ fiber' = 1
  BY <1>1 DEF Call, IInv, FiberInv
<1>2. CASE Return
  BY <1>2 DEF Return, IInv, FiberInv
<1>3. CASE Tick
  BY <1>3 DEF Tick, profVars, IInv, FiberInv
<1>4. CASE UNCHANGED vars
  BY <1>4 DEF vars, engineVars, profVars, IInv, FiberInv
<1>5. CASE XdebugStopTrace \/ SwitchFiber \/ RShutdown
  BY <1>5 DEF XdebugStopTrace, SwitchFiber, RShutdown
<1> QED
  BY <1>1, <1>2, <1>3, <1>4, <1>5 DEF Next, Starts

\* A session starts with no frames, and no call is of it yet.
LEMMA StartsFresh ==
  ASSUME IInv, Starts, prof_active'
  PROVE  /\ prof_stack' = <<>> /\ Depth' = 0
         /\ \A i \in Fibers : \A k \in 1 .. Len(calls'[i]) : calls'[i][k].session # sessions'
         /\ calls' = Empty \/ (sessions' = sessions + 1 /\ request)
         /\ RInit => handlers' = [f \in Funcs |-> "unset"] /\ calls' = Empty
<1>0. fiber \in Fibers /\ sessions \in Nat /\ TypeOK /\ SessionInv
  BY Bounds DEF TypeOK, IInv
<1>1. prof_stack' = <<>>
  BY DEF Starts, XdebugStartTrace, RInit, Start
<1>2. Depth' = 0
  BY <1>1, EmptySeq DEF Depth
<1>3. CASE XdebugStartTrace
  <2>1. sessions' = sessions + 1
    BY <1>3 DEF XdebugStartTrace
  <2>2. /\ Len(Current) > 0
        /\ \A i \in Fibers :
              /\ Len(calls'[i]) = Len(calls[i])
              /\ \A k \in 1 .. Len(calls[i]) : SameCall(calls[i][k], calls'[i][k])
    BY <1>0, <1>3, AfterRuns DEF XdebugStartTrace
  <2>3. request
    BY <1>0, <2>2, EmptySeq DEF SessionInv, Empty, Current
  <2>4. ~RInit
    BY <2>3 DEF RInit
  <2>5. ASSUME NEW i \in Fibers, NEW k \in 1 .. Len(calls'[i])
        PROVE  calls'[i][k].session # sessions'
    <3>1. calls[i][k].session \in Nat /\ calls[i][k].session <= sessions
      BY <1>0, <2>2, CallsShape DEF Calls, SessionInv
    <3>2. calls'[i][k].session = calls[i][k].session
      BY <2>2 DEF SameCall
    <3> QED
      BY <1>0, <2>1, <3>1, <3>2
  <2> QED
    BY <1>1, <1>2, <2>1, <2>3, <2>4, <2>5
<1>4. CASE RInit
  <2>1. calls' = Empty /\ handlers' = [f \in Funcs |-> "unset"]
    BY <1>0, <1>4 DEF RInit, SessionInv
  <2>2. \A i \in Fibers : Len(calls'[i]) = 0
    BY <2>1, EmptySeq DEF Empty
  <2> QED
    BY <1>1, <1>2, <2>1, <2>2
<1> QED
  BY <1>3, <1>4 DEF Starts

LEMMA PlainStep ==
  ASSUME IInv, [Next]_vars
  PROVE  PlainInv'
<1> SUFFICES ASSUME Plain', request', prof_active'
             PROVE  /\ \A f \in Funcs : handlers'[f] # "none"
                    /\ Depth' = Len(calls'[1])
                    /\ \A k \in 1 .. Depth' :
                         /\ prof_stack'[k].key = calls'[1][k].fn
                         /\ calls'[1][k].session = sessions' /\ calls'[1][k].observed
  BY DEF PlainInv
<1>0. /\ ProfileMode /\ ~switched' /\ sessions' <= 1 /\ 1 \in Fibers
      /\ TypeOK /\ SessionInv /\ SelfTimesFit /\ sessions \in Nat /\ Depth \in Nat
  BY Bounds, FramesShape DEF Plain, IInv, TypeOK
<1>1. CASE Starts
  <2>1. Depth' = 0 /\ (calls' = Empty \/ (sessions' = sessions + 1 /\ request))
    BY <1>1, StartsFresh
  <2>2. ~(sessions' = sessions + 1 /\ request)
    BY <1>0 DEF SessionInv
  <2>3. Len(calls'[1]) = 0
    BY <1>0, <2>1, <2>2, EmptySeq DEF Empty
  <2>4. RInit
    <3>1. XdebugStartTrace => sessions' = sessions + 1 /\ Len(Current) > 0
      BY <1>0, AfterRuns DEF XdebugStartTrace
    <3>2. Len(Current) > 0 => request
      BY <1>0, EmptySeq DEF SessionInv, Empty, Current, TypeOK
    <3> QED
      BY <1>1, <2>2, <3>1, <3>2 DEF Starts
  <2>5. \A f \in Funcs : handlers'[f] # "none"
    BY <1>1, <2>4, StartsFresh
  <2> QED
    BY <2>1, <2>3, <2>5
<1>2. ASSUME request, prof_active, ~switched, sessions' = sessions, fiber = 1, fiber' = 1
      PROVE  /\ \A f \in Funcs : handlers[f] # "none"
             /\ Depth = Len(calls[1])
             /\ \A k \in 1 .. Depth : /\ prof_stack[k].key = calls[1][k].fn
                                      /\ calls[1][k].session = sessions /\ calls[1][k].observed
  BY <1>0, <1>2 DEF Plain, PlainInv, IInv
<1>3. ASSUME request, prof_active, ~switched, sessions' = sessions, fiber = 1, fiber' = 1,
             NEW f \in Funcs, Call(f)
      PROVE  /\ \A g \in Funcs : handlers'[g] # "none"
             /\ Depth' = Len(calls'[1])
             /\ \A k \in 1 .. Depth' :
                  /\ prof_stack'[k].key = calls'[1][k].fn
                  /\ calls'[1][k].session = sessions' /\ calls'[1][k].observed
  <2> DEFINE n == Len(Current)
             c == NewCall(f, ObserverInit(f))
  <2>1. /\ n \in Nat /\ Len(calls'[1]) = n + 1 /\ calls'[1][n + 1] = c
        /\ \A l \in 1 .. n : calls'[1][l] = calls[1][l]
    BY <1>0, <1>3, AfterCall
  <2>2. ObserverInit(f) = "both"
    BY <1>0, <1>2, <1>3 DEF ObserverInit, TypeOK
  <2>3. c.fn = f /\ c.session = sessions /\ c.observed
    BY <1>3, <2>2 DEF NewCall
  <2>4. \A g \in Funcs : handlers'[g] # "none"
    BY <1>0, <1>2, <1>3, <2>2 DEF Call, TypeOK
  <2>5. Begin(f)
    BY <1>3, <2>2 DEF Call
  <2>6. /\ Depth' = Depth + 1
        /\ prof_stack'[Depth + 1] = [key |-> f, t_start |-> now, children_time |-> 0]
        /\ \A l \in 1 .. Depth : prof_stack'[l] = prof_stack[l]
    BY <1>0, <1>3, <2>5, AfterBegin
  <2>7. prof_stack'[Depth + 1].key = f
    BY <2>6
  <2>8. n = Depth
    BY <1>2, <1>3 DEF Current
  <2> HIDE DEF c, n
  <2>9. ASSUME NEW k \in 1 .. Depth + 1
        PROVE  /\ prof_stack'[k].key = calls'[1][k].fn
               /\ calls'[1][k].session = sessions' /\ calls'[1][k].observed
    <3>1. CASE k = Depth + 1
      BY <1>3, <2>1, <2>3, <2>7, <2>8, <3>1
    <3>2. CASE k \in 1 .. Depth
      BY <1>2, <1>3, <2>1, <2>6, <2>8, <3>2
    <3> QED
      BY <1>0, <3>1, <3>2
  <2> QED
    BY <2>1, <2>4, <2>6, <2>8, <2>9
<1>4. ASSUME request, prof_active, ~switched, sessions' = sessions, fiber = 1, fiber' = 1, Return
      PROVE  /\ \A g \in Funcs : handlers'[g] # "none"
             /\ Depth' = Len(calls'[1])
             /\ \A k \in 1 .. Depth' :
                  /\ prof_stack'[k].key = calls'[1][k].fn
                  /\ calls'[1][k].session = sessions' /\ calls'[1][k].observed
  <2>1. /\ Len(Current) \in Nat \ {0} /\ Last(Current) = Current[Len(Current)]
        /\ Len(calls'[1]) = Len(Current) - 1
        /\ \A k \in 1 .. Len(Current) - 1 : calls'[1][k] = calls[1][k]
    BY <1>0, <1>4, AfterReturn
  <2>2. Len(Current) = Depth /\ Depth > 0 /\ Depth \in 1 .. Depth
    BY <1>2, <1>4, <2>1 DEF Current
  <2>3. Last(Current).observed
    BY <1>2, <1>4, <2>1, <2>2 DEF Current
  <2>4. End /\ Pops
    BY <1>4, <2>2, <2>3 DEF Return, Pops
  <2>5. /\ Depth' = Depth - 1
        /\ \A k \in 1 .. Depth - 1 : prof_stack'[k].key = prof_stack[k].key
    BY <1>0, <2>4, AfterEnd
  <2>6. handlers' = handlers
    BY <1>4 DEF Return
  <2>7. \A k \in 1 .. Depth - 1 : k \in 1 .. Depth
    BY <1>0
  <2> QED
    BY <1>2, <1>4, <2>1, <2>2, <2>5, <2>6, <2>7
<1>5. ASSUME request, prof_active, ~switched, sessions' = sessions, fiber = 1, fiber' = 1,
             Tick \/ UNCHANGED vars
      PROVE  /\ \A g \in Funcs : handlers'[g] # "none"
             /\ Depth' = Len(calls'[1])
             /\ \A k \in 1 .. Depth' :
                  /\ prof_stack'[k].key = calls'[1][k].fn
                  /\ calls'[1][k].session = sessions' /\ calls'[1][k].observed
  <2>1. handlers' = handlers /\ calls' = calls /\ prof_stack' = prof_stack
    BY <1>5 DEF Tick, profVars, vars, engineVars
  <2>2. Depth' = Depth
    BY <2>1 DEF Depth
  <2> QED
    BY <1>2, <1>5, <2>1, <2>2
<1> QED
  BY <1>0, <1>1, <1>3, <1>4, <1>5, MainFiberMove

\* What makes frames those of calls, and keeps them so.

LEMMA TracksNothing ==
  ASSUME NEW frames, Len(frames) = 0, NEW cs
  PROVE  Tracks(frames, cs, {})
<1>1. [k \in 1 .. Len(frames) |-> k] \in [1 .. Len(frames) -> {}]
  OBVIOUS
<1>2. 1 .. Len(frames) = {}
  OBVIOUS
<1> QED
  BY <1>1, <1>2 DEF Tracks

LEMMA TracksSame ==
  ASSUME NEW frames, NEW cs, NEW P, Tracks(frames, cs, P),
         NEW frames2, Len(frames2) = Len(frames),
         \A k \in 1 .. Len(frames) : frames2[k].key = frames[k].key,
         NEW cs2, \A p \in P : cs2[p].fn = cs[p].fn
  PROVE  Tracks(frames2, cs2, P)
<1>1. PICK call \in [1 .. Len(frames) -> P] :
        /\ \A k \in 1 .. Len(frames) : frames[k].key = cs[call[k]].fn
        /\ \A j, k \in 1 .. Len(frames) : j < k => call[j] < call[k]
        /\ \A p \in P : \E k \in 1 .. Len(frames) : call[k] = p
  BY DEF Tracks
<1>2. \A k \in 1 .. Len(frames) : frames2[k].key = cs2[call[k]].fn
  BY <1>1
<1>3. /\ call \in [1 .. Len(frames2) -> P]
      /\ \A k \in 1 .. Len(frames2) : frames2[k].key = cs2[call[k]].fn
      /\ \A j, k \in 1 .. Len(frames2) : j < k => call[j] < call[k]
      /\ \A p \in P : \E k \in 1 .. Len(frames2) : call[k] = p
  BY <1>1, <1>2, Zenon
<1> QED
  BY <1>3, Zenon DEF Tracks

LEMMA TracksPush ==
  ASSUME NEW frames, Len(frames) \in Nat, NEW cs, NEW P \in SUBSET Int, Tracks(frames, cs, P),
         NEW frames2, Len(frames2) = Len(frames) + 1,
         \A k \in 1 .. Len(frames) : frames2[k] = frames[k],
         NEW cs2, \A p \in P : cs2[p].fn = cs[p].fn,
         NEW q \in Int, \A p \in P : p < q, frames2[Len(frames) + 1].key = cs2[q].fn
  PROVE  Tracks(frames2, cs2, P \cup {q})
<1> DEFINE d == Len(frames)
           Q == P \cup {q}
<1>1. PICK call \in [1 .. d -> P] :
        /\ \A k \in 1 .. d : frames[k].key = cs[call[k]].fn
        /\ \A j, k \in 1 .. d : j < k => call[j] < call[k]
        /\ \A p \in P : \E k \in 1 .. d : call[k] = p
  BY DEF Tracks
<1> DEFINE more == [k \in 1 .. d + 1 |-> IF k = d + 1 THEN q ELSE call[k]]
<1> HIDE DEF d
<1>2. d \in Nat /\ Len(frames2) = d + 1 /\ \A k \in 1 .. d : frames2[k] = frames[k]
  BY DEF d
<1>3. \A k \in 1 .. d + 1 : k \in 1 .. d \/ k = d + 1
  BY <1>2
<1>4. more[d + 1] = q /\ \A k \in 1 .. d : more[k] = call[k] /\ call[k] \in P
  BY <1>1, <1>2
<1>5. more \in [1 .. d + 1 -> Q]
  BY <1>1, <1>3
<1> HIDE DEF more
<1>6. ASSUME NEW k \in 1 .. d + 1
      PROVE  frames2[k].key = cs2[more[k]].fn
  <2>1. CASE k \in 1 .. d
    <3>1. frames2[k].key = cs[call[k]].fn
      BY <1>1, <1>2, <2>1
    <3>2. cs[call[k]].fn = cs2[call[k]].fn
      BY <1>4, <2>1
    <3> QED
      BY <1>4, <2>1, <3>1, <3>2
  <2>2. CASE k = d + 1
    BY <1>4, <2>2 DEF d
  <2> QED
    BY <1>3, <2>1, <2>2
<1>7. ASSUME NEW j \in 1 .. d + 1, NEW k \in 1 .. d + 1, j < k
      PROVE  more[j] < more[k]
  <2>1. j \in 1 .. d
    BY <1>2, <1>7
  <2>2. CASE k \in 1 .. d
    BY <1>1, <1>4, <1>7, <2>1, <2>2
  <2>3. CASE k = d + 1
    BY <1>4, <2>1, <2>3
  <2> QED
    BY <1>3, <2>2, <2>3
<1>8. ASSUME NEW p \in Q
      PROVE  \E k \in 1 .. d + 1 : more[k] = p
  <2>1. CASE p = q
    BY <1>2, <1>4, <2>1
  <2>2. CASE p \in P
    <3>1. PICK k \in 1 .. d : call[k] = p
      BY <1>1, <2>2
    <3> QED
      BY <1>2, <1>4, <3>1
  <2> QED
    BY <2>1, <2>2
<1> DEFINE n == d + 1
<1>9. /\ \A k \in 1 .. n : frames2[k].key = cs2[more[k]].fn
      /\ \A j, k \in 1 .. n : j < k => more[j] < more[k]
      /\ \A p \in Q : \E k \in 1 .. n : more[k] = p
      /\ more \in [1 .. n -> Q]
  BY <1>5, <1>6, <1>7, <1>8
<1>10. Len(frames2) = n
  BY <1>2
<1> HIDE DEF n, Q
<1>11. Tracks(frames2, cs2, Q)
  BY <1>9, <1>10 DEF Tracks
<1> QED
  BY <1>11 DEF Q

LEMMA TracksPop ==
  ASSUME NEW frames, Len(frames) \in Nat, NEW cs, NEW P \in SUBSET Int, Tracks(frames, cs, P),
         NEW q \in P, \A p \in P : p <= q,
         NEW frames2, Len(frames2) = Len(frames) - 1,
         \A k \in 1 .. Len(frames) - 1 : frames2[k].key = frames[k].key,
         NEW cs2, \A p \in P \ {q} : cs2[p].fn = cs[p].fn
  PROVE  Tracks(frames2, cs2, P \ {q})
<1> DEFINE d == Len(frames)
           Q == P \ {q}
<1>1. PICK call \in [1 .. d -> P] :
        /\ \A k \in 1 .. d : frames[k].key = cs[call[k]].fn
        /\ \A j, k \in 1 .. d : j < k => call[j] < call[k]
        /\ \A p \in P : \E k \in 1 .. d : call[k] = p
  BY DEF Tracks
<1> DEFINE less == [k \in 1 .. d - 1 |-> call[k]]
<1> HIDE DEF d
<1>2. /\ d \in Nat /\ Len(frames2) = d - 1
      /\ \A k \in 1 .. d - 1 : frames2[k].key = frames[k].key
  BY DEF d
<1>3. PICK l \in 1 .. d : call[l] = q
  BY <1>1
<1>4. d \in 1 .. d /\ call[d] \in P
  BY <1>1, <1>2, <1>3
<1>5. l = d
  <2> SUFFICES ASSUME l # d PROVE FALSE
    OBVIOUS
  <2>1. call[l] < call[d]
    BY <1>1, <1>2, <1>3, <1>4
  <2>2. call[d] <= q /\ call[d] \in Int /\ q \in Int
    BY <1>4
  <2> QED
    BY <1>3, <2>1, <2>2
<1>6. ASSUME NEW k \in 1 .. d - 1
      PROVE  k \in 1 .. d /\ call[k] \in Q /\ less[k] = call[k]
  <2>1. k \in 1 .. d /\ k < d
    BY <1>2
  <2>2. call[k] < call[d] /\ call[k] \in P
    BY <1>1, <1>4, <2>1
  <2> QED
    BY <1>3, <1>5, <2>1, <2>2
<1>7. less \in [1 .. d - 1 -> Q]
  BY <1>6
<1> HIDE DEF less
<1>8. ASSUME NEW k \in 1 .. d - 1
      PROVE  frames2[k].key = cs2[less[k]].fn
  <2>1. frames2[k].key = frames[k].key /\ frames[k].key = cs[call[k]].fn
    BY <1>1, <1>2, <1>6
  <2>2. cs2[call[k]].fn = cs[call[k]].fn
    BY <1>6
  <2> QED
    BY <1>6, <2>1, <2>2
<1>9. \A j, k \in 1 .. d - 1 : j < k => less[j] < less[k]
  BY <1>1, <1>6
<1>10. ASSUME NEW p \in Q
       PROVE  \E k \in 1 .. d - 1 : less[k] = p
  <2>1. PICK k \in 1 .. d : call[k] = p
    BY <1>1
  <2>2. k \in 1 .. d - 1
    BY <1>2, <1>3, <1>5, <2>1
  <2> QED
    BY <1>6, <2>1, <2>2
<1> DEFINE n == d - 1
<1>11. /\ \A k \in 1 .. n : frames2[k].key = cs2[less[k]].fn
       /\ \A j, k \in 1 .. n : j < k => less[j] < less[k]
       /\ \A p \in Q : \E k \in 1 .. n : less[k] = p
       /\ less \in [1 .. n -> Q]
  BY <1>7, <1>8, <1>9, <1>10
<1>12. Len(frames2) = n
  BY <1>2
<1> HIDE DEF n, Q
<1>13. Tracks(frames2, cs2, Q)
  BY <1>11, <1>12 DEF Tracks
<1> QED
  BY <1>13 DEF Q

\* The positions Observed(i) names.
LEMMA ObservedPositions ==
  ASSUME TypeOK, NEW i \in Fibers
  PROVE  /\ Observed(i) = {p \in 1 .. Len(calls[i]) :
                             calls[i][p].session = sessions /\ calls[i][p].observed}
         /\ Observed(i) \in SUBSET Int
BY CallsShape DEF Observed, InSession

LEMMA ObservedStep ==
  ASSUME IInv, TypeOK', [Next]_vars
  PROVE  FramesAreObservedCalls'
<1> SUFFICES ASSUME request', prof_active', ~switched'
             PROVE  Tracks(prof_stack', calls'[fiber'], Observed(fiber)')
  BY DEF FramesAreObservedCalls
<1>0. /\ TypeOK /\ SelfTimesFit /\ fiber \in Fibers /\ fiber' \in Fibers /\ 1 \in Fibers
      /\ Depth \in Nat /\ sessions \in Nat
  <2>1. TypeOK /\ SelfTimesFit
    BY DEF IInv
  <2>2. Depth \in Nat /\ 1 \in Fibers
    BY <2>1, Bounds, FramesShape
  <2>3. fiber \in Fibers /\ sessions \in Nat
    BY <2>1, Bounds DEF TypeOK
  <2>4. fiber' \in Fibers
    BY DEF TypeOK
  <2> QED
    BY <2>1, <2>2, <2>3, <2>4
<1>1. Observed(fiber)' = {p \in 1 .. Len(calls'[fiber']) :
                            calls'[fiber'][p].session = sessions' /\ calls'[fiber'][p].observed}
  <2>1. calls'[fiber'] \in Seq(Calls)
    BY <1>0 DEF TypeOK
  <2>2. DOMAIN calls'[fiber'] = 1 .. Len(calls'[fiber'])
    BY <2>1, LenProperties
  <2> QED
    BY <2>2 DEF Observed, InSession
<1>2. CASE Starts
  <2>1. Observed(fiber)' = {}
    BY <1>0, <1>1, <1>2, StartsFresh
  <2>2. Len(prof_stack') = 0
    BY <1>2, StartsFresh DEF Depth
  <2> QED
    BY <2>1, <2>2, TracksNothing
<1>3. ASSUME request, prof_active, ~switched, sessions' = sessions, fiber = 1, fiber' = 1
      PROVE  /\ Tracks(prof_stack, calls[1], Observed(1))
             /\ Observed(1) = {p \in 1 .. Len(calls[1]) :
                                 calls[1][p].session = sessions /\ calls[1][p].observed}
             /\ Observed(1) \in SUBSET Int
             /\ Observed(fiber)' = {p \in 1 .. Len(calls'[1]) :
                                      calls'[1][p].session = sessions /\ calls'[1][p].observed}
  BY <1>0, <1>1, <1>3, ObservedPositions DEF FramesAreObservedCalls, IInv
<1>4. ASSUME request, prof_active, ~switched, sessions' = sessions, fiber = 1, fiber' = 1,
             NEW f \in Funcs, Call(f)
      PROVE  Tracks(prof_stack', calls'[1], Observed(fiber)')
  <2> DEFINE n == Len(Current)
             c == NewCall(f, ObserverInit(f))
             old == Observed(1)
             new == Observed(fiber)'
  <2>1. /\ n \in Nat /\ n = Len(calls[1]) /\ Len(calls'[1]) = n + 1 /\ calls'[1][n + 1] = c
        /\ \A l \in 1 .. n : calls'[1][l] = calls[1][l]
    BY <1>0, <1>4, AfterCall DEF Current
  <2>2. c.fn = f /\ c.session = sessions /\ (c.observed <=> ObserverInit(f) = "both")
    BY <1>4 DEF NewCall
  <2>3. /\ Tracks(prof_stack, calls[1], old) /\ old \in SUBSET Int
        /\ old = {p \in 1 .. n : calls[1][p].session = sessions /\ calls[1][p].observed}
        /\ new = {p \in 1 .. n + 1 : calls'[1][p].session = sessions /\ calls'[1][p].observed}
    BY <1>3, <1>4, <2>1
  <2> HIDE DEF c, n, old, new
  <2>4. \A p \in 1 .. n + 1 : p \in 1 .. n \/ p = n + 1
    BY <2>1
  <2>5. \A p \in old : p \in 1 .. n /\ calls'[1][p].fn = calls[1][p].fn /\ p < n + 1
    BY <2>1, <2>3
  <2>6. CASE ObserverInit(f) = "both"
    <3>1. new = old \cup {n + 1}
      <4>1. \A p \in 1 .. n : p \in new <=> p \in old
        BY <2>1, <2>3
      <4>2. n + 1 \in new
        BY <2>1, <2>2, <2>3, <2>6
      <4> QED
        BY <2>3, <2>4, <4>1, <4>2
    <3>2. Begin(f)
      BY <1>4, <2>6 DEF Call
    <3>3. /\ Len(prof_stack') = Len(prof_stack) + 1
          /\ prof_stack'[Len(prof_stack) + 1] = [key |-> f, t_start |-> now, children_time |-> 0]
          /\ \A l \in 1 .. Len(prof_stack) : prof_stack'[l] = prof_stack[l]
      BY <1>0, <1>4, <3>2, AfterBegin DEF Depth
    <3>4. prof_stack'[Len(prof_stack) + 1].key = calls'[1][n + 1].fn
      BY <2>1, <2>2, <3>3
    <3>5. Len(prof_stack) \in Nat /\ n + 1 \in Int
      BY <1>0, <2>1 DEF Depth
    <3>7. /\ old \in SUBSET Int
          /\ \A p \in old : p < n + 1
          /\ \A p \in old : calls'[1][p].fn = calls[1][p].fn
      BY <2>1, <2>5
    <3>8. Tracks(prof_stack, calls[1], old)
      BY <2>3
    <3>9. PICK frames, frames2, cs, cs2, q :
            frames = prof_stack /\ frames2 = prof_stack' /\ cs = calls[1] /\ cs2 = calls'[1] /\ q = n + 1
      OBVIOUS
    <3>10. /\ Len(frames) \in Nat /\ q \in Int /\ Len(frames2) = Len(frames) + 1
           /\ \A k \in 1 .. Len(frames) : frames2[k] = frames[k]
           /\ frames2[Len(frames) + 1].key = cs2[q].fn
      BY <3>3, <3>4, <3>5, <3>9
    <3>11. /\ Tracks(frames, cs, old)
           /\ old \in SUBSET Int
           /\ \A p \in old : p < q
           /\ \A p \in old : cs2[p].fn = cs[p].fn
      BY <3>7, <3>8, <3>9
    <3>12. Tracks(frames2, cs2, old \cup {q})
      BY <3>10, <3>11, TracksPush
    <3>6. Tracks(prof_stack', calls'[1], old \cup {n + 1})
      BY <3>9, <3>12
    <3> QED
      BY <3>1, <3>6 DEF new
  <2>7. CASE ObserverInit(f) # "both"
    <3>1. new = old
      <4>1. \A p \in 1 .. n : p \in new <=> p \in old
        BY <2>1, <2>3
      <4>2. n + 1 \notin new
        BY <2>1, <2>2, <2>3, <2>7
      <4> QED
        BY <2>3, <2>4, <4>1, <4>2
    <3>2. prof_stack' = prof_stack
      BY <1>4, <2>7 DEF Call
    <3>4. PICK frames, cs, cs2 : frames = prof_stack /\ cs = calls[1] /\ cs2 = calls'[1]
      OBVIOUS
    <3>5. Tracks(frames, cs, old) /\ \A p \in old : cs2[p].fn = cs[p].fn
      BY <2>3, <2>5, <3>4
    <3>6. Tracks(frames, cs2, old)
      BY <3>5, TracksSame
    <3>3. Tracks(prof_stack', calls'[1], old)
      BY <3>2, <3>4, <3>6
    <3> QED
      BY <3>1, <3>3 DEF new
  <2> QED
    BY <2>6, <2>7
<1>5. ASSUME request, prof_active, ~switched, sessions' = sessions, fiber = 1, fiber' = 1, Return
      PROVE  Tracks(prof_stack', calls'[1], Observed(fiber)')
  <2> DEFINE n == Len(Current)
             old == Observed(1)
             new == Observed(fiber)'
  <2>1. /\ n \in Nat \ {0} /\ Last(Current) = calls[1][n] /\ n = Len(calls[1])
        /\ Len(calls'[1]) = n - 1
        /\ \A k \in 1 .. n - 1 : calls'[1][k] = calls[1][k]
    BY <1>0, <1>5, AfterReturn DEF Current
  <2>2. /\ Tracks(prof_stack, calls[1], old) /\ old \in SUBSET Int
        /\ old = {p \in 1 .. n : calls[1][p].session = sessions /\ calls[1][p].observed}
        /\ new = {p \in 1 .. n - 1 : calls'[1][p].session = sessions /\ calls'[1][p].observed}
    BY <1>3, <1>5, <2>1
  <2>3. \A j \in 1 .. n : calls[1][j].session = sessions => calls[1][n].session = sessions
    BY <1>0, <1>5, <2>1 DEF SuffixInv, IInv
  <2> HIDE DEF n, old, new
  <2>4. new = old \ {n}
    <3>1. \A p \in 1 .. n : (p \in 1 .. n - 1 /\ p # n) \/ p = n
      BY <2>1
    <3>2. \A p \in 1 .. n - 1 : p \in 1 .. n /\ p # n
      BY <2>1
    <3>3. \A p \in 1 .. n - 1 : p \in new <=> p \in old
      BY <2>1, <2>2, <3>2
    <3> QED
      BY <2>2, <3>1, <3>2, <3>3
  <2>5. \A p \in old : p \in 1 .. n /\ p <= n
    BY <2>1, <2>2
  <2>6. \A p \in old \ {n} : calls'[1][p].fn = calls[1][p].fn
    BY <2>1, <2>5
  <2>7. CASE n \in old
    <3>1. Last(Current).observed
      BY <2>1, <2>2, <2>7
    <3>2. End
      BY <1>5, <3>1 DEF Return
    <3>3. Depth > 0
      <4>1. \E k \in 1 .. Len(prof_stack) : TRUE
        BY <2>2, <2>7 DEF Tracks
      <4> QED
        BY <1>0, <4>1 DEF Depth
    <3>4. /\ Len(prof_stack') = Len(prof_stack) - 1 /\ Len(prof_stack) \in Nat
          /\ \A k \in 1 .. Len(prof_stack) - 1 : prof_stack'[k].key = prof_stack[k].key
      BY <1>0, <1>5, <3>2, <3>3, AfterEnd DEF Pops, Depth
    <3>6. PICK frames, frames2, cs, cs2 :
            frames = prof_stack /\ frames2 = prof_stack' /\ cs = calls[1] /\ cs2 = calls'[1]
      OBVIOUS
    <3>7. /\ Len(frames) \in Nat /\ Len(frames2) = Len(frames) - 1
          /\ \A k \in 1 .. Len(frames) - 1 : frames2[k].key = frames[k].key
      BY <3>4, <3>6
    <3>8. /\ Tracks(frames, cs, old)
          /\ old \in SUBSET Int
          /\ \A p \in old : p <= n
          /\ \A p \in old \ {n} : cs2[p].fn = cs[p].fn
      BY <2>2, <2>5, <2>6, <3>6
    <3>9. Tracks(frames2, cs2, old \ {n})
      BY <2>7, <3>7, <3>8, TracksPop
    <3>5. Tracks(prof_stack', calls'[1], old \ {n})
      BY <3>6, <3>9
    <3> QED
      BY <2>4, <3>5 DEF new
  <2>8. CASE n \notin old
    <3>1. prof_stack' = prof_stack
      <4>1. CASE Last(Current).observed
        <5>1. calls[1][n].session # sessions
          BY <2>1, <2>2, <2>8, <4>1
        <5>2. old = {}
          BY <2>2, <2>3, <5>1
        <5>3. Depth = 0
          <6>1. PICK call \in [1 .. Len(prof_stack) -> {}] : TRUE
            BY <2>2, <5>2 DEF Tracks
          <6>2. ~(1 \in 1 .. Len(prof_stack))
            BY <6>1
          <6> QED
            BY <1>0, <6>2 DEF Depth
        <5> QED
          BY <1>0, <1>5, <4>1, <5>3 DEF Return, End, Pops
      <4>2. CASE ~Last(Current).observed
        BY <1>5, <4>2 DEF Return
      <4> QED
        BY <4>1, <4>2
    <3>2. new = old
      BY <2>4, <2>8
    <3>3. \A p \in old : calls'[1][p].fn = calls[1][p].fn
      BY <2>6, <2>8
    <3>5. PICK frames, cs, cs2 : frames = prof_stack /\ cs = calls[1] /\ cs2 = calls'[1]
      OBVIOUS
    <3>6. Tracks(frames, cs, old) /\ \A p \in old : cs2[p].fn = cs[p].fn
      BY <2>2, <3>3, <3>5
    <3>7. Tracks(frames, cs2, old)
      BY <3>6, TracksSame
    <3>4. Tracks(prof_stack', calls'[1], old)
      BY <3>1, <3>5, <3>7
    <3> QED
      BY <3>2, <3>4 DEF new
  <2> QED
    BY <2>7, <2>8
<1>6. ASSUME request, prof_active, ~switched, sessions' = sessions, fiber = 1, fiber' = 1,
             Tick \/ UNCHANGED vars
      PROVE  Tracks(prof_stack', calls'[1], Observed(fiber)')
  <2>1. calls' = calls /\ prof_stack' = prof_stack
    BY <1>6 DEF Tick, profVars, vars, engineVars
  <2>2. Observed(fiber)' = Observed(1)
    BY <1>3, <1>6, <2>1
  <2> QED
    BY <1>3, <1>6, <2>1, <2>2
<1> QED
  BY <1>2, <1>4, <1>5, <1>6, MainFiberMove

(* In the session that starts with the request all calls are of the session  *)
(* and observed, so the frames are those of all of them.                     *)
LEMMA LiveCalls == IInv => FramesAreLiveCalls
<1> SUFFICES ASSUME IInv, Plain, request, prof_active
             PROVE  Tracks(prof_stack, calls[fiber], InSession(fiber))
  BY DEF FramesAreLiveCalls, EveryCallHasFrame
<1>1. TypeOK /\ fiber = 1 /\ 1 \in Fibers /\ ~switched
  BY Bounds DEF IInv, FiberInv, Plain
<1>2. \A k \in 1 .. Len(calls[1]) : calls[1][k].observed
  BY DEF IInv, PlainInv
<1>3. DOMAIN calls[1] = 1 .. Len(calls[1])
  BY <1>1, CallsShape
<1>4. Observed(1) = InSession(1)
  BY <1>2, <1>3 DEF Observed, InSession
<1> QED
  BY <1>1, <1>4 DEF IInv, FramesAreObservedCalls

-----------------------------------------------------------------------------
\* Every step keeps the edges those of calls made.

LEMMA PlainStays ==
  ASSUME IInv, [Next]_vars, Plain'
  PROVE  \/ RInit \/ RShutdown
         \/ Plain /\ ~XdebugStartTrace /\ ~SwitchFiber
<1>0. ProfileMode /\ sessions' <= 1 /\ ~switched' /\ TypeOK /\ SessionInv /\ sessions \in Nat
  BY Bounds DEF Plain, IInv, TypeOK
<1>1. ~XdebugStartTrace
  <2> SUFFICES ASSUME XdebugStartTrace PROVE FALSE
    OBVIOUS
  <2>1. sessions' = sessions + 1 /\ Len(Current) > 0
    BY <1>0, AfterRuns DEF XdebugStartTrace
  <2>2. request
    BY <1>0, <2>1, EmptySeq DEF SessionInv, Empty, Current, TypeOK
  <2> QED
    BY <1>0, <2>1, <2>2 DEF SessionInv
<1>2. ~SwitchFiber
  BY <1>0 DEF SwitchFiber
<1>3. ASSUME NEW f \in Funcs, Call(f)
      PROVE  Plain
  BY <1>0, <1>3 DEF Call, Plain
<1>4. CASE Return \/ Tick \/ XdebugStopTrace \/ UNCHANGED vars
  <2>1. sessions' = sessions /\ switched' = switched
    BY <1>4 DEF Return, Tick, XdebugStopTrace, vars
  <2> QED
    BY <1>0, <1>1, <1>2, <2>1 DEF Plain
<1>5. (\E f \in Funcs : Call(f)) => Plain
  BY <1>3
<1>6. \/ \E f \in Funcs : Call(f)
      \/ Return \/ Tick \/ XdebugStopTrace \/ UNCHANGED vars
      \/ XdebugStartTrace \/ SwitchFiber \/ RInit \/ RShutdown
  BY DEF Next
<1> QED
  BY <1>1, <1>2, <1>4, <1>5, <1>6

LEMMA EdgesStep ==
  ASSUME IInv, [Next]_vars
  PROVE  EdgesAreCalls'
<1> SUFFICES ASSUME Plain', NEW g \in Funcs, NEW f \in Funcs, prof_funcs'[g].edges[f].count > 0
             PROVE  <<g, f>> \in made'
  BY DEF EdgesAreCalls, NoFalseEdge
<1>0. TypeOK /\ SessionInv /\ SelfTimesFit /\ Depth \in Nat
  BY FramesShape DEF IInv
<1>1. ~(NoRecords[g].edges[f].count > 0)
  BY DEF NoRecords, NoRecord, NoEdge
<1>2. CASE RInit
  <2>1. prof_funcs' = NoRecords
    BY <1>0, <1>2 DEF RInit, Start, SessionInv, ZeroInv, IInv
  <2> QED
    BY <1>1, <2>1
<1>3. CASE RShutdown
  <2>1. prof_funcs' = NoRecords
    BY <1>3 DEF RShutdown, NoRecords
  <2> QED
    BY <1>1, <2>1
<1>4. ASSUME Plain, prof_funcs[g].edges[f].count > 0, made \subseteq made'
      PROVE  <<g, f>> \in made'
  BY <1>4 DEF EdgesAreCalls, NoFalseEdge, IInv
<1>5. ASSUME Plain, NEW h \in Funcs, Call(h)
      PROVE  <<g, f>> \in made'
  BY <1>4, <1>5 DEF Call
<1>6. CASE Plain /\ (Tick \/ XdebugStopTrace \/ UNCHANGED vars)
  BY <1>4, <1>6 DEF Tick, XdebugStopTrace, profVars, callHistory, vars
<1>7. CASE Plain /\ Return
  <2>1. made' = made
    BY <1>7 DEF Return, callHistory
  <2>2. CASE End /\ Pops
    <3>1. prof_funcs'[g].edges[f].count > 0 =>
            \/ prof_funcs[g].edges[f].count > 0
            \/ Depth > 1 /\ g = Parent.key /\ f = prof_stack[Depth].key
      BY <1>0, <2>2, AfterEndRecords
    <3>2. ASSUME Depth > 1, g = Parent.key, f = prof_stack[Depth].key
          PROVE  <<g, f>> \in made
      <4>1. Len(Current) > 0 /\ prof_active /\ 1 \in Fibers
        BY <1>0, <1>7, <2>2, AfterReturn, Bounds DEF Pops
      <4>2. request
        BY <1>0, <4>1, EmptySeq DEF SessionInv, Empty, Current, TypeOK
      <4>3. /\ Depth = Len(calls[1])
            /\ \A k \in 1 .. Depth : prof_stack[k].key = calls[1][k].fn
        BY <1>7, <4>1, <4>2 DEF IInv, PlainInv
      <4>4. Depth - 1 \in 1 .. Len(calls[1]) - 1 /\ Depth - 1 \in 1 .. Depth /\ Depth \in 1 .. Depth
            /\ (Depth - 1) + 1 = Depth
        BY <1>0, <3>2, <4>3
      <4>5. <<calls[1][Depth - 1].fn, calls[1][(Depth - 1) + 1].fn>> \in made
        BY <4>1, <4>4 DEF IInv, MadeInv
      <4> QED
        BY <3>2, <4>3, <4>4, <4>5 DEF Parent
    <3> QED
      BY <1>4, <1>7, <2>1, <3>1, <3>2
  <2>3. CASE ~(End /\ Pops)
    <3>1. prof_funcs' = prof_funcs
      BY <1>7, <2>3 DEF Return, End
    <3> QED
      BY <1>4, <1>7, <2>1, <3>1
  <2> QED
    BY <2>2, <2>3
<1> QED
  BY <1>2, <1>3, <1>5, <1>6, <1>7, PlainStays DEF Next

-----------------------------------------------------------------------------
\* The inductive invariant holds.

LEMMA InitInv == Init => IInv
<1> SUFFICES ASSUME Init PROVE IInv
  OBVIOUS
<1>1. TypeOK
  BY InitType
<1>2. /\ ~request /\ ~prof_active /\ sessions = 0 /\ calls = Empty /\ fiber = 1
      /\ prof_stack = <<>> /\ prof_funcs = NoRecords /\ root_time = [f \in Funcs |-> 0]
  BY DEF Init, Empty, NoRecords
<1>3. \A i \in Fibers : calls[i] = <<>> /\ Len(calls[i]) = 0
  BY <1>2, EmptySeq DEF Empty
<1>4. SessionInv /\ ZeroInv /\ FiberInv /\ SuffixInv /\ PlainInv
  BY <1>2, <1>3 DEF SessionInv, ZeroInv, FiberInv, SuffixInv, PlainInv
<1>5. MadeInv
  BY <1>3 DEF MadeInv
<1>6. FramesAreObservedCalls /\ SelfTimesFit
  BY <1>2 DEF FramesAreObservedCalls, SelfTimesFit
<1>7. EdgesAreCalls
  BY <1>2 DEF EdgesAreCalls, NoFalseEdge, NoRecords, NoRecord, NoEdge
<1> QED
  BY <1>1, <1>4, <1>5, <1>6, <1>7 DEF IInv

LEMMA InvStep ==
  ASSUME IInv, [Next]_vars
  PROVE  IInv'
<1>1. TypeOK /\ SessionInv /\ ZeroInv /\ FiberInv /\ SuffixInv /\ MadeInv /\ SelfTimesFit
  BY DEF IInv
<1>2. TypeOK' /\ SelfTimesFit'
  BY <1>1, TypeStep, CostsStep
<1>3. SessionInv' /\ ZeroInv' /\ FiberInv' /\ SuffixInv' /\ MadeInv'
  BY <1>1, <1>2, SessionStep, ZeroStep, FiberStep, SuffixStep, MadeStep
<1>4. PlainInv' /\ FramesAreObservedCalls' /\ EdgesAreCalls'
  BY <1>2, PlainStep, ObservedStep, EdgesStep
<1> QED
  BY <1>2, <1>3, <1>4 DEF IInv

LEMMA InductiveInv == Spec => []IInv
<1>1. Init => IInv
  BY InitInv
<1>2. IInv /\ [Next]_vars => IInv'
  BY InvStep
<1> QED
  BY <1>1, <1>2, PTL DEF Spec

-----------------------------------------------------------------------------
\* The flow of costs.

\* The terms of the sums.
IntoOf(funcs, f) == [g \in Funcs |-> funcs[g].edges[f].time]
OutOf(funcs, f) == [g \in Funcs |-> funcs[f].edges[g].time]
OpenOf(stack, f) ==
  [k \in 1 .. Len(stack) |-> IF stack[k].key = f THEN stack[k].children_time ELSE 0]

LEMMA FlowTerms ==
  ASSUME NEW f
  PROVE  /\ TimeInto(f) = root_time[f] + SumFunctionOnSet(IntoOf(prof_funcs, f), Funcs)
         /\ TimeOutOf(f) = SumFunctionOnSet(OutOf(prof_funcs, f), Funcs)
         /\ TimeOfOpen(f) = SumFunctionOnSet(OpenOf(prof_stack, f), 1 .. Len(prof_stack))
         /\ TimeInto(f)' = root_time'[f] + SumFunctionOnSet(IntoOf(prof_funcs', f), Funcs)
         /\ TimeOutOf(f)' = SumFunctionOnSet(OutOf(prof_funcs', f), Funcs)
         /\ TimeOfOpen(f)' = SumFunctionOnSet(OpenOf(prof_stack', f), 1 .. Len(prof_stack'))
<1>1. ASSUME NEW funcs
      PROVE  DOMAIN IntoOf(funcs, f) = Funcs /\ DOMAIN OutOf(funcs, f) = Funcs
  BY DEF IntoOf, OutOf
<1>2. ASSUME NEW stack
      PROVE  DOMAIN OpenOf(stack, f) = 1 .. Len(stack)
  BY DEF OpenOf
<1>3. /\ TimeInto(f) = root_time[f] + SumFunction(IntoOf(prof_funcs, f))
      /\ TimeOutOf(f) = SumFunction(OutOf(prof_funcs, f))
      /\ TimeOfOpen(f) = SumFunction(OpenOf(prof_stack, f))
      /\ TimeInto(f)' = root_time'[f] + SumFunction(IntoOf(prof_funcs', f))
      /\ TimeOutOf(f)' = SumFunction(OutOf(prof_funcs', f))
      /\ TimeOfOpen(f)' = SumFunction(OpenOf(prof_stack', f))
  BY DEF TimeInto, TimeOutOf, TimeOfOpen, IntoOf, OutOf, OpenOf, Depth
<1> QED
  BY <1>1, <1>2, <1>3 DEF SumFunction

LEMMA SumsTyped ==
  ASSUME NEW stack \in Seq(ProfFrames), NEW f \in Funcs,
         NEW funcs \in [Funcs -> [self_time : Nat, called : Nat, edges : [Funcs -> Edges]]]
  PROVE  /\ IsFiniteSet(Funcs) /\ IsFiniteSet(1 .. Len(stack)) /\ Len(stack) \in Nat
         /\ \A g \in Funcs : IntoOf(funcs, f)[g] \in Nat /\ OutOf(funcs, f)[g] \in Nat
         /\ \A k \in 1 .. Len(stack) : OpenOf(stack, f)[k] \in Nat
         /\ SumFunctionOnSet(IntoOf(funcs, f), Funcs) \in Nat
         /\ SumFunctionOnSet(OutOf(funcs, f), Funcs) \in Nat
         /\ SumFunctionOnSet(OpenOf(stack, f), 1 .. Len(stack)) \in Nat
<1>1. IsFiniteSet(Funcs) /\ IsFiniteSet(1 .. Len(stack)) /\ Len(stack) \in Nat
  BY ProfilerAssumption, LenProperties, FS_Interval
<1>2. \A g \in Funcs : IntoOf(funcs, f)[g] \in Nat /\ OutOf(funcs, f)[g] \in Nat
  BY DEF IntoOf, OutOf, Edges
<1>3. ASSUME NEW k \in 1 .. Len(stack)
      PROVE  OpenOf(stack, f)[k] \in Nat
  <2>1. stack[k] \in ProfFrames
    BY ElementOfSeq
  <2> QED
    BY <2>1 DEF OpenOf, ProfFrames
<1>4. SumFunctionOnSet(IntoOf(funcs, f), Funcs) \in Nat
  BY <1>1, <1>2, SumType
<1>5. SumFunctionOnSet(OutOf(funcs, f), Funcs) \in Nat
  BY <1>1, <1>2, SumType
<1>6. SumFunctionOnSet(OpenOf(stack, f), 1 .. Len(stack)) \in Nat
  BY <1>1, <1>3, SumType
<1> QED
  BY <1>1, <1>2, <1>3, <1>4, <1>5, <1>6

\* Without records and open frames there is no cost.
LEMMA NoFlow ==
  ASSUME prof_stack' = <<>>, prof_funcs' = NoRecords, root_time' = [f \in Funcs |-> 0]
  PROVE  FlowConserved'
<1> SUFFICES ASSUME NEW f \in Funcs
             PROVE  TimeInto(f)' + TimeOfOpen(f)' = prof_funcs'[f].self_time + TimeOutOf(f)'
  BY DEF FlowConserved
<1>1. IsFiniteSet(Funcs)
  BY ProfilerAssumption
<1>2. \A g, h \in Funcs : prof_funcs'[g].edges[h].time = 0 /\ prof_funcs'[g].self_time = 0
  BY DEF NoRecords, NoRecord, NoEdge
<1>3. \A g \in Funcs : IntoOf(prof_funcs', f)[g] = 0 /\ OutOf(prof_funcs', f)[g] = 0
  BY <1>2 DEF IntoOf, OutOf
<1>4. SumFunctionOnSet(IntoOf(prof_funcs', f), Funcs) = 0
  BY <1>1, <1>3, SumZeros
<1>5. SumFunctionOnSet(OutOf(prof_funcs', f), Funcs) = 0
  BY <1>1, <1>3, SumZeros
<1>6. SumFunctionOnSet(OpenOf(prof_stack', f), 1 .. Len(prof_stack')) = 0
  <2>1. 1 .. Len(prof_stack') = {}
    BY EmptySeq
  <2> QED
    BY <2>1, SumEmpty
<1> QED
  BY <1>2, <1>4, <1>5, <1>6, FlowTerms

LEMMA LastPosition ==
  ASSUME NEW n \in Nat
  PROVE  /\ (1 .. n + 1) \ {n + 1} = 1 .. n
         /\ n + 1 \in 1 .. n + 1 /\ \A k \in 1 .. n + 1 : k \in 1 .. n \/ k = n + 1
OBVIOUS

(* The sum over a stack with one more frame, and over the rest of a stack.   *)
LEMMA OpenPush ==
  ASSUME NEW stack \in Seq(ProfFrames), NEW more \in Seq(ProfFrames), NEW f \in Funcs,
         Len(more) = Len(stack) + 1, \A k \in 1 .. Len(stack) : more[k] = stack[k]
  PROVE  SumFunctionOnSet(OpenOf(more, f), 1 .. Len(more))
           = OpenOf(more, f)[Len(stack) + 1]
               + SumFunctionOnSet(OpenOf(stack, f), 1 .. Len(stack))
<1> DEFINE n == Len(stack)
           S == 1 .. n + 1
<1>1. n \in Nat
  BY LenProperties
<1>2. S \ {n + 1} = 1 .. n /\ n + 1 \in S /\ \A k \in 1 .. n : k \in S
  BY <1>1, LastPosition
<1>3. \A k \in 1 .. n : OpenOf(more, f)[k] = OpenOf(stack, f)[k]
  BY <1>2 DEF OpenOf
<1> HIDE DEF n, S
<1>4. 1 .. Len(more) = S
  BY DEF n, S
<1>5. IsFiniteSet(S) /\ \A k \in S : OpenOf(more, f)[k] \in Nat
  <2>1. NoRecords \in [Funcs -> [self_time : Nat, called : Nat, edges : [Funcs -> Edges]]]
    BY FreshTypes
  <2> QED
    BY <1>4, <2>1, SumsTyped
<1>6. SumFunctionOnSet(OpenOf(more, f), S)
        = OpenOf(more, f)[n + 1] + SumFunctionOnSet(OpenOf(more, f), S \ {n + 1})
  BY <1>2, <1>5, SumRemove
<1>7. SumFunctionOnSet(OpenOf(more, f), 1 .. n) = SumFunctionOnSet(OpenOf(stack, f), 1 .. n)
  <2>1. IsFiniteSet(1 .. n)
    BY <1>1, FS_Interval
  <2> QED
    BY <1>3, <2>1, SumSame
<1> QED
  BY <1>2, <1>4, <1>6, <1>7 DEF n

\* What is charged if P.
If(P, n) == IF P THEN n ELSE 0

(* A frame just begun has cost nothing.                                      *)
LEMMA FlowOfBegin ==
  ASSUME TypeOK, prof_active, NEW g \in Funcs, Begin(g), NEW f \in Funcs
  PROVE  TimeOfOpen(f)' = TimeOfOpen(f)
<1>1. /\ prof_stack' \in Seq(ProfFrames) /\ Len(prof_stack') = Len(prof_stack) + 1
      /\ prof_stack'[Len(prof_stack) + 1] = [key |-> g, t_start |-> now, children_time |-> 0]
      /\ \A k \in 1 .. Len(prof_stack) : prof_stack'[k] = prof_stack[k]
  BY AfterBegin DEF Depth
<1>2. prof_stack \in Seq(ProfFrames) /\ Len(prof_stack) \in Nat
  BY FramesShape DEF Depth
<1>3. SumFunctionOnSet(OpenOf(prof_stack', f), 1 .. Len(prof_stack'))
        = OpenOf(prof_stack', f)[Len(prof_stack) + 1]
            + SumFunctionOnSet(OpenOf(prof_stack, f), 1 .. Len(prof_stack))
  BY <1>1, <1>2, OpenPush
<1>4. OpenOf(prof_stack', f)[Len(prof_stack) + 1] = 0
  <2>1. Len(prof_stack) + 1 \in 1 .. Len(prof_stack')
    BY <1>1, <1>2
  <2>2. prof_stack'[Len(prof_stack) + 1].children_time = 0
    BY <1>1
  <2> QED
    BY <2>1, <2>2 DEF OpenOf
<1>5. SumFunctionOnSet(OpenOf(prof_stack, f), 1 .. Len(prof_stack)) \in Nat
  BY <1>2, SumsTyped DEF TypeOK
<1> QED
  BY <1>3, <1>4, <1>5, FlowTerms

(* A frame that ends takes what its callees cost, and charges its caller.    *)
LEMMA FlowOfEnd ==
  ASSUME TypeOK, SelfTimesFit, Pops, End, NEW f \in Funcs
  PROVE  LET key == prof_stack[Depth].key
             cost == prof_stack[Depth].children_time
         IN  /\ TimeOfOpen(f) \in Nat /\ TimeOfOpen(f)' \in Nat
             /\ TimeOfOpen(f)' + If(key = f, cost)
                  = TimeOfOpen(f) + If(Depth > 1 /\ Parent.key = f, Inclusive)
<1> DEFINE key == prof_stack[Depth].key
           cost == prof_stack[Depth].children_time
           d == Depth - 1
           rest == Front(prof_stack)
           Sum(st) == SumFunctionOnSet(OpenOf(st, f), 1 .. Len(st))
<1>1. /\ Depth \in Nat \ {0} /\ cost \in Nat /\ Inclusive \in Nat
      /\ prof_stack \in Seq(ProfFrames) /\ Depth = Len(prof_stack)
  BY CostsFit, FramesShape DEF Depth
<1>2. /\ rest \in Seq(ProfFrames) /\ Len(rest) = d /\ d \in Nat /\ Len(prof_stack) = d + 1
      /\ \A k \in 1 .. d : rest[k] = prof_stack[k]
  BY <1>1, FrontOf
<1>3. /\ prof_stack' \in Seq(ProfFrames) /\ Len(prof_stack') = d
      /\ \A k \in 1 .. d : prof_stack'[k].key = rest[k].key
      /\ \A k \in 1 .. d - 1 : prof_stack'[k] = rest[k]
      /\ d > 0 => prof_stack'[d].children_time = Parent.children_time + Inclusive
  <2>1. \A k \in 1 .. d - 1 : k \in 1 .. d
    BY <1>2
  <2>2. Depth - 2 = d - 1 /\ (Depth > 1 <=> d > 0)
    BY <1>1
  <2> QED
    BY <1>2, <2>1, <2>2, AfterEnd DEF Depth
<1>4. Parent = prof_stack[d]
  BY DEF Parent
<1> HIDE DEF rest
<1>5. Sum(prof_stack) = OpenOf(prof_stack, f)[d + 1] + Sum(rest)
  BY <1>1, <1>2, OpenPush
<1>6. OpenOf(prof_stack, f)[d + 1] = If(key = f, cost)
  <2>1. d + 1 \in 1 .. Len(prof_stack) /\ d + 1 = Depth
    BY <1>1, <1>2
  <2> QED
    BY <2>1 DEF OpenOf, If
<1>7. Sum(prof_stack) \in Nat /\ Sum(prof_stack') \in Nat /\ Sum(rest) \in Nat
  <2>1. prof_funcs \in [Funcs -> [self_time : Nat, called : Nat, edges : [Funcs -> Edges]]]
    BY DEF TypeOK
  <2>2. Sum(prof_stack) \in Nat
    BY <1>1, <2>1, SumsTyped
  <2>3. Sum(prof_stack') \in Nat
    BY <1>3, <2>1, SumsTyped
  <2>4. Sum(rest) \in Nat
    BY <1>2, <2>1, SumsTyped
  <2> QED
    BY <2>2, <2>3, <2>4
<1>8. Sum(prof_stack') = Sum(rest) + If(d > 0 /\ Parent.key = f, Inclusive)
  <2> DEFINE new == OpenOf(prof_stack', f)
             old == OpenOf(rest, f)
  <2>1. \A k \in 1 .. d : new[k] \in Nat /\ old[k] \in Nat
    <3>1. prof_funcs \in [Funcs -> [self_time : Nat, called : Nat, edges : [Funcs -> Edges]]]
      BY DEF TypeOK
    <3> QED
      BY <1>2, <1>3, <3>1, SumsTyped
  <2>2. /\ new = [k \in 1 .. d |-> IF prof_stack'[k].key = f THEN prof_stack'[k].children_time ELSE 0]
        /\ old = [k \in 1 .. d |-> IF rest[k].key = f THEN rest[k].children_time ELSE 0]
    BY <1>2, <1>3 DEF OpenOf
  <2>3. \A k \in 1 .. d : k \in 1 .. d - 1 \/ k = d
    BY <1>2
  <2>4. IsFiniteSet(1 .. d)
    BY <1>2, FS_Interval
  <2>5. Sum(prof_stack') = SumFunctionOnSet(new, 1 .. d) /\ Sum(rest) = SumFunctionOnSet(old, 1 .. d)
    BY <1>2, <1>3
  <2> HIDE DEF d, Sum
  <2>6. CASE d > 0 /\ Parent.key = f
    <3>1. d \in 1 .. d
      BY <1>2, <2>6
    <3>2. new[d] = old[d] + Inclusive
      <4>1. prof_stack'[d].key = f /\ rest[d].key = f /\ rest[d] = Parent
        BY <1>2, <1>3, <1>4, <2>6, <3>1
      <4>2. new[d] = prof_stack'[d].children_time /\ old[d] = rest[d].children_time
        BY <2>2, <3>1, <4>1
      <4> QED
        BY <1>3, <2>6, <4>1, <4>2
    <3>3. \A k \in (1 .. d) \ {d} : new[k] = old[k]
      BY <1>3, <2>2, <2>3
    <3> HIDE DEF new, old
    <3>4. /\ SumFunctionOnSet(old, 1 .. d) \in Nat /\ SumFunctionOnSet(new, 1 .. d) \in Nat
          /\ SumFunctionOnSet(new, 1 .. d) + old[d] = SumFunctionOnSet(old, 1 .. d) + new[d]
      <4> DEFINE D == 1 .. d
      <4>1. /\ IsFiniteSet(D) /\ d \in D /\ \A k \in D : old[k] \in Nat /\ new[k] \in Nat
            /\ \A k \in D \ {d} : new[k] = old[k]
        BY <2>1, <2>4, <3>1, <3>3
      <4> HIDE DEF D
      <4>2. /\ SumFunctionOnSet(old, D) \in Nat /\ SumFunctionOnSet(new, D) \in Nat
            /\ SumFunctionOnSet(new, D) + old[d] = SumFunctionOnSet(old, D) + new[d]
        BY <4>1, SumChange
      <4> QED
        BY <4>2 DEF D
    <3>5. old[d] \in Nat
      BY <2>1, <3>1
    <3> QED
      BY <1>1, <2>5, <2>6, <3>2, <3>4, <3>5 DEF If
  <2>7. CASE ~(d > 0 /\ Parent.key = f)
    <3>1. \A k \in 1 .. d : new[k] = old[k]
      <4> SUFFICES ASSUME NEW k \in 1 .. d PROVE new[k] = old[k]
        OBVIOUS
      <4>1. CASE k \in 1 .. d - 1
        BY <1>3, <2>2, <4>1
      <4>2. CASE k = d
        <5>1. d > 0
          BY <1>2, <4>2
        <5>2. rest[d].key # f /\ prof_stack'[d].key # f
          BY <1>2, <1>3, <1>4, <2>7, <4>2, <5>1
        <5> QED
          BY <2>2, <4>2, <5>2
      <4> QED
        BY <2>3, <4>1, <4>2
    <3> HIDE DEF new, old
    <3>2. SumFunctionOnSet(new, 1 .. d) = SumFunctionOnSet(old, 1 .. d)
      BY <2>4, <3>1, SumSame
    <3> QED
      BY <1>7, <2>5, <2>7, <3>2 DEF If
  <2> QED
    BY <2>6, <2>7
<1>9. If(key = f, cost) \in Nat /\ If(d > 0 /\ Parent.key = f, Inclusive) \in Nat
  BY <1>1 DEF If
<1>10. TimeOfOpen(f) = Sum(prof_stack) /\ TimeOfOpen(f)' = Sum(prof_stack')
  BY FlowTerms
<1>11. Depth > 1 <=> d > 0
  BY <1>1
<1> HIDE DEF Sum
<1>12. Sum(prof_stack') + If(key = f, cost) = Sum(prof_stack) + If(d > 0 /\ Parent.key = f, Inclusive)
  BY <1>5, <1>6, <1>7, <1>8, <1>9
<1> QED
  BY <1>7, <1>10, <1>11, <1>12

\* What reaches a function and what leaves it, when a call ends.
LEMMA FlowOfEdges ==
  ASSUME TypeOK, SelfTimesFit, Pops, End, NEW f \in Funcs
  PROVE  LET key == prof_stack[Depth].key
         IN  /\ TimeInto(f) \in Nat /\ TimeOutOf(f) \in Nat
             /\ TimeInto(f)' = TimeInto(f) + If(key = f, Inclusive)
             /\ TimeOutOf(f)' = TimeOutOf(f) + If(Depth > 1 /\ Parent.key = f, Inclusive)
<1> DEFINE key == prof_stack[Depth].key
           p == Parent.key
           Records == [self_time : Nat, called : Nat, edges : [Funcs -> Edges]]
           in == IntoOf(prof_funcs, f)
           in2 == IntoOf(prof_funcs', f)
           out == OutOf(prof_funcs, f)
           out2 == OutOf(prof_funcs', f)
           Sum(g) == SumFunctionOnSet(g, Funcs)
<1>1. Depth \in Nat \ {0} /\ Inclusive \in Nat /\ key \in Funcs
  BY CostsFit
<1>2. /\ prof_funcs' \in [Funcs -> Records]
      /\ \A h, g \in Funcs :
           LET e == prof_funcs[h].edges[g]
           IN  prof_funcs'[h].edges[g] =
                 IF Depth > 1 /\ h = p /\ g = key
                 THEN [count |-> e.count + 1, time |-> e.time + Inclusive] ELSE e
      /\ root_time'[f] = root_time[f] + (IF Depth = 1 /\ f = key THEN Inclusive ELSE 0)
      /\ Depth > 1 => p \in Funcs
  BY AfterEndRecords
<1>3. \A h, g \in Funcs : prof_funcs'[h].edges[g].time =
        IF Depth > 1 /\ h = p /\ g = key THEN prof_funcs[h].edges[g].time + Inclusive
        ELSE prof_funcs[h].edges[g].time
  <2> SUFFICES ASSUME NEW h \in Funcs, NEW g \in Funcs
               PROVE  prof_funcs'[h].edges[g].time =
                        IF Depth > 1 /\ h = p /\ g = key
                        THEN prof_funcs[h].edges[g].time + Inclusive
                        ELSE prof_funcs[h].edges[g].time
    OBVIOUS
  <2> DEFINE e == prof_funcs[h].edges[g]
             here == Depth > 1 /\ h = p /\ g = key
  <2>1. prof_funcs'[h].edges[g] =
          IF here THEN [count |-> e.count + 1, time |-> e.time + Inclusive] ELSE e
    BY <1>2
  <2> HIDE DEF here
  <2>2. CASE here
    BY <2>1, <2>2 DEF here
  <2>3. CASE ~here
    BY <2>1, <2>3 DEF here
  <2> QED
    BY <2>2, <2>3
<1>4. prof_funcs \in [Funcs -> Records] /\ root_time[f] \in Nat /\ <<>> \in Seq(ProfFrames)
  BY FreshTypes DEF TypeOK
<1>5. /\ IsFiniteSet(Funcs) /\ Sum(in) \in Nat /\ Sum(out) \in Nat
      /\ \A g \in Funcs : in[g] \in Nat /\ out[g] \in Nat
  BY <1>4, SumsTyped
<1>6. \A g \in Funcs : in2[g] \in Nat /\ out2[g] \in Nat
  BY <1>2, <1>4, SumsTyped
<1>7. \A g \in Funcs : in2[g] = IF Depth > 1 /\ g = p /\ f = key THEN in[g] + Inclusive ELSE in[g]
  BY <1>3 DEF IntoOf
<1>8. \A g \in Funcs : out2[g] = IF Depth > 1 /\ f = p /\ g = key THEN out[g] + Inclusive ELSE out[g]
  BY <1>3 DEF OutOf
<1>9. /\ TimeInto(f) = root_time[f] + Sum(in) /\ TimeOutOf(f) = Sum(out)
      /\ TimeInto(f)' = root_time'[f] + Sum(in2) /\ TimeOutOf(f)' = Sum(out2)
  BY FlowTerms
<1> HIDE DEF in, in2, out, out2, key, p
<1>10. Sum(in2) = Sum(in) + If(Depth > 1 /\ f = key, Inclusive)
  <2>1. CASE Depth > 1 /\ f = key
    <3>1. p \in Funcs /\ in2[p] = in[p] + Inclusive /\ \A g \in Funcs \ {p} : in2[g] = in[g]
      BY <1>2, <1>7, <2>1
    <3>2. Sum(in2) \in Nat /\ Sum(in2) + in[p] = Sum(in) + in2[p]
      BY <1>5, <1>6, <3>1, SumChange
    <3> QED
      BY <1>1, <1>5, <2>1, <3>1, <3>2 DEF If
  <2>2. CASE ~(Depth > 1 /\ f = key)
    <3>1. \A g \in Funcs : in2[g] = in[g]
      BY <1>7, <2>2
    <3> QED
      BY <1>5, <2>2, <3>1, SumSame DEF If
  <2> QED
    BY <2>1, <2>2
<1>11. Sum(out2) = Sum(out) + If(Depth > 1 /\ f = p, Inclusive)
  <2>1. CASE Depth > 1 /\ f = p
    <3>1. out2[key] = out[key] + Inclusive /\ \A g \in Funcs \ {key} : out2[g] = out[g]
      BY <1>1, <1>8, <2>1
    <3>2. Sum(out2) \in Nat /\ Sum(out2) + out[key] = Sum(out) + out2[key]
      BY <1>1, <1>5, <1>6, <3>1, SumChange
    <3> QED
      BY <1>1, <1>5, <2>1, <3>1, <3>2 DEF If
  <2>2. CASE ~(Depth > 1 /\ f = p)
    <3>1. \A g \in Funcs : out2[g] = out[g]
      BY <1>8, <2>2
    <3> QED
      BY <1>5, <2>2, <3>1, SumSame DEF If
  <2> QED
    BY <2>1, <2>2
<1> HIDE DEF Sum
<1>12. TimeInto(f)' = TimeInto(f) + If(key = f, Inclusive)
  <2>1. Depth = 1 \/ Depth > 1
    BY <1>1
  <2>2. ~(Depth = 1 /\ Depth > 1)
    BY <1>1
  <2> QED
    BY <1>1, <1>2, <1>4, <1>5, <1>9, <1>10, <2>1, <2>2 DEF If
<1>13. TimeOutOf(f)' = TimeOutOf(f) + If(Depth > 1 /\ p = f, Inclusive)
  BY <1>9, <1>11
<1>14. TimeInto(f) \in Nat /\ TimeOutOf(f) \in Nat
  BY <1>4, <1>5, <1>9
<1> QED
  BY <1>12, <1>13, <1>14 DEF key, p

LEMMA FlowStep ==
  ASSUME IInv, FlowConserved, [Next]_vars
  PROVE  FlowConserved'
<1>0. TypeOK /\ SessionInv /\ SelfTimesFit /\ sessions \in Nat /\ prof_active \in BOOLEAN
  BY Bounds DEF IInv, TypeOK
<1>1. ASSUME UNCHANGED <<prof_stack, prof_funcs, root_time, sessions>>
      PROVE  FlowConserved'
  <2>1. \A f : TimeInto(f)' = TimeInto(f) /\ TimeOutOf(f)' = TimeOutOf(f) /\ TimeOfOpen(f)' = TimeOfOpen(f)
    BY <1>1 DEF TimeInto, TimeOutOf, TimeOfOpen, Depth
  <2> QED
    BY <1>1, <2>1 DEF FlowConserved
<1>2. ASSUME NEW g \in Funcs, Call(g)
      PROVE  FlowConserved'
  <2>1. CASE prof_stack' = prof_stack
    BY <1>1, <1>2, <2>1 DEF Call
  <2>2. CASE prof_stack' # prof_stack
    <3>1. prof_active /\ Begin(g) /\ UNCHANGED <<prof_funcs, root_time, sessions>>
      BY <1>2, <2>2 DEF Call, Begin
    <3>2. \A f \in Funcs : TimeOfOpen(f)' = TimeOfOpen(f)
      BY <1>0, <3>1, FlowOfBegin
    <3>3. \A f : TimeInto(f)' = TimeInto(f) /\ TimeOutOf(f)' = TimeOutOf(f)
      BY <3>1 DEF TimeInto, TimeOutOf
    <3> QED
      BY <3>1, <3>2, <3>3 DEF FlowConserved
  <2> QED
    BY <2>1, <2>2
<1>3. CASE Return
  <2>1. CASE End /\ Pops
    <3> SUFFICES ASSUME sessions' <= 1, NEW f \in Funcs
                 PROVE  TimeInto(f)' + TimeOfOpen(f)' = prof_funcs'[f].self_time + TimeOutOf(f)'
      BY DEF FlowConserved
    <3> DEFINE key == prof_stack[Depth].key
               cost == prof_stack[Depth].children_time
               up == If(Depth > 1 /\ Parent.key = f, Inclusive)
    <3>1. sessions' = sessions
      BY <1>3 DEF Return
    <3>2. TimeInto(f) + TimeOfOpen(f) = prof_funcs[f].self_time + TimeOutOf(f)
      BY <3>1 DEF FlowConserved
    <3>3. Inclusive \in Nat /\ Self \in Nat /\ cost \in Nat /\ Inclusive = Self + cost
      BY <1>0, <2>1, CostsFit
    <3>4. /\ TimeInto(f) \in Nat /\ TimeOutOf(f) \in Nat
          /\ TimeInto(f)' = TimeInto(f) + If(key = f, Inclusive)
          /\ TimeOutOf(f)' = TimeOutOf(f) + up
      BY <1>0, <2>1, FlowOfEdges
    <3>5. /\ TimeOfOpen(f) \in Nat /\ TimeOfOpen(f)' \in Nat
          /\ TimeOfOpen(f)' + If(key = f, cost) = TimeOfOpen(f) + up
      BY <1>0, <2>1, FlowOfEnd
    <3>6. prof_funcs'[f].self_time = prof_funcs[f].self_time + If(key = f, Self)
      <4>1. prof_funcs'[f].self_time = prof_funcs[f].self_time + (IF f = key THEN Self ELSE 0)
        BY <1>0, <2>1, AfterEndRecords
      <4> QED
        BY <4>1 DEF If
    <3>7. prof_funcs[f].self_time \in Nat
      BY <1>0 DEF TypeOK
    <3>8. up \in Nat /\ If(key = f, Inclusive) = If(key = f, Self) + If(key = f, cost)
          /\ If(key = f, Self) \in Nat /\ If(key = f, cost) \in Nat
      BY <3>3 DEF If
    <3> HIDE DEF up, cost, key
    <3> QED
      BY <3>2, <3>4, <3>5, <3>6, <3>7, <3>8
  <2>2. CASE ~(End /\ Pops)
    <3>1. UNCHANGED <<prof_stack, prof_funcs, root_time, sessions>>
      BY <1>3, <2>2 DEF Return, End
    <3> QED
      BY <1>1, <3>1
  <2> QED
    BY <2>1, <2>2
<1>4. CASE Tick \/ XdebugStopTrace \/ SwitchFiber \/ UNCHANGED vars
  <2>1. UNCHANGED <<prof_stack, prof_funcs, root_time, sessions>>
    BY <1>4 DEF Tick, XdebugStopTrace, SwitchFiber, vars, profVars
  <2> QED
    BY <1>1, <2>1
<1>5. CASE XdebugStartTrace
  <2>1. sessions' = sessions + 1 /\ prof_stack' = <<>> /\ UNCHANGED <<prof_funcs, root_time>>
    BY <1>5 DEF XdebugStartTrace, Start
  <2>2. CASE sessions = 0
    BY <2>1, <2>2, NoFlow DEF IInv, ZeroInv
  <2>3. CASE sessions # 0
    BY <1>0, <2>1, <2>3 DEF FlowConserved
  <2> QED
    BY <2>2, <2>3
<1>6. CASE RInit
  <2>1. prof_stack' = <<>> /\ UNCHANGED <<prof_funcs, root_time>> /\ sessions = 0
    BY <1>0, <1>6 DEF RInit, Start, SessionInv
  <2> QED
    BY <2>1, NoFlow DEF IInv, ZeroInv
<1>7. CASE RShutdown
  <2>1. /\ prof_stack' = <<>> /\ prof_funcs' = NoRecords
        /\ root_time' = [f \in Funcs |-> 0]
    BY <1>7 DEF RShutdown, NoRecords
  <2> QED
    BY <2>1, NoFlow
<1> QED
  BY <1>2, <1>3, <1>4, <1>5, <1>6, <1>7 DEF Next

LEMMA InitFlow == Init => FlowConserved
<1> SUFFICES ASSUME Init, NEW f \in Funcs
             PROVE  TimeInto(f) + TimeOfOpen(f) = prof_funcs[f].self_time + TimeOutOf(f)
  BY DEF FlowConserved
<1>1. IsFiniteSet(Funcs)
  BY ProfilerAssumption
<1>2. \A g, h \in Funcs : prof_funcs[g].edges[h].time = 0 /\ prof_funcs[g].self_time = 0
  BY DEF Init, NoRecord, NoEdge
<1>3. \A g \in Funcs : IntoOf(prof_funcs, f)[g] = 0 /\ OutOf(prof_funcs, f)[g] = 0
  BY <1>2 DEF IntoOf, OutOf
<1>4. SumFunctionOnSet(IntoOf(prof_funcs, f), Funcs) = 0
  BY <1>1, <1>3, SumZeros
<1>5. SumFunctionOnSet(OutOf(prof_funcs, f), Funcs) = 0
  BY <1>1, <1>3, SumZeros
<1>6. SumFunctionOnSet(OpenOf(prof_stack, f), 1 .. Len(prof_stack)) = 0
  <2>1. 1 .. Len(prof_stack) = {}
    BY EmptySeq DEF Init
  <2> QED
    BY <2>1, SumEmpty
<1>7. root_time[f] = 0
  BY DEF Init
<1> QED
  BY <1>2, <1>4, <1>5, <1>6, <1>7, FlowTerms

-----------------------------------------------------------------------------
\* The theorems.

\* The records, the stack and the counters always have the types the C structs
\* give them: in particular every cost is a natural number.
THEOREM TypeCorrect == Spec => []TypeOK
<1>1. IInv => TypeOK
  BY DEF IInv
<1> QED
  BY <1>1, InductiveInv, PTL

\* fxd_prof_end: whatever is on the stack, across fibers, restarts and API
\* calls in the middle of a call, `inclusive - children_time` and the
\* subtraction of the start from the clock never wrap below zero.
THEOREM SelfTimesNeverWrap == Spec => []SelfTimesFit
<1>1. IInv => SelfTimesFit
  BY DEF IInv
<1> QED
  BY <1>1, InductiveInv, PTL

\* fxd_prof_begin and fxd_prof_end: without fibers, however often user code
\* restarts the profiler, the frames are those of the calls the engine observes
\* and that began in this session, although the end hook pops without looking.
THEOREM FramesFollowObservedCalls == Spec => []FramesAreObservedCalls
<1>1. IInv => FramesAreObservedCalls
  BY DEF IInv
<1> QED
  BY <1>1, InductiveInv, PTL

\* In the session that xdebug.mode=profile starts, while no fiber has been
\* switched to, the profiler's stack is the stack of all the calls.
THEOREM FramesFollowLiveCalls == Spec => []FramesAreLiveCalls
<1> QED
  BY LiveCalls, InductiveInv, PTL

\* In that session every edge fxd_prof_end has recorded is a call that was made
\* from the function the edge leaves.
THEOREM EdgesWereMade == Spec => []EdgesAreCalls
<1>1. IInv => EdgesAreCalls
  BY DEF IInv
<1> QED
  BY <1>1, InductiveInv, PTL

\* In a request with one session, the inclusive cost that reaches a function is
\* its self cost and the inclusive cost of the calls it made, up to the frames
\* still open: recursion counts nothing twice, and no switch loses anything.
THEOREM CostsConserved == Spec => []FlowConserved
<1>1. Init => FlowConserved
  BY InitFlow
<1>2. IInv /\ FlowConserved /\ [Next]_vars => FlowConserved'
  BY FlowStep
<1> QED
  BY <1>1, <1>2, InductiveInv, PTL DEF Spec
=============================================================================
