--------------------------- MODULE Coverage_proof ---------------------------
(***************************************************************************)
(* Proofs about the coverage recorder, for any program, any number of      *)
(* functions, files, sessions and requests; the last part proves that the  *)
(* recorder with its caches implements the recorder without.               *)
(***************************************************************************)
EXTENDS Coverage, Analysis_proof, SequenceTheorems, TLAPS

-----------------------------------------------------------------------------
(* The engine keeps its own type invariant in every step it takes, for any   *)
(* program, call depth and placement of exceptions.                          *)

LEMMA FramesOfPopped ==
  ASSUME VMTypeOK, stack # <<>>, NEW thrown \in BOOLEAN,
         ~thrown /\ Depth > 1 => stack[Depth - 1].pc + 1 \in Ops(OpArray[stack[Depth - 1].fn])
  PROVE  /\ Popped(thrown) \in Seq(Frames)
         /\ \A i \in DOMAIN Popped(thrown) :
              Popped(thrown)[i].pc \in Ops(OpArray[Popped(thrown)[i].fn])
<1> DEFINE e(i) == IF i < Depth - 1 THEN stack[i]
                   ELSE IF thrown THEN [stack[i] EXCEPT !.exc = TRUE]
                   ELSE [stack[i] EXCEPT !.pc = @ + 1]
<1>1. Depth \in Nat \ {0} /\ stack \in [1 .. Depth -> Frames] /\ DOMAIN stack = 1 .. Depth
  BY LenProperties, EmptySeq DEF VMTypeOK, Depth
<1>2. ASSUME NEW i \in 1 .. Depth - 1
      PROVE  e(i) \in Frames /\ e(i).pc \in Ops(OpArray[e(i).fn])
  <2>1. stack[i] \in Frames /\ stack[i].pc \in Ops(OpArray[stack[i].fn])
    BY <1>1 DEF VMTypeOK
  <2>2. CASE i < Depth - 1
    BY <2>1, <2>2
  <2>3. CASE ~(i < Depth - 1) /\ thrown
    BY <2>1, <2>3 DEF Frames
  <2>4. CASE ~(i < Depth - 1) /\ ~thrown
    <3>1. i = Depth - 1 /\ Depth > 1
      BY <2>4, <1>1
    <3> QED
      BY <2>1, <2>4, <3>1 DEF Frames
  <2> QED
    BY <2>2, <2>3, <2>4
<1>3. Popped(thrown) = [i \in 1 .. Depth - 1 |-> e(i)]
  BY DEF Popped
<1>4. [i \in 1 .. Depth - 1 |-> e(i)] \in Seq(Frames)
  <2> HIDE DEF e
  <2> QED
    BY <1>1, <1>2, IsASeq
<1> HIDE DEF e
<1> QED
  BY <1>2, <1>3, <1>4

LEMMA TopFrame ==
  ASSUME VMTypeOK, stack # <<>>
  PROVE  /\ Depth \in Nat \ {0}
         /\ DOMAIN stack = 1 .. Depth
         /\ Top \in Frames
         /\ Top.fn \in Funcs
         /\ Top.pc \in Ops(OpArray[Top.fn])
<1>1. Depth \in Nat \ {0} /\ DOMAIN stack = 1 .. Depth /\ stack \in [1 .. Depth -> Frames]
  BY LenProperties, EmptySeq DEF VMTypeOK, Depth
<1>2. Top \in Frames /\ Top.pc \in Ops(OpArray[Top.fn])
  BY <1>1 DEF VMTypeOK, Top
<1> QED
  BY <1>1, <1>2 DEF Frames

LEMMA FrameAtIndex ==
  ASSUME VMTypeOK, NEW i \in DOMAIN stack
  PROVE  /\ stack[i] \in Frames
         /\ stack[i].fn \in Funcs
         /\ stack[i].pc \in Nat
         /\ stack[i].pc \in Ops(OpArray[stack[i].fn])
<1>1. stack \in [1 .. Len(stack) -> Frames]
  BY LenProperties DEF VMTypeOK
<1>2. stack[i] \in Frames
  BY <1>1
<1> QED
  BY <1>2 DEF Frames, VMTypeOK

LEMMA EmptyFunction ==
  DOMAIN <<>> = {} /\ \A S : <<>> \in [{} -> S]
OBVIOUS

LEMMA VMInitType == VMInit => VMTypeOK
BY EmptyFunction, EmptySeq DEF VMInit, VMTypeOK

\* The running frame gets another op or the exception mark.
LEMMA TopReplaced ==
  ASSUME VMTypeOK, stack # <<>>, NEW fr \in Frames,
         fr.pc \in Ops(OpArray[fr.fn]),
         stack' = [stack EXCEPT ![Depth] = fr],
         dispatched' = FALSE, UNCHANGED request
  PROVE  VMTypeOK'
<1>1. Depth \in 1 .. Len(stack) /\ DOMAIN stack = 1 .. Len(stack)
  BY TopFrame DEF Depth
<1>2. stack' \in Seq(Frames) /\ Len(stack') = Len(stack) /\ DOMAIN stack' = DOMAIN stack
  BY <1>1, ExceptSeq DEF VMTypeOK
<1>3. \A i \in DOMAIN stack' : stack'[i].pc \in Ops(OpArray[stack'[i].fn])
  BY <1>1, <1>2 DEF VMTypeOK
<1> QED
  BY <1>2, <1>3 DEF VMTypeOK

\* The running frame continues at another of its ops.
LEMMA GoToType ==
  ASSUME VMTypeOK, stack # <<>>, NEW q, GoTo(q)
  PROVE  VMTypeOK'
<1>1. [Top EXCEPT !.pc = q] \in Frames
  BY TopFrame DEF GoTo, Frames, Ops
<1>2. stack' = [stack EXCEPT ![Depth] = [Top EXCEPT !.pc = q]]
  BY DEF GoTo, Top
<1> QED
  BY <1>1, <1>2, TopReplaced, TopFrame DEF GoTo, Frames

(* Whatever the engine does, every frame of the stack stays at an op of its  *)
(* own function.                                                             *)
LEMMA VMStepType ==
  ASSUME VMTypeOK, VMStep
  PROVE  VMTypeOK'
<1>2. CASE Continue
  BY <1>2, GoToType DEF Continue, Running
<1>3. CASE Call
  <2>1. stack # <<>>
    BY <1>3 DEF Call, Running
  <2>2. PICK f \in Callees[Top.fn] : stack' = Append(stack, FrameAt(f, 0))
    BY <1>3 DEF Call
  <2>3. f \in Funcs
    BY <2>1, <2>2, TopFrame, VMAssumption
  <2>4. 0 \in Ops(OpArray[f])
    BY <2>3, VMAssumption DEF IsOpArray, Ops
  <2>5. FrameAt(f, 0) \in Frames /\ FrameAt(f, 0).pc = 0 /\ FrameAt(f, 0).fn = f
    BY <2>3 DEF FrameAt, Frames
  <2>6. /\ stack' \in Seq(Frames)
        /\ \A i \in DOMAIN stack' : stack'[i].pc \in Ops(OpArray[stack'[i].fn])
    <3>1. /\ stack' \in Seq(Frames)
          /\ Len(stack') = Len(stack) + 1
          /\ \A i \in 1 .. Len(stack) : stack'[i] = stack[i]
          /\ stack'[Len(stack) + 1] = FrameAt(f, 0)
      BY <2>2, <2>5, AppendProperties DEF VMTypeOK
    <3>2. DOMAIN stack' = 1 .. Len(stack) + 1 /\ DOMAIN stack = 1 .. Len(stack) /\ Len(stack) \in Nat
      BY <3>1, LenProperties DEF VMTypeOK
    <3> QED
      BY <2>4, <2>5, <3>1, <3>2 DEF VMTypeOK
  <2> QED
    BY <1>3, <2>1, <2>6 DEF Call, VMTypeOK
<1>4. CASE Return
  <2>1. stack # <<>>
    BY <1>4 DEF Return, Running
  <2> QED
    BY <1>4, <2>1, FramesOfPopped DEF Return, VMTypeOK
<1>5. CASE Throw
  <2>1. stack # <<>>
    BY <1>5 DEF Throw, Running
  <2>2. [Top EXCEPT !.exc = TRUE] \in Frames
    BY <2>1, TopFrame DEF Frames
  <2>3. stack' = [stack EXCEPT ![Depth] = [Top EXCEPT !.exc = TRUE]]
    BY <1>5 DEF Throw, Top
  <2> QED
    BY <1>5, <2>1, <2>2, <2>3, TopReplaced, TopFrame DEF Throw, Frames
<1>6. CASE Unwind
  <2>1. stack # <<>>
    BY <1>6 DEF Unwind
  <2>2. CASE CurrentOp.catch # NONE
    <3>1. CurrentOp.catch \in Ops(OpArray[Top.fn])
      BY <2>1, <2>2, TopFrame, VMAssumption DEF CurrentOp, IsOpArray
    <3>2. OpArray[Top.fn].last \in Nat
      BY <2>1, TopFrame, VMAssumption DEF IsOpArray
    <3>3. CurrentOp.catch \in Nat
      BY <3>1, <3>2 DEF Ops
    <3> DEFINE fr == FrameAt(Top.fn, CurrentOp.catch)
    <3>4. fr \in Frames /\ fr.pc = CurrentOp.catch /\ fr.fn = Top.fn
      BY <2>1, <3>3, TopFrame DEF Frames, FrameAt
    <3>5. stack' = [stack EXCEPT ![Depth] = fr]
      BY <1>6, <2>2 DEF Unwind
    <3> HIDE DEF fr
    <3> QED
      BY <1>6, <2>1, <3>1, <3>4, <3>5, TopReplaced DEF Unwind
  <2>3. CASE CurrentOp.catch = NONE
    <3>1. stack' = Popped(TRUE)
      BY <1>6, <2>3 DEF Unwind
    <3>2. /\ Popped(TRUE) \in Seq(Frames)
          /\ \A i \in DOMAIN Popped(TRUE) :
               Popped(TRUE)[i].pc \in Ops(OpArray[Popped(TRUE)[i].fn])
      BY <2>1, FramesOfPopped
    <3> QED
      BY <1>6, <2>1, <3>1, <3>2 DEF Unwind, VMTypeOK
  <2> QED
    BY <2>2, <2>3
<1>7. CASE Bailout
  <2>1. stack' = <<>> /\ DOMAIN stack' = {} /\ stack' \in Seq(Frames)
    BY <1>7, EmptySeq DEF Bailout
  <2> QED
    BY <1>7, <2>1 DEF Bailout, VMTypeOK
<1> QED
  BY <1>2, <1>3, <1>4, <1>5, <1>6, <1>7 DEF VMStep

LEMMA AfterInternalCallType ==
  ASSUME VMTypeOK, AfterInternalCall
  PROVE  VMTypeOK'
BY GoToType DEF AfterInternalCall, Running

LEMMA StartRequestType ==
  ASSUME VMTypeOK, VMStartRequest
  PROVE  VMTypeOK'
<1>1. FrameAt(Main, 0) \in Frames /\ 0 \in Ops(OpArray[Main])
  BY VMAssumption DEF FrameAt, Frames, Ops, IsOpArray
<1>2. stack' \in Seq(Frames) /\ DOMAIN stack' = {1} /\ stack'[1] = FrameAt(Main, 0)
  BY <1>1 DEF VMStartRequest
<1> QED
  BY <1>1, <1>2 DEF VMTypeOK, VMStartRequest, FrameAt

LEMMA EndRequestType ==
  ASSUME VMTypeOK, VMEndRequest
  PROVE  VMTypeOK'
BY DEF VMTypeOK, VMEndRequest

LEMMA DispatchType ==
  ASSUME VMTypeOK, VMDispatch
  PROVE  VMTypeOK'
BY DEF VMTypeOK, VMDispatch

-----------------------------------------------------------------------------
(* What a step of the engine may do to each frame of the stack.              *)

\* A frame with another above it is inside a call.
CallersAtCalls ==
  \A i \in DOMAIN stack : i < Depth =>
    ~stack[i].exc /\ Code(OpArray[stack[i].fn], stack[i].pc) = "CALL"

OpOf(i) == OpArray[stack[i].fn].opcodes[stack[i].pc]

LEMMA SameInterval ==
  ASSUME NEW m \in Nat, NEW n \in Nat, 1 .. m = 1 .. n
  PROVE  m = n
<1>1. CASE m < n
  BY <1>1, n \in 1 .. n, n \notin 1 .. m
<1>2. CASE n < m
  BY <1>2, m \in 1 .. m, m \notin 1 .. n
<1> QED
  BY <1>1, <1>2

\* It stays inside a call, or is entered by one.
Keeps(i) ==
  /\ i \in DOMAIN stack /\ i < Depth' /\ stack'[i] = stack[i]
  /\ ~stack[i].exc /\ OpOf(i).code = "CALL"
  /\ i < Depth \/ dispatched

\* It has finished its op and goes on to another.
Moves(i, q) ==
  /\ i \in DOMAIN stack /\ i = Depth' /\ ~dispatched' /\ ~stack[i].exc
  /\ q \in NextOps(OpOf(i), stack[i].pc) \cap Ops(OpArray[stack[i].fn])
  /\ stack'[i] = [stack[i] EXCEPT !.pc = q]
  /\ \/ i = Depth /\ dispatched = (OpOf(i).code # "NOP")
     \/ i < Depth /\ OpOf(i).code = "CALL"

Enters(i) ==
  /\ i = Depth + 1 /\ i = Depth' /\ ~dispatched'
  /\ \E f \in Callees[Top.fn] : stack'[i] = FrameAt(f, 0)

Throws(i) ==
  /\ i \in DOMAIN stack /\ i = Depth' /\ ~dispatched'
  /\ stack'[i] = [stack[i] EXCEPT !.exc = TRUE]

Catches(i) ==
  /\ i \in DOMAIN stack /\ i = Depth /\ i = Depth'
  /\ ~dispatched' /\ stack[i].exc /\ OpOf(i).catch # NONE
  /\ stack'[i] = FrameAt(stack[i].fn, OpOf(i).catch)

LEMMA FrameSteps ==
  ASSUME VMTypeOK, VMTypeOK', CallersAtCalls, VMStep, NEW i \in DOMAIN stack'
  PROVE  \/ Keeps(i)
         \/ \E q : Moves(i, q)
         \/ Enters(i)
         \/ Throws(i)
         \/ Catches(i)
<1>1. /\ Depth \in Nat /\ DOMAIN stack = 1 .. Depth
      /\ Depth' \in Nat /\ DOMAIN stack' = 1 .. Depth'
  BY LenProperties DEF VMTypeOK, Depth
<1>2. i \in 1 .. Depth'
  BY <1>1
<1>3. stack # <<>> => Depth \in Nat \ {0} /\ Top = stack[Depth] /\ CurrentOp = OpOf(Depth)
  BY TopFrame DEF Top, CurrentOp, OpOf
<1>4. \A j \in DOMAIN stack : j < Depth => ~stack[j].exc /\ OpOf(j).code = "CALL"
  BY DEF CallersAtCalls, OpOf, Code
<1>5. \A j \in DOMAIN stack : stack[j] \in Frames
  BY FrameAtIndex
<1>6. CASE Continue
  <2>1. stack # <<>> /\ ~Top.exc /\ dispatched = (CurrentOp.code # "NOP")
    BY <1>6 DEF Continue, Running
  <2>2. PICK q \in NextOps(CurrentOp, Top.pc) : GoTo(q)
    BY <1>6 DEF Continue
  <2>3. stack' = [stack EXCEPT ![Depth].pc = q] /\ ~dispatched' /\ q \in Ops(OpArray[Top.fn])
    BY <2>2 DEF GoTo
  <2>4. DOMAIN stack' = DOMAIN stack
    BY <2>3
  <2>5. Depth' = Depth
    BY <1>1, <2>4
  <2>6. CASE i = Depth
    <3>1. stack'[i] = [stack[i] EXCEPT !.pc = q]
      BY <1>1, <1>2, <2>3, <2>5, <2>6
    <3>2. Moves(i, q)
      BY <1>1, <1>2, <1>3, <2>1, <2>2, <2>3, <2>5, <2>6, <3>1 DEF Moves
    <3> QED
      BY <3>2
  <2>7. CASE i # Depth
    <3>1. stack'[i] = stack[i] /\ i < Depth
      BY <1>1, <1>2, <2>3, <2>5, <2>7
    <3>2. Keeps(i)
      BY <1>1, <1>2, <1>4, <2>5, <3>1 DEF Keeps
    <3> QED
      BY <3>2
  <2> QED
    BY <2>6, <2>7
<1>7. CASE Call
  <2>1. stack # <<>> /\ ~Top.exc /\ dispatched /\ CurrentOp.code = "CALL" /\ ~dispatched'
    BY <1>7 DEF Call, Running
  <2>2. PICK f \in Callees[Top.fn] : stack' = Append(stack, FrameAt(f, 0))
    BY <1>7 DEF Call
  <2>3. /\ Depth' = Depth + 1 /\ stack'[Depth + 1] = FrameAt(f, 0)
        /\ \A j \in 1 .. Depth : stack'[j] = stack[j]
    BY <2>2, AppendProperties DEF Depth, VMTypeOK
  <2>4. CASE i = Depth + 1
    BY <1>1, <2>1, <2>2, <2>3, <2>4 DEF Enters
  <2>5. CASE i # Depth + 1
    <3>1. i \in 1 .. Depth /\ i < Depth'
      BY <1>1, <1>2, <2>3, <2>5
    <3>2. Keeps(i)
      BY <1>1, <1>3, <1>4, <2>1, <2>3, <3>1 DEF Keeps
    <3> QED
      BY <3>2
  <2> QED
    BY <2>4, <2>5
<1>8. CASE Return
  <2>1. stack # <<>> /\ ~dispatched' /\ stack' = Popped(FALSE)
        /\ (Depth > 1 => stack[Depth - 1].pc + 1 \in Ops(OpArray[stack[Depth - 1].fn]))
    BY <1>8 DEF Return, Running
  <2>2. DOMAIN stack' = 1 .. Depth - 1
    BY <2>1 DEF Popped
  <2>3. Depth' = Depth - 1
    <3>1. Depth - 1 \in Nat
      BY <1>1, <1>3, <2>1
    <3>2. 1 .. Depth' = 1 .. Depth - 1
      BY <1>1, <2>2
    <3> QED
      BY <1>1, <3>1, <3>2, SameInterval
  <2>4. i \in 1 .. Depth - 1 /\ i \in DOMAIN stack /\ i < Depth
    BY <1>1, <1>2, <2>3
  <2>5. ~stack[i].exc /\ OpOf(i).code = "CALL"
    BY <1>4, <2>4
  <2>6. CASE i < Depth - 1
    <3>1. stack'[i] = stack[i]
      BY <2>1, <2>4, <2>6 DEF Popped
    <3> QED
      BY <2>3, <2>4, <2>5, <2>6, <3>1 DEF Keeps
  <2>7. CASE i = Depth - 1
    <3>1. stack'[i] = [stack[i] EXCEPT !.pc = @ + 1]
      BY <2>1, <2>4, <2>7 DEF Popped
    <3>2. stack'[i] = [stack[i] EXCEPT !.pc = stack[i].pc + 1]
      BY <3>1
    <3>3. stack[i].pc + 1 \in NextOps(OpOf(i), stack[i].pc)
      BY <2>5 DEF NextOps, ControlFlow
    <3>4. stack[i].pc + 1 \in Ops(OpArray[stack[i].fn])
      BY <1>1, <2>1, <2>4, <2>7
    <3>5. Moves(i, stack[i].pc + 1)
      BY <1>1, <2>1, <2>3, <2>4, <2>5, <2>7, <3>2, <3>3, <3>4 DEF Moves
    <3> QED
      BY <3>5
  <2> QED
    BY <1>1, <2>4, <2>6, <2>7
<1>9. CASE Throw
  <2>1. stack # <<>> /\ ~dispatched' /\ stack' = [stack EXCEPT ![Depth].exc = TRUE]
    BY <1>9 DEF Throw, Running
  <2>2. DOMAIN stack' = DOMAIN stack
    BY <2>1
  <2>3. Depth' = Depth
    BY <1>1, <2>2
  <2>4. CASE i = Depth
    BY <1>1, <1>2, <2>1, <2>3, <2>4 DEF Throws
  <2>5. CASE i # Depth
    <3>1. stack'[i] = stack[i] /\ i < Depth
      BY <1>1, <1>2, <2>1, <2>3, <2>5
    <3>2. Keeps(i)
      BY <1>1, <1>2, <1>4, <2>3, <3>1 DEF Keeps
    <3> QED
      BY <3>2
  <2> QED
    BY <2>4, <2>5
<1>10. CASE Unwind /\ CurrentOp.catch # NONE
  <2>1. /\ stack # <<>> /\ ~dispatched' /\ Top.exc
        /\ stack' = [stack EXCEPT ![Depth] = FrameAt(Top.fn, CurrentOp.catch)]
    BY <1>10 DEF Unwind
  <2>2. DOMAIN stack' = DOMAIN stack
    BY <2>1
  <2>3. Depth' = Depth
    BY <1>1, <2>2
  <2>4. CASE i = Depth
    BY <1>1, <1>2, <1>3, <1>10, <2>1, <2>2, <2>3, <2>4 DEF Catches
  <2>5. CASE i # Depth
    <3>1. stack'[i] = stack[i] /\ i < Depth
      BY <1>1, <1>2, <2>1, <2>3, <2>5
    <3>2. Keeps(i)
      BY <1>1, <1>2, <1>4, <2>3, <3>1 DEF Keeps
    <3> QED
      BY <3>2
  <2> QED
    BY <2>4, <2>5
<1>11. CASE Unwind /\ CurrentOp.catch = NONE
  <2>1. stack # <<>> /\ ~dispatched' /\ stack' = Popped(TRUE)
    BY <1>11 DEF Unwind
  <2>2. DOMAIN stack' = 1 .. Depth - 1
    BY <2>1 DEF Popped
  <2>3. Depth' = Depth - 1
    <3>1. Depth - 1 \in Nat
      BY <1>1, <1>3, <2>1
    <3>2. 1 .. Depth' = 1 .. Depth - 1
      BY <1>1, <2>2
    <3> QED
      BY <1>1, <3>1, <3>2, SameInterval
  <2>4. i \in 1 .. Depth - 1 /\ i \in DOMAIN stack /\ i < Depth
    BY <1>1, <1>2, <2>3
  <2>5. CASE i < Depth - 1
    <3>1. stack'[i] = stack[i]
      BY <2>1, <2>4, <2>5 DEF Popped
    <3>2. Keeps(i)
      BY <1>4, <2>3, <2>4, <2>5, <3>1 DEF Keeps
    <3> QED
      BY <3>2
  <2>6. CASE i = Depth - 1
    <3>1. stack'[i] = [stack[i] EXCEPT !.exc = TRUE]
      BY <2>1, <2>4, <2>6 DEF Popped
    <3> QED
      BY <2>1, <2>3, <2>4, <2>6, <3>1 DEF Throws
  <2> QED
    BY <1>1, <2>4, <2>5, <2>6
<1>12. CASE Bailout
  <2>1. Depth' = 0
    BY <1>12, EmptySeq DEF Bailout, Depth
  <2> QED
    BY <1>2, <2>1
<1> QED
  BY <1>6, <1>7, <1>8, <1>9, <1>10, <1>11, <1>12 DEF VMStep

\* A frame leaves the stack by returning or by an exception.
LEMMA FramesLeft ==
  ASSUME VMTypeOK, VMTypeOK', VMStep, stack' # <<>>, NEW i \in DOMAIN stack, i \notin DOMAIN stack'
  PROVE  i = Depth /\ (stack[i].exc \/ (OpOf(i).code = "RETURN" /\ dispatched))
<1>1. /\ Depth \in Nat /\ DOMAIN stack = 1 .. Depth
      /\ Depth' \in Nat /\ DOMAIN stack' = 1 .. Depth'
  BY LenProperties DEF VMTypeOK, Depth
<1>2. stack # <<>> => Top = stack[Depth] /\ CurrentOp = OpOf(Depth)
  BY DEF Top, CurrentOp, OpOf
<1>3. ASSUME NEW thrown \in BOOLEAN, stack # <<>>, stack' = Popped(thrown)
      PROVE  i = Depth
  <2>1. DOMAIN stack' = 1 .. Depth - 1
    BY <1>3 DEF Popped
  <2> QED
    BY <1>1, <2>1
<1>4. CASE Continue \/ Throw
  <2>1. DOMAIN stack' = DOMAIN stack
    BY <1>4 DEF Continue, Throw, GoTo
  <2> QED
    BY <2>1
<1>5. CASE Call
  <2>1. PICK f \in Callees[Top.fn] : stack' = Append(stack, FrameAt(f, 0))
    BY <1>5 DEF Call
  <2>2. Depth' = Depth + 1
    BY <2>1, AppendProperties DEF Depth, VMTypeOK
  <2> QED
    BY <1>1, <2>2
<1>6. CASE Return
  BY <1>2, <1>3, <1>6 DEF Return, Running
<1>7. CASE Unwind
  <2>1. CASE CurrentOp.catch # NONE
    <3>1. DOMAIN stack' = DOMAIN stack
      BY <1>7, <2>1 DEF Unwind
    <3> QED
      BY <3>1
  <2>2. CASE CurrentOp.catch = NONE
    BY <1>2, <1>3, <1>7, <2>2 DEF Unwind
  <2> QED
    BY <2>1, <2>2
<1>8. CASE Bailout
  BY <1>8 DEF Bailout
<1> QED
  BY <1>4, <1>5, <1>6, <1>7, <1>8 DEF VMStep

LEMMA CallersStep ==
  ASSUME VMTypeOK, VMTypeOK', CallersAtCalls, VMStep
  PROVE  CallersAtCalls'
<1> SUFFICES ASSUME NEW i \in DOMAIN stack', i < Depth'
             PROVE  ~stack'[i].exc /\ Code(OpArray[stack'[i].fn], stack'[i].pc) = "CALL"
  BY DEF CallersAtCalls
<1>1. Keeps(i)
  <2>1. Depth' \in Nat /\ DOMAIN stack' = 1 .. Depth' /\ i # Depth'
    BY LenProperties DEF VMTypeOK, Depth
  <2> QED
    BY <2>1, FrameSteps DEF Moves, Enters, Throws, Catches
<1> QED
  BY <1>1 DEF Keeps, OpOf, Code

-----------------------------------------------------------------------------
(* The recorder keeps its type.                                              *)

LEMMA AnalysisFacts ==
  ASSUME NEW f \in Funcs
  PROVE  /\ Analysis[f].num_blocks \in Nat
         /\ BlocksOf(f) \subseteq Nat
         /\ IsFiniteSet(BlocksOf(f))
         /\ Cardinality(BlocksOf(f)) = Analysis[f].num_blocks
         /\ IsFiniteSet(EdgesOf(f))
         /\ \A p \in Ops(OpArray[f]) :
              /\ Analysis[f].op_to_block[p] \in BlocksOf(f)
              /\ Analysis[f].op_to_block[p] = OpToBlock(OpArray[f])[p]
<1>1. Analysis[f] = Analyse(OpArray[f]) /\ IsOpArray(OpArray[f])
  BY VMAssumption DEF Analysis
<1>2. \A p \in Ops(OpArray[f]) :
        /\ Analysis[f].num_blocks \in Nat \ {0}
        /\ Analysis[f].op_to_block[p] = OpToBlock(OpArray[f])[p]
        /\ Analysis[f].op_to_block[p] \in 0 .. Analysis[f].num_blocks - 1
  BY <1>1, BlockInRange
<1>3. 0 \in Ops(OpArray[f])
  BY <1>1 DEF IsOpArray, Ops
<1>4. Analysis[f].num_blocks \in Nat
  BY <1>2, <1>3
<1>5. /\ IsFiniteSet(0 .. Analysis[f].num_blocks - 1)
      /\ Cardinality(0 .. Analysis[f].num_blocks - 1) = Analysis[f].num_blocks
  BY <1>4, FirstNaturals
<1>6. IsFiniteSet(EdgesOf(f))
  BY <1>4, RealEdgesFinite DEF EdgesOf
<1> QED
  BY <1>2, <1>4, <1>5, <1>6 DEF BlocksOf

\* The op the handler is called for belongs to a block of the running function.
LEMMA DispatchedBlock ==
  ASSUME VMTypeOK, VMDispatch
  PROVE  /\ request
         /\ Top.fn \in Funcs
         /\ Analysis[Top.fn].op_to_block[Top.pc] \in BlocksOf(Top.fn)
         /\ Analysis[Top.fn].op_to_block[Top.pc] = OpToBlock(OpArray[Top.fn])[Top.pc]
<1>1. stack # <<>>
  BY DEF VMDispatch, Hooked
<1> QED
  BY <1>1, TopFrame, AnalysisFacts DEF VMTypeOK

LEMMA SlotFacts ==
  ASSUME NEW f \in Funcs
  PROVE  /\ SlotOf(f) \in Slots
         /\ FileOf[f] \in Files
BY FilterAssumption DEF Slots

-----------------------------------------------------------------------------
(* A mark adds a block, and edges in a branch session, to a runtime.         *)
LEMMA MarkedRuntime ==
  ASSUME TypeOK, NEW f \in Funcs, NEW b \in BlocksOf(f)
  PROVE  /\ RuntimeFor(f) \in Runtimes
         /\ AfterMark(f, b) \in Runtimes
         /\ AfterMark(f, b).fn = RuntimeFor(f).fn
         /\ AfterMark(f, b).edge_buf = RuntimeFor(f).edge_buf
         /\ AfterMark(f, b).block_hit = RuntimeFor(f).block_hit \cup {b}
         /\ AfterMark(f, b).edge_hit =
              RuntimeFor(f).edge_hit \cup (IF Branching /\ RuntimeFor(f).edge_buf
                                           THEN EdgeTaken(f, b) ELSE {})
<1>1. RuntimeFor(f) \in Runtimes
  <2>1. CASE SlotOf(f) \in DOMAIN files
    BY <2>1 DEF TypeOK, RuntimeFor
  <2>2. CASE SlotOf(f) \notin DOMAIN files
    BY <2>2 DEF RuntimeFor, Runtimes, Branching
  <2> QED
    BY <2>1, <2>2
<1>2. EdgeTaken(f, b) \subseteq Nat \X (1 .. MaxOuts)
  BY DEF EdgeTaken, TypeOK
<1> DEFINE rt == RuntimeFor(f)
           edges == IF Branching /\ rt.edge_buf THEN EdgeTaken(f, b) ELSE {}
<1>3. edges \subseteq Nat \X (1 .. MaxOuts)
  BY <1>2
<1>4. b \in Nat
  BY AnalysisFacts
<1>5. AfterMark(f, b) = [rt EXCEPT !.block_hit = @ \cup {b}, !.edge_hit = @ \cup edges]
  BY DEF AfterMark
<1> HIDE DEF rt, edges
<1>6. rt \in Runtimes
  BY <1>1 DEF rt
<1>7. /\ AfterMark(f, b) \in Runtimes
      /\ AfterMark(f, b).fn = rt.fn
      /\ AfterMark(f, b).edge_buf = rt.edge_buf
      /\ AfterMark(f, b).block_hit = rt.block_hit \cup {b}
      /\ AfterMark(f, b).edge_hit = rt.edge_hit \cup edges
  BY <1>3, <1>4, <1>5, <1>6 DEF Runtimes
<1> QED
  BY <1>1, <1>7 DEF rt, edges

-----------------------------------------------------------------------------
(* Type correctness.                                                         *)

LEMMA FloorsType ==
  ASSUME TypeOK
  PROVE  /\ DOMAIN LowerFloors \subseteq Funcs
         /\ LowerFloors \in [DOMAIN LowerFloors -> Nat]
<1> DEFINE ops(f) == OpsInFlight(f)
                       \cup (IF f \in DOMAIN start_floors THEN {start_floors[f]} ELSE {})
           least(f) == CHOOSE p \in ops(f) : \A q \in ops(f) : p <= q
           D == DOMAIN start_floors \cup InFlight
<1>1. D \subseteq Funcs
  BY DEF TypeOK, InFlight
<1>2. ASSUME NEW f \in D
      PROVE  least(f) \in Nat
  <2>1. \A j \in DOMAIN stack : stack[j].pc \in Nat
    BY FrameAtIndex DEF TypeOK
  <2>2. OpsInFlight(f) \subseteq Nat
    BY <2>1 DEF OpsInFlight
  <2>3. f \in DOMAIN start_floors => start_floors[f] \in Nat
    BY DEF TypeOK
  <2>4. ops(f) \subseteq Nat /\ ops(f) # {}
    BY <2>2, <2>3 DEF InFlight
  <2> HIDE DEF ops
  <2>5. \E p \in ops(f) : \A q \in ops(f) : p <= q
    BY <2>4, LeastNatural
  <2> QED
    BY <2>4, <2>5
<1>3. LowerFloors = [f \in D |-> least(f)]
  BY DEF LowerFloors
<1> HIDE DEF D, least
<1> QED
  BY <1>1, <1>2, <1>3

LEMMA FilterType ==
  ASSUME FilterTypeOK
  PROVE  /\ UNCHANGED filterVars => FilterTypeOK'
         /\ \A list \in FilterLists : ReplaceFilter(list) => FilterTypeOK'
         /\ FreeFilter => FilterTypeOK'
         /\ ResetFilter => FilterTypeOK'
BY FilterAssumption DEF FilterTypeOK, filterVars, ReplaceFilter, FreeFilter, ResetFilter, Prefixes

LEMMA InitType == Init => TypeOK
<1> SUFFICES ASSUME Init PROVE TypeOK
  OBVIOUS
<1>1. VMTypeOK
  BY VMInitType DEF Init
<1>2. FilterTypeOK
  BY DEF Init, FilterInit, FilterTypeOK
<1>3. DOMAIN files \subseteq Slots /\ files \in [DOMAIN files -> Runtimes]
  BY EmptyFunction DEF Init
<1>4. DOMAIN start_floors \subseteq Funcs /\ start_floors \in [DOMAIN start_floors -> Nat]
  BY EmptyFunction DEF Init
<1>5. edge_last \in [frame : Nat, rt : Slots \cup {NoSlot}, block : Nat]
  BY DEF Init, NoEdge
<1>6. saturation \in [Funcs -> [saturated : BOOLEAN, generation : Nat]]
  BY DEF Init, NotSaturated
<1>7. sat_generation \in 0 .. MaxGeneration
  BY CoverageAssumption DEF Init
<1> QED
  BY <1>1, <1>2, <1>3, <1>4, <1>5, <1>6, <1>7 DEF Init, TypeOK

LEMMA MarkRecordsType ==
  ASSUME TypeOK, VMDispatch, MarkRecords, UNCHANGED filterVars
  PROVE  TypeOK'
<1> DEFINE f == Top.fn
           b == Analysis[f].op_to_block[Top.pc]
<1>1. f \in Funcs /\ b \in BlocksOf(f) /\ b \in Nat
  BY DispatchedBlock, AnalysisFacts DEF TypeOK
<1>2. AfterMark(f, b) \in Runtimes
  BY <1>1, MarkedRuntime
<1>3. SlotOf(f) \in Slots /\ FileOf[f] \in Files
  BY <1>1, SlotFacts
<1>4. files' = [s \in DOMAIN files \cup {SlotOf(f)} |->
                  IF s = SlotOf(f) THEN AfterMark(f, b) ELSE files[s]]
  BY DEF MarkRecords
<1>5. DOMAIN files' \subseteq Slots /\ files' \in [DOMAIN files' -> Runtimes]
  <2> HIDE DEF f, b
  <2> QED
    BY <1>2, <1>3, <1>4 DEF TypeOK
<1>6. branch_info' \subseteq Files
  BY <1>3 DEF MarkRecords, TypeOK
<1>7. edge_last' \in [frame : Nat, rt : Slots \cup {NoSlot}, block : Nat]
  <2>1. Depth \in Nat
    BY TopFrame DEF VMDispatch, Hooked, TypeOK
  <2>2. \/ edge_last' = edge_last
        \/ edge_last' = [frame |-> Depth, rt |-> SlotOf(f), block |-> b]
    BY DEF MarkRecords
  <2> HIDE DEF f, b
  <2> QED
    BY <1>1, <1>3, <2>1, <2>2 DEF TypeOK
<1>8. /\ saturation' \in [Funcs -> [saturated : BOOLEAN, generation : Nat]]
      /\ sat_last_opcodes' \in Funcs \cup {NoFunc}
  <2>1. sat_generation \in Nat
    BY CoverageAssumption DEF TypeOK
  <2> DEFINE mark == [saturated |-> TRUE, generation |-> sat_generation]
  <2>2. \/ UNCHANGED <<saturation, sat_last_opcodes>>
        \/ saturation' = [saturation EXCEPT ![f] = mark] /\ sat_last_opcodes' = f
    BY DEF MarkRecords
  <2>3. mark \in [saturated : BOOLEAN, generation : Nat]
    BY <2>1
  <2> HIDE DEF f, mark
  <2> QED
    BY <1>1, <2>2, <2>3 DEF TypeOK
<1>9. VMTypeOK' /\ FilterTypeOK'
  BY DispatchType, FilterType DEF TypeOK
<1> QED
  BY <1>5, <1>6, <1>7, <1>8, <1>9 DEF MarkRecords, TypeOK, sessionVars

LEMMA StepType == TypeOK /\ [Next]_vars => TypeOK'
<1> SUFFICES ASSUME TypeOK, [Next]_vars PROVE TypeOK'
  OBVIOUS
<1> USE DEF TypeOK
<1>1. CASE Dispatch
  <2>1. VMTypeOK' /\ FilterTypeOK'
    BY <1>1, DispatchType, FilterType DEF Dispatch
  <2>2. CASE MarkReturnsEarly
    BY <2>1, <2>2 DEF MarkReturnsEarly, recorderVars, sessionVars, dataVars, slotVars, satVars
  <2>3. CASE MarkReprimesSlot
    <3>1. Top.fn \in Funcs
      BY <1>1, DispatchedBlock DEF Dispatch
    <3> QED
      BY <2>1, <2>3, <3>1 DEF MarkReprimesSlot, sessionVars, dataVars, satVars
  <2>4. CASE MarkRecords
    BY <1>1, <2>4, MarkRecordsType DEF Dispatch
  <2> QED
    BY <1>1, <2>2, <2>3, <2>4 DEF Dispatch
<1>2. CASE Run
  <2>1. VMTypeOK' /\ FilterTypeOK'
    BY <1>2, VMStepType, FilterType DEF Run
  <2> QED
    BY <1>2, <2>1 DEF Run, recorderVars, sessionVars, dataVars, slotVars, satVars
<1>3. ASSUME NEW flags \in FlagSets, StartCoverage(flags)
      PROVE  TypeOK'
  <2>1. VMTypeOK' /\ FilterTypeOK'
    BY <1>3, AfterInternalCallType, FilterType DEF StartCoverage
  <2>2. DOMAIN start_floors' \subseteq Funcs /\ start_floors' \in [DOMAIN start_floors' -> Nat]
    BY <1>3, FloorsType DEF StartCoverage
  <2>3. sat_generation' \in 0 .. MaxGeneration
    BY <1>3, CoverageAssumption DEF StartCoverage
  <2>4. coverage_flags' \subseteq Flags
    BY <1>3, CoverageAssumption DEF StartCoverage
  <2>5. edge_last' \in [frame : Nat, rt : Slots \cup {NoSlot}, block : Nat]
    BY <1>3 DEF StartCoverage, ResetSlots, NoEdge
  <2> QED
    BY <1>3, <2>1, <2>2, <2>3, <2>4, <2>5 DEF StartCoverage, ResetSlots
<1>4. CASE StopCoverage
  <2>1. VMTypeOK' /\ FilterTypeOK'
    BY <1>4, AfterInternalCallType, FilterType DEF StopCoverage
  <2> QED
    BY <1>4, <2>1 DEF StopCoverage, dataVars, slotVars, satVars
<1>5. CASE SetFilter
  <2>1. VMTypeOK' /\ FilterTypeOK'
    BY <1>5, AfterInternalCallType, FilterType DEF SetFilter
  <2> QED
    BY <1>5, <2>1 DEF SetFilter, recorderVars, sessionVars, dataVars, slotVars, satVars
<1>6. CASE RInit
  <2>1. VMTypeOK' /\ FilterTypeOK'
    BY <1>6, StartRequestType, FilterType DEF RInit
  <2> QED
    BY <1>6, <2>1, EmptyFunction DEF RInit, slotVars, satVars
<1>7. CASE RShutdown
  <2>1. VMTypeOK' /\ FilterTypeOK'
    BY <1>7, EndRequestType, FilterType DEF RShutdown
  <2>2. saturation' \in [Funcs -> [saturated : BOOLEAN, generation : Nat]]
    BY <1>7 DEF RShutdown, FreeAnalyses, NotSaturated
  <2> QED
    BY <1>7, <2>1, <2>2, EmptyFunction DEF RShutdown, slotVars
<1>8. CASE UNCHANGED vars
  BY <1>8 DEF vars, vmVars, filterVars, recorderVars, sessionVars, dataVars, slotVars,
     satVars, VMTypeOK, FilterTypeOK
<1> QED
  BY <1>1, <1>2, <1>3, <1>4, <1>5, <1>6, <1>7, <1>8 DEF Next

(* Whatever programs run, calls are made and requests come and go, the state *)
(* of the recorder keeps its type: runtimes are only filed under slots of    *)
(* functions that exist, and floors are ops.                                 *)
THEOREM TypeCorrect == Spec => []TypeOK
<1>1. Init => TypeOK
  BY InitType
<1>2. TypeOK /\ [Next]_vars => TypeOK'
  BY StepType
<1> QED
  BY <1>1, <1>2, PTL DEF Spec

-----------------------------------------------------------------------------
(* The caches are sound when no two functions share a key.                   *)

LEMMA OwnRuntime ==
  ASSUME TypeOK, RuntimesOwned, KeysDistinct, NEW f \in Funcs
  PROVE  /\ RuntimeFor(f).fn = f
         /\ RuntimeFor(f).block_hit \subseteq BlocksOf(f)
         /\ RuntimeFor(f).edge_hit \subseteq EdgesOf(f)
         /\ ~RuntimeFor(f).edge_buf => RuntimeFor(f).edge_hit = {}
<1>1. CASE SlotOf(f) \in DOMAIN files
  <2> DEFINE rt == files[SlotOf(f)]
  <2>1. rt.fn \in Funcs /\ SlotOf(f) = SlotOf(rt.fn)
    BY <1>1 DEF TypeOK, Runtimes, RuntimesOwned
  <2>2. rt.fn = f
    BY <2>1 DEF KeysDistinct
  <2> QED
    BY <1>1, <2>2 DEF RuntimeFor, RuntimesOwned
<1>2. CASE SlotOf(f) \notin DOMAIN files
  BY <1>2 DEF RuntimeFor
<1> QED
  BY <1>1, <1>2

LEMMA TakenIsReal ==
  ASSUME TypeOK, NEW f \in Funcs, NEW b \in BlocksOf(f), NEW e \in EdgeTaken(f, b)
  PROVE  /\ e \in EdgesOf(f)
         /\ EdgeEnds(f, e) = {edge_last.block, b}
         /\ edge_last.frame = Depth /\ edge_last.rt = SlotOf(f)
<1> DEFINE from == edge_last.block
           outs == Analysis[f].outs[from]
<1>1. /\ edge_last.frame = Depth /\ edge_last.rt = SlotOf(f)
      /\ from < Analysis[f].num_blocks
  BY DEF EdgeTaken
<1>2. PICK i \in 1 .. MaxOuts : e = <<from, i>> /\ i \in DOMAIN outs /\ outs[i] = b
  BY <1>1 DEF EdgeTaken
<1>3. from \in 0 .. Analysis[f].num_blocks - 1
  BY <1>1, AnalysisFacts DEF TypeOK
<1>4. b # EXIT
  BY AnalysisFacts DEF EXIT
<1>5. e[1] = from /\ e[2] = i
  BY <1>2
<1>6. e \in EdgesOf(f)
  <2>1. e \in (0 .. Analysis[f].num_blocks - 1) \X (1 .. MaxOuts)
    BY <1>2, <1>3
  <2> QED
    BY <1>2, <1>4, <1>5, <2>1 DEF EdgesOf, RealEdges
<1> QED
  BY <1>1, <1>2, <1>5, <1>6 DEF EdgeEnds

\* After the mark of a block, the runtime of the function owns its buffers.
LEMMA MarkOwned ==
  ASSUME TypeOK, RuntimesOwned, KeysDistinct, NEW f \in Funcs, NEW b \in BlocksOf(f)
  PROVE  /\ AfterMark(f, b).fn = f
         /\ AfterMark(f, b).block_hit \subseteq BlocksOf(f)
         /\ AfterMark(f, b).edge_hit \subseteq EdgesOf(f)
         /\ ~AfterMark(f, b).edge_buf => AfterMark(f, b).edge_hit = {}
BY MarkedRuntime, OwnRuntime, TakenIsReal

\* The counts that Completes compares decide that nothing is left to record.
LEMMA CompleteMeansAll ==
  ASSUME TypeOK, RuntimesOwned, KeysDistinct, NEW f \in Funcs, NEW b \in BlocksOf(f),
         Completes(f, b)
  PROVE  /\ AfterMark(f, b).block_hit = BlocksOf(f)
         /\ Branching /\ AfterMark(f, b).edge_buf => AfterMark(f, b).edge_hit = EdgesOf(f)
<1> DEFINE rt == AfterMark(f, b)
<1>1. rt.fn = f /\ rt.block_hit \in SUBSET BlocksOf(f) /\ rt.edge_hit \in SUBSET EdgesOf(f)
  BY MarkOwned
<1>2. rt.block_hit = BlocksOf(f)
  <2>1. Cardinality(rt.block_hit) >= Cardinality(BlocksOf(f))
    BY AnalysisFacts DEF Completes
  <2>2. IsFiniteSet(BlocksOf(f))
    BY AnalysisFacts
  <2> QED
    BY <1>1, <2>1, <2>2, FullSubset
<1>3. ASSUME Branching, rt.edge_buf
      PROVE  rt.edge_hit = EdgesOf(f)
  <2>1. Cardinality(rt.edge_hit) >= Cardinality(EdgesOf(f))
    BY <1>1, <1>3 DEF Completes, EdgesTotal
  <2>2. IsFiniteSet(EdgesOf(f))
    BY AnalysisFacts
  <2> QED
    BY <1>1, <2>1, <2>2, FullSubset
<1> QED
  BY <1>2, <1>3

LEMMA MarkRecordsSound ==
  ASSUME KeysDistinct, IInv, VMDispatch, MarkRecords, UNCHANGED filterVars
  PROVE  IInv'
<1> DEFINE f == Top.fn
           b == Analysis[f].op_to_block[Top.pc]
           slot == SlotOf(f)
           rt == RuntimeFor(f)
           marked == AfterMark(f, b)
<1>1. TypeOK /\ RuntimesOwned /\ TypeOK'
  BY MarkRecordsType DEF IInv
<1>2. f \in Funcs /\ b \in BlocksOf(f) /\ request /\ coverage_active
  BY <1>1, DispatchedBlock DEF MarkRecords, ReachesAnalysis, TypeOK
<1>3. UNCHANGED <<request, coverage_active, coverage_flags, allocated, sat_generation>>
  BY DEF VMDispatch, MarkRecords, sessionVars
<1>4. /\ marked.fn = f
      /\ marked.block_hit \subseteq BlocksOf(f)
      /\ marked.edge_hit \subseteq EdgesOf(f)
      /\ ~marked.edge_buf => marked.edge_hit = {}
  BY <1>1, <1>2, MarkOwned
<1>5. /\ DOMAIN files' = DOMAIN files \cup {slot}
      /\ files'[slot] = marked
      /\ \A s \in DOMAIN files : s # slot => files'[s] = files[s]
  BY DEF MarkRecords
<1>6. slot \in DOMAIN files => rt = files[slot]
  BY DEF RuntimeFor
<1>7. slot \notin DOMAIN files => rt.edge_hit = {}
  BY DEF RuntimeFor
<1>8. /\ marked.block_hit = rt.block_hit \cup {b}
      /\ marked.edge_buf = rt.edge_buf
      /\ marked.edge_hit = rt.edge_hit \cup (IF Branching /\ rt.edge_buf THEN EdgeTaken(f, b) ELSE {})
  BY <1>1, <1>2, MarkedRuntime
<1>9. \/ /\ Completes(f, b)
         /\ saturation' = [saturation EXCEPT
                ![f] = [saturated |-> TRUE, generation |-> sat_generation]]
         /\ sat_last_opcodes' = f
      \/ UNCHANGED <<saturation, sat_last_opcodes>>
  BY DEF MarkRecords
<1>10. ~Saturated(f)
  BY DEF MarkRecords
<1>11. Completes(f, b) =>
         /\ marked.block_hit = BlocksOf(f)
         /\ Branching /\ marked.edge_buf => marked.edge_hit = EdgesOf(f)
  BY <1>1, <1>2, CompleteMeansAll
<1>12. \/ edge_last' = [frame |-> Depth, rt |-> slot, block |-> b]
       \/ edge_last' = edge_last
  BY DEF MarkRecords
<1>13. \A e \in EdgeTaken(f, b) :
         /\ EdgeEnds(f, e) = {edge_last.block, b}
         /\ edge_last.frame # 0 /\ edge_last.rt = slot
  <2>1. Depth # 0
    BY <1>1, TopFrame DEF TypeOK, VMDispatch, Hooked
  <2> QED
    BY <1>1, <1>2, <2>1, TakenIsReal
<1>14. saturation \in [Funcs -> [saturated : BOOLEAN, generation : Nat]]
  BY <1>1 DEF TypeOK
<1> HIDE DEF f, b, slot, rt, marked
<1>15. RuntimesOwned'
  <2> SUFFICES ASSUME NEW s \in DOMAIN files'
               PROVE  /\ s = SlotOf(files'[s].fn)
                      /\ files'[s].block_hit \subseteq BlocksOf(files'[s].fn)
                      /\ files'[s].edge_hit \subseteq EdgesOf(files'[s].fn)
                      /\ ~files'[s].edge_buf => files'[s].edge_hit = {}
    BY DEF RuntimesOwned
  <2>1. CASE s = slot
    BY <1>4, <1>5, <2>1 DEF slot
  <2>2. CASE s # slot
    BY <1>1, <1>5, <2>2 DEF RuntimesOwned
  <2> QED
    BY <2>1, <2>2
<1>16. SaturationSound'
  <2> SUFFICES ASSUME NEW g \in Funcs, Saturated(g)'
               PROVE  /\ SlotOf(g) \in DOMAIN files'
                      /\ files'[SlotOf(g)].block_hit = BlocksOf(g)
                      /\ Branching /\ files'[SlotOf(g)].edge_buf =>
                           files'[SlotOf(g)].edge_hit = EdgesOf(g)
    BY <1>3 DEF SaturationSound, Branching
  <2>1. CASE g = f
    <3>1. Completes(f, b)
      BY <1>3, <1>9, <1>10, <2>1 DEF Saturated
    <3> QED
      BY <1>5, <1>11, <2>1, <3>1 DEF slot
  <2>2. CASE g # f
    <3>1. Saturated(g)
      BY <1>3, <1>9, <2>2, <1>14 DEF Saturated
    <3>2. SlotOf(g) # slot
      BY <1>2, <2>2 DEF KeysDistinct, slot
    <3> QED
      BY <1>5, <3>1, <3>2 DEF IInv, SaturationSound
  <2> QED
    BY <2>1, <2>2
<1>17. FastPathSound'
  <2>1. CASE Completes(f, b) /\ sat_last_opcodes' = f /\ saturation' = [saturation EXCEPT
                ![f] = [saturated |-> TRUE, generation |-> sat_generation]]
    BY <1>2, <1>3, <1>14, <2>1 DEF FastPathSound, Saturated
  <2>2. CASE UNCHANGED <<saturation, sat_last_opcodes>>
    BY <1>3, <2>2 DEF IInv, FastPathSound, Saturated
  <2> QED
    BY <1>9, <2>1, <2>2
<1>18. ActiveStateIsLive'
  <2>1. CASE edge_last' = [frame |-> Depth, rt |-> slot, block |-> b]
    <3>1. allocated
      BY <1>2 DEF IInv, ActiveStateIsLive
    <3> QED
      BY <1>3, <1>5, <1>8, <2>1, <3>1 DEF ActiveStateIsLive
  <2>2. CASE edge_last' = edge_last
    <3>1. \A s \in DOMAIN files : files[s].block_hit \subseteq files'[s].block_hit
      BY <1>5, <1>6, <1>8
    <3> QED
      BY <1>2, <1>3, <1>5, <2>2, <3>1 DEF IInv, ActiveStateIsLive
  <2> QED
    BY <1>12, <2>1, <2>2
<1>19. EdgesJoinHitBlocks'
  <2> SUFFICES ASSUME NEW s \in DOMAIN files', NEW e \in files'[s].edge_hit
               PROVE  EdgeEnds(files'[s].fn, e) \subseteq files'[s].block_hit
    BY DEF EdgesJoinHitBlocks, EdgeEnds
  <2>1. CASE s # slot
    BY <1>5, <2>1 DEF IInv, EdgesJoinHitBlocks
  <2>2. CASE s = slot /\ e \in EdgeTaken(f, b)
    <3>1. EdgeEnds(f, e) = {edge_last.block, b} /\ slot \in DOMAIN files
          /\ edge_last.block \in files[slot].block_hit
      BY <1>2, <1>13, <2>2 DEF IInv, ActiveStateIsLive
    <3> QED
      BY <1>4, <1>5, <1>6, <1>8, <2>2, <3>1
  <2>3. CASE s = slot /\ e \in rt.edge_hit
    <3>1. slot \in DOMAIN files /\ rt = files[slot]
      BY <1>6, <1>7, <2>3
    <3>2. rt.fn = f
      BY <1>1, <1>2, OwnRuntime DEF rt
    <3>3. EdgeEnds(f, e) \subseteq rt.block_hit
      BY <2>3, <3>1, <3>2 DEF IInv, EdgesJoinHitBlocks
    <3> QED
      BY <1>4, <1>5, <1>8, <2>3, <3>3
  <2> QED
    BY <1>5, <1>8, <2>1, <2>2, <2>3
<1>20. MarksOfRequest'
  <2>1. \A g \in Funcs : saturation'[g].generation <= sat_generation
    <3>1. \A g \in Funcs : saturation[g].generation <= sat_generation
      BY DEF IInv, MarksOfRequest
    <3>2. sat_generation \in Nat
      BY <1>1, CoverageAssumption DEF TypeOK
    <3> QED
      BY <1>2, <1>9, <1>14, <3>1, <3>2
  <2> QED
    BY <1>2, <1>3, <2>1 DEF MarksOfRequest
<1> QED
  BY <1>1, <1>15, <1>16, <1>17, <1>18, <1>19, <1>20 DEF IInv

LEMMA InitSound == Init => IInv
<1> SUFFICES ASSUME Init PROVE IInv
  OBVIOUS
<1>1. TypeOK
  BY InitType
<1>2. DOMAIN files = {} /\ ~request /\ \A f \in Funcs : saturation[f] = NotSaturated
  BY EmptyFunction DEF Init, VMInit
<1>3. ~NotSaturated.saturated /\ NotSaturated.generation = 0
  BY DEF NotSaturated
<1>4. \A f \in Funcs : ~Saturated(f) /\ ~saturation[f].saturated
  BY <1>2, <1>3 DEF Saturated
<1>5. RuntimesOwned /\ EdgesJoinHitBlocks
  BY <1>2 DEF RuntimesOwned, EdgesJoinHitBlocks
<1>6. SaturationSound /\ FastPathSound /\ ActiveStateIsLive
  BY <1>2, <1>4 DEF SaturationSound, FastPathSound, ActiveStateIsLive
<1>7. MarksOfRequest
  BY <1>2, <1>3, <1>4, <1>1, CoverageAssumption DEF MarksOfRequest, TypeOK
<1> QED
  BY <1>1, <1>5, <1>6, <1>7 DEF IInv

\* A step that leaves the tables, the marks and the session alone.
LEMMA UntouchedSound ==
  ASSUME IInv, TypeOK', UNCHANGED <<request, coverage_flags, files, edge_last,
                                    saturation, sat_generation, sat_last_opcodes, allocated>>,
         coverage_active' => coverage_active
  PROVE  IInv'
BY DEF IInv, RuntimesOwned, SaturationSound, FastPathSound, ActiveStateIsLive,
       EdgesJoinHitBlocks, EdgeEnds, MarksOfRequest, Saturated, Branching

LEMMA VMStepRequest ==
  ASSUME VMStep
  PROVE  UNCHANGED request
BY DEF VMStep, Continue, Call, Return, Throw, Unwind, Bailout, GoTo

LEMMA ReprimeSound ==
  ASSUME IInv, TypeOK', VMDispatch, MarkReprimesSlot
  PROVE  IInv'
<1>1. UNCHANGED <<request, coverage_active, coverage_flags, files, edge_last,
                  saturation, sat_generation, allocated>>
  BY DEF VMDispatch, MarkReprimesSlot, sessionVars, dataVars, satVars
<1>2. Saturated(Top.fn) /\ sat_last_opcodes' = Top.fn
  BY DEF MarkReprimesSlot
<1>3. FastPathSound'
  BY <1>1, <1>2 DEF FastPathSound, Saturated
<1>4. RuntimesOwned' /\ SaturationSound' /\ ActiveStateIsLive'
  BY <1>1 DEF IInv, RuntimesOwned, SaturationSound, ActiveStateIsLive, Saturated, Branching
<1>5. EdgesJoinHitBlocks' /\ MarksOfRequest'
  BY <1>1 DEF IInv, EdgesJoinHitBlocks, EdgeEnds, MarksOfRequest
<1> QED
  BY <1>3, <1>4, <1>5 DEF IInv

\* A new session: the marks of the sessions before it count no more.
LEMMA StartSound ==
  ASSUME IInv, TypeOK', NEW flags \in FlagSets, StartCoverage(flags)
  PROVE  IInv'
<1>1. /\ UNCHANGED <<request, files, saturation>>
      /\ sat_generation' = sat_generation + 1
      /\ sat_last_opcodes' = NoFunc /\ edge_last'.frame = 0 /\ allocated'
  BY DEF StartCoverage, ResetSlots, AfterInternalCall, GoTo, NoEdge
<1>2. sat_generation \in Nat /\ \A f \in Funcs : saturation[f].generation \in Nat
  BY CoverageAssumption DEF IInv, TypeOK
<1>3. \A f \in Funcs : saturation[f].generation < sat_generation'
  BY <1>1, <1>2 DEF IInv, MarksOfRequest
<1>4. SaturationSound'
  <2>1. \A f \in Funcs : ~Saturated(f)'
    BY <1>1, <1>2, <1>3 DEF Saturated
  <2> QED
    BY <2>1 DEF SaturationSound
<1>5. RuntimesOwned' /\ EdgesJoinHitBlocks'
  BY <1>1 DEF IInv, RuntimesOwned, EdgesJoinHitBlocks, EdgeEnds
<1>6. FastPathSound' /\ ActiveStateIsLive'
  BY <1>1 DEF FastPathSound, ActiveStateIsLive
<1>7. MarksOfRequest'
  BY <1>1, <1>2, <1>3 DEF IInv, MarksOfRequest
<1> QED
  BY <1>4, <1>5, <1>6, <1>7 DEF IInv

LEMMA RInitSound ==
  ASSUME IInv, TypeOK', RInit
  PROVE  IInv'
<1>1. /\ ~request /\ request' /\ ~coverage_active' /\ DOMAIN files' = {}
      /\ UNCHANGED <<saturation, sat_generation>>
  BY EmptyFunction DEF RInit, VMStartRequest, satVars
<1>2. \A f \in Funcs : ~saturation[f].saturated
  BY <1>1 DEF IInv, MarksOfRequest
<1>3. SaturationSound'
  BY <1>1, <1>2 DEF SaturationSound, Saturated
<1>4. RuntimesOwned' /\ EdgesJoinHitBlocks' /\ FastPathSound' /\ ActiveStateIsLive'
  BY <1>1 DEF RuntimesOwned, EdgesJoinHitBlocks, FastPathSound, ActiveStateIsLive
<1>5. MarksOfRequest'
  BY <1>1 DEF IInv, MarksOfRequest
<1> QED
  BY <1>3, <1>4, <1>5 DEF IInv

LEMMA RShutdownSound ==
  ASSUME IInv, TypeOK', RShutdown
  PROVE  IInv'
<1>1. /\ ~request' /\ DOMAIN files' = {} /\ sat_generation' = sat_generation
      /\ \A f \in Funcs : ~saturation'[f].saturated /\ saturation'[f].generation = 0
  BY EmptyFunction DEF RShutdown, FreeAnalyses, VMEndRequest, NotSaturated
<1>2. SaturationSound'
  BY <1>1 DEF SaturationSound, Saturated
<1>3. RuntimesOwned' /\ EdgesJoinHitBlocks' /\ FastPathSound' /\ ActiveStateIsLive'
  BY <1>1 DEF RuntimesOwned, EdgesJoinHitBlocks, FastPathSound, ActiveStateIsLive
<1>4. MarksOfRequest'
  BY <1>1, CoverageAssumption DEF IInv, TypeOK, MarksOfRequest
<1> QED
  BY <1>2, <1>3, <1>4 DEF IInv

LEMMA StepSound ==
  ASSUME KeysDistinct, IInv, [Next]_vars
  PROVE  IInv'
<1>1. TypeOK'
  BY StepType DEF IInv
<1>2. CASE Dispatch
  <2>1. CASE MarkReturnsEarly
    BY <1>1, <1>2, <2>1, UntouchedSound DEF Dispatch, VMDispatch, MarkReturnsEarly,
       recorderVars, sessionVars, dataVars, slotVars, satVars
  <2>2. CASE MarkReprimesSlot
    BY <1>1, <1>2, <2>2, ReprimeSound DEF Dispatch
  <2>3. CASE MarkRecords
    BY <1>2, <2>3, MarkRecordsSound DEF Dispatch
  <2> QED
    BY <1>2, <2>1, <2>2, <2>3 DEF Dispatch
<1>3. CASE Run
  BY <1>1, <1>3, VMStepRequest, UntouchedSound DEF Run,
     recorderVars, sessionVars, dataVars, slotVars, satVars
<1>4. ASSUME NEW flags \in FlagSets, StartCoverage(flags)
      PROVE  IInv'
  BY <1>1, <1>4, StartSound
<1>5. CASE StopCoverage
  BY <1>1, <1>5, UntouchedSound DEF StopCoverage, AfterInternalCall, GoTo,
     dataVars, slotVars, satVars
<1>6. CASE SetFilter
  BY <1>1, <1>6, UntouchedSound DEF SetFilter, AfterInternalCall, GoTo,
     recorderVars, sessionVars, dataVars, slotVars, satVars
<1>7. CASE RInit
  BY <1>1, <1>7, RInitSound
<1>8. CASE RShutdown
  BY <1>1, <1>8, RShutdownSound
<1>9. CASE UNCHANGED vars
  BY <1>1, <1>9, UntouchedSound DEF vars, vmVars, recorderVars, sessionVars, dataVars,
     slotVars, satVars
<1> QED
  BY <1>2, <1>3, <1>4, <1>5, <1>6, <1>7, <1>8, <1>9 DEF Next

(* As long as no two functions of a file share a key, the saturation mark,   *)
(* the fast path and the buffers of every runtime stay sound over any        *)
(* sequence of sessions, filters and requests.                               *)
THEOREM CachesSound ==
  ASSUME KeysDistinct
  PROVE  Spec => []IInv
<1>1. Init => IInv
  BY InitSound
<1>2. IInv /\ [Next]_vars => IInv'
  BY StepSound
<1> QED
  BY <1>1, <1>2, PTL DEF Spec

(* A function that fxd_mark skips, because of its mark or because of the     *)
(* pointer compare, has nothing left to record.                              *)
THEOREM SkippedIsComplete ==
  ASSUME KeysDistinct
  PROVE  Spec => [](SaturationSound /\ FastPathSound)
<1>1. IInv => SaturationSound /\ FastPathSound
  BY DEF IInv
<1> QED
  BY <1>1, CachesSound, PTL

(* The handler writes inside the buffers of the function's own runtime, and  *)
(* what it records is consistent: no edge without its two blocks.            *)
THEOREM RecordsConsistent ==
  ASSUME KeysDistinct
  PROVE  Spec => [](RuntimesOwned /\ EdgesJoinHitBlocks)
<1>1. IInv => RuntimesOwned /\ EdgesJoinHitBlocks
  BY DEF IInv
<1> QED
  BY <1>1, CachesSound, PTL

(* What RINIT and RSHUTDOWN leave behind in the slots and marks is never     *)
(* taken for state of the next request.                                      *)
THEOREM RequestsIsolated ==
  ASSUME KeysDistinct
  PROVE  Spec => [](ActiveStateIsLive /\ MarksOfRequest)
<1>1. IInv => ActiveStateIsLive /\ MarksOfRequest
  BY DEF IInv
<1> QED
  BY <1>1, CachesSound, PTL

-----------------------------------------------------------------------------
(* The engine and the filter are the same in both specifications.            *)

LEMMA SameFrame ==
  Recorder!Top = Top /\ Recorder!Depth = Depth /\ Recorder!CurrentOp = CurrentOp
BY DEF Top, Depth, Recorder!Top, Recorder!Depth, CurrentOp, Recorder!CurrentOp

LEMMA SameRunning == \A codes : Recorder!Running(codes) <=> Running(codes)
BY SameFrame DEF Running, Recorder!Running

LEMMA SameGoTo == \A q : Recorder!GoTo(q) <=> GoTo(q)
BY SameFrame DEF GoTo, Recorder!GoTo, Ops, Recorder!Ops

LEMMA SameInternalCall == Recorder!AfterInternalCall <=> AfterInternalCall
BY SameFrame, SameRunning, SameGoTo DEF AfterInternalCall, Recorder!AfterInternalCall

LEMMA SamePopped == \A thrown : Recorder!Popped(thrown) = Popped(thrown)
BY SameFrame DEF Popped, Recorder!Popped

LEMMA SameFrameAt == \A f, p : Recorder!FrameAt(f, p) = FrameAt(f, p)
BY DEF FrameAt, Recorder!FrameAt

LEMMA SameStep == Recorder!VMStep <=> VMStep
<1>1. Recorder!Continue <=> Continue
  <2>1. \A op, p : Recorder!NextOps(op, p) = NextOps(op, p)
    BY DEF NextOps, Recorder!NextOps, ControlFlow, Recorder!ControlFlow
  <2>2. Recorder!OpCodes = OpCodes
    BY DEF OpCodes, Recorder!OpCodes, ControlFlow, Recorder!ControlFlow
  <2> QED
    BY <2>1, <2>2, SameFrame, SameRunning, SameGoTo DEF Continue, Recorder!Continue
<1>2. Recorder!Call <=> Call
  BY SameFrame, SameRunning, SameFrameAt DEF Call, Recorder!Call
<1>3. Recorder!Return <=> Return
  BY SameFrame, SameRunning, SamePopped DEF Return, Recorder!Return, Ops, Recorder!Ops
<1>4. Recorder!Throw <=> Throw
  BY SameFrame, SameRunning DEF Throw, Recorder!Throw, MayThrow, Recorder!MayThrow
<1>5. Recorder!Unwind <=> Unwind
  BY SameFrame, SamePopped, SameFrameAt DEF Unwind, Recorder!Unwind, NONE, Recorder!NONE
<1>6. Recorder!Bailout <=> Bailout
  BY SameRunning DEF Bailout, Recorder!Bailout, MayThrow, Recorder!MayThrow
<1> QED
  BY <1>1, <1>2, <1>3, <1>4, <1>5, <1>6 DEF VMStep, Recorder!VMStep

LEMMA SameDispatch == Recorder!VMDispatch <=> VMDispatch
BY SameFrame DEF VMDispatch, Recorder!VMDispatch, Hooked, Recorder!Hooked

LEMMA SameRequests ==
  /\ Recorder!VMStartRequest <=> VMStartRequest
  /\ Recorder!VMEndRequest <=> VMEndRequest
BY SameFrameAt DEF VMStartRequest, Recorder!VMStartRequest, VMEndRequest, Recorder!VMEndRequest

LEMMA SameFilter ==
  /\ \A file : Recorder!Wanted(file) <=> Wanted(file)
  /\ \A list : Recorder!ReplaceFilter(list) <=> ReplaceFilter(list)
  /\ Recorder!FreeFilter <=> FreeFilter
  /\ Recorder!ResetFilter <=> ResetFilter
BY DEF Wanted, Recorder!Wanted, Covers, Recorder!Covers, ReplaceFilter, Recorder!ReplaceFilter,
   FreeFilter, Recorder!FreeFilter, ResetFilter, Recorder!ResetFilter

-----------------------------------------------------------------------------
(* What is recorded is a function of the tables.                             *)

LEMMA RecordedPairs ==
  /\ \A x \in Recorded : x = <<x[1], x[2]>>
  /\ \A f, b : <<f, b>> \in Recorded <=>
        f \in Funcs /\ SlotOf(f) \in DOMAIN files /\ b \in files[SlotOf(f)].block_hit
BY DEF Recorded

LEMMA RecordedOfFiles == files' = files => Recorded' = Recorded
BY DEF Recorded

LEMMA NothingRecorded == DOMAIN files = {} => Recorded = {}
BY DEF Recorded

LEMMA MarkRecordsOne ==
  ASSUME KeysDistinct, IInv, VMDispatch, MarkRecords
  PROVE  Recorded' = Recorded \cup {<<Top.fn, Analysis[Top.fn].op_to_block[Top.pc]>>}
<1> DEFINE f == Top.fn
           b == Analysis[f].op_to_block[Top.pc]
<1>1. f \in Funcs /\ b \in BlocksOf(f)
  BY DispatchedBlock DEF IInv, TypeOK
<1>2. /\ DOMAIN files' = DOMAIN files \cup {SlotOf(f)}
      /\ files'[SlotOf(f)] = AfterMark(f, b)
      /\ \A s \in DOMAIN files : s # SlotOf(f) => files'[s] = files[s]
  BY DEF MarkRecords
<1>3. AfterMark(f, b).block_hit = RuntimeFor(f).block_hit \cup {b}
  BY <1>1, MarkedRuntime DEF IInv
<1>4. RuntimeFor(f).block_hit = IF SlotOf(f) \in DOMAIN files THEN files[SlotOf(f)].block_hit ELSE {}
  BY DEF RuntimeFor
<1> HIDE DEF f, b
<1>5. \A g \in Funcs : g # f => SlotOf(g) # SlotOf(f)
  BY <1>1 DEF KeysDistinct
<1>6. \A g, c : <<g, c>> \in Recorded' <=> <<g, c>> \in Recorded \cup {<<f, b>>}
  <2> TAKE g, c
  <2>1. <<g, c>> \in Recorded' <=>
          g \in Funcs /\ SlotOf(g) \in DOMAIN files' /\ c \in files'[SlotOf(g)].block_hit
    BY DEF Recorded
  <2>2. CASE g = f
    BY <1>1, <1>2, <1>3, <1>4, <2>1, <2>2, RecordedPairs
  <2>3. CASE g # f
    BY <1>2, <1>5, <2>1, <2>3, RecordedPairs
  <2> QED
    BY <2>2, <2>3
<1>7. \A x \in Recorded' : x = <<x[1], x[2]>>
  BY DEF Recorded
<1>8. \A x \in Recorded' : x \in Recorded \cup {<<f, b>>}
  BY <1>6, <1>7
<1>9. \A x \in Recorded : x \in Recorded'
  BY <1>6, RecordedPairs
<1> QED
  BY <1>6, <1>8, <1>9 DEF f, b

-----------------------------------------------------------------------------
(* Initial states map to initial states, every step to a step or a stutter.  *)

LEMMA InitRefines == Init => Recorder!Init
<1>1. Init => Recorded = {}
  BY NothingRecorded, EmptyFunction DEF Init
<1> QED
  BY <1>1 DEF Init, Recorder!Init, VMInit, Recorder!VMInit, FilterInit, Recorder!FilterInit

LEMMA DispatchRefines ==
  ASSUME KeysDistinct, IInv, Dispatch
  PROVE  Recorder!Dispatch
<1> DEFINE f == Top.fn
           b == Analysis[f].op_to_block[Top.pc]
           noted == coverage_active /\ Wanted(FileOf[f]) /\ ~Top.exc
<1>1. VMDispatch /\ UNCHANGED filterVars
  BY DEF Dispatch
<1>2. /\ f \in Funcs /\ b \in BlocksOf(f) /\ request
      /\ b = OpToBlock(OpArray[f])[Top.pc]
  BY <1>1, DispatchedBlock DEF IInv, TypeOK
<1>3. Recorded' = IF noted THEN Recorded \cup {<<f, b>>} ELSE Recorded
  <2>1. Saturated(f) => <<f, b>> \in Recorded
    BY <1>2, RecordedPairs DEF IInv, SaturationSound
  <2>2. CASE MarkReturnsEarly
    <3>1. Recorded' = Recorded
      BY <2>2, RecordedOfFiles DEF MarkReturnsEarly, recorderVars, dataVars
    <3>2. noted => Saturated(f)
      BY <1>2, <2>2, CoverageAssumption DEF MarkReturnsEarly, IInv, FastPathSound
    <3> QED
      BY <2>1, <3>1, <3>2
  <2>3. CASE MarkReprimesSlot
    <3>1. Recorded' = Recorded /\ Saturated(f)
      BY <2>3, RecordedOfFiles DEF MarkReprimesSlot, dataVars
    <3> QED
      BY <2>1, <3>1
  <2>4. CASE MarkRecords
    <3>1. noted
      BY <2>4 DEF MarkRecords, ReachesAnalysis
    <3> QED
      BY <1>1, <2>4, <3>1, MarkRecordsOne
  <2> QED
    BY <2>2, <2>3, <2>4 DEF Dispatch
<1>4. coverage_active' = coverage_active
  BY DEF Dispatch, MarkReturnsEarly, MarkReprimesSlot, MarkRecords, recorderVars, sessionVars
<1> QED
  <2>1. [g \in Funcs |-> OpToBlock(OpArray[g])][f][Top.pc] = b
    BY <1>2
  <2> HIDE DEF f, b, noted
  <2>2. Recorder!Top.fn = f /\ (noted <=> coverage_active /\ Recorder!Wanted(FileOf[f]) /\ ~Recorder!Top.exc)
    BY SameFrame, SameFilter DEF f, noted
  <2> QED
    BY <1>1, <1>3, <1>4, <2>1, <2>2, SameDispatch, SameFrame DEF Recorder!Dispatch,
       Recorder!filterVars, filterVars

LEMMA StepRefines ==
  ASSUME KeysDistinct, IInv, [Next]_vars
  PROVE  [Recorder!Next]_Recorder!vars
<1>1. CASE Dispatch
  BY <1>1, DispatchRefines DEF Recorder!Next
<1>2. CASE Run
  <2>1. coverage_active' = coverage_active /\ Recorded' = Recorded
    BY <1>2, RecordedOfFiles DEF Run, recorderVars, sessionVars, dataVars
  <2> QED
    BY <1>2, <2>1, SameStep DEF Run, Recorder!Run, Recorder!Next,
       filterVars, Recorder!filterVars
<1>3. ASSUME NEW flags \in FlagSets, StartCoverage(flags)
      PROVE  Recorder!StartCoverage
  BY <1>3, RecordedOfFiles, SameInternalCall DEF StartCoverage, Recorder!StartCoverage,
     filterVars, Recorder!filterVars
<1>4. CASE StopCoverage
  <2>1. Recorder!StopCoverage
    BY <1>4, RecordedOfFiles, SameInternalCall DEF StopCoverage,
       Recorder!StopCoverage, dataVars, filterVars, Recorder!filterVars
  <2> QED
    BY <2>1 DEF Recorder!Next
<1>5. CASE SetFilter
  <2>1. coverage_active' = coverage_active /\ Recorded' = Recorded
    BY <1>5, RecordedOfFiles DEF SetFilter, recorderVars, sessionVars, dataVars
  <2> QED
    BY <1>5, <2>1, SameInternalCall, SameFilter DEF SetFilter, Recorder!SetFilter, Recorder!Next
<1>6. CASE RInit
  <2>1. Recorded' = Recorded
    <3>1. DOMAIN files = {} /\ files' = <<>>
      BY <1>6 DEF RInit, VMStartRequest, IInv, MarksOfRequest
    <3>2. Recorded = {}
      BY <3>1, NothingRecorded
    <3>3. Recorded' = {}
      BY <3>1, EmptyFunction DEF Recorded
    <3> QED
      BY <3>2, <3>3
  <2> QED
    BY <1>6, <2>1, SameRequests, SameFilter DEF RInit, Recorder!RInit, Recorder!Next
<1>7. CASE RShutdown
  <2>1. Recorded' = {}
    BY <1>7, EmptyFunction DEF RShutdown, Recorded
  <2> QED
    BY <1>7, <2>1, SameRequests, SameFilter DEF RShutdown, Recorder!RShutdown, Recorder!Next
<1>8. CASE UNCHANGED vars
  <2>1. UNCHANGED <<vmVars, filterVars, coverage_active>> /\ Recorded' = Recorded
    BY <1>8, RecordedOfFiles DEF vars, recorderVars, sessionVars, dataVars
  <2> QED
    BY <2>1 DEF Recorder!vars, Recorder!vmVars, vmVars, Recorder!filterVars, filterVars
<1> QED
  BY <1>1, <1>2, <1>3, <1>4, <1>5, <1>6, <1>7, <1>8 DEF Next, Recorder!Next

(* Skipping saturated functions, the one-pointer fast path and the tables    *)
(* keyed by name cannot be told, block by block, from a recorder that marks  *)
(* the block of every dispatched op of a wanted file while it is active.     *)
THEOREM CachesInvisible ==
  ASSUME KeysDistinct
  PROVE  Spec => ImplementsBlockRecorder
<1>1. Init => Recorder!Init
  BY InitRefines
<1>2. IInv /\ [Next]_vars => [Recorder!Next]_Recorder!vars
  BY StepRefines
<1>3. Spec => []IInv
  BY CachesSound
<1> QED
  BY <1>1, <1>2, <1>3, PTL DEF Spec, ImplementsBlockRecorder, Recorder!Spec
=============================================================================
