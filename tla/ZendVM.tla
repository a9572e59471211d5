------------------------------- MODULE ZendVM -------------------------------
(***************************************************************************)
(* The engine, as far as the extension can see it: user functions run op   *)
(* by op on a stack of frames; the user opcode handler of a hooked op runs *)
(* before the op itself; an exception makes the throwing frame continue at *)
(* ZEND_HANDLE_EXCEPTION, an op outside its op_array, which is hooked too. *)
(* Frames live on one VM stack, so a frame pushed at a depth has the       *)
(* address of the one popped from there before: the address of a frame is  *)
(* its depth.  Generators, fibers and finally blocks are left out.         *)
(***************************************************************************)
EXTENDS Analysis

CONSTANTS
  Funcs,        \* the user functions, one op_array each
  OpArray,      \* [Funcs -> op_arrays]
  Main,         \* the function a request starts with
  Callees,      \* [Funcs -> SUBSET Funcs]: what the CALL ops of a function call
  MaxDepth,     \* bound on the call depth
  Exceptions    \* whether ops may throw

ASSUME VMAssumption ==
  /\ Main \in Funcs
  /\ DOMAIN OpArray = Funcs
  /\ \A f \in Funcs : IsOpArray(OpArray[f])
  /\ Callees \in [Funcs -> SUBSET Funcs]
  /\ MaxDepth \in Nat \ {0}
  /\ Exceptions \in BOOLEAN

VARIABLES
  request,      \* a request is being served
  stack,        \* frames, the running one last; `exc': at ZEND_HANDLE_EXCEPTION
  dispatched    \* the handler of the current op has run, the op itself has not

vmVars == <<request, stack, dispatched>>

Frames == [fn : Funcs, pc : Nat, exc : BOOLEAN]

VMTypeOK ==
  /\ request \in BOOLEAN
  /\ stack \in Seq(Frames)
  /\ \A i \in DOMAIN stack : stack[i].pc \in Ops(OpArray[stack[i].fn])
  /\ dispatched \in BOOLEAN
  /\ stack # <<>> => request

VMInit == request = FALSE /\ stack = <<>> /\ dispatched = FALSE

-----------------------------------------------------------------------------

Depth == Len(stack)
Top == stack[Depth]
CurrentOp == OpArray[Top.fn].opcodes[Top.pc]
FrameAt(f, p) == [fn |-> f, pc |-> p, exc |-> FALSE]

\* The user opcode handler is about to run for the current op.
Hooked == stack # <<>> /\ ~dispatched /\ (Top.exc \/ CurrentOp.code # "NOP")

\* The op itself is about to run.
Running(codes) ==
  /\ stack # <<>> /\ ~Top.exc
  /\ dispatched = (CurrentOp.code # "NOP")
  /\ CurrentOp.code \in codes

GoTo(q) ==
  /\ q \in Ops(OpArray[Top.fn])
  /\ stack' = [stack EXCEPT ![Depth].pc = q]
  /\ dispatched' = FALSE
  /\ UNCHANGED request

\* A CALL that continues at once is one that turned out to be internal.
Continue ==
  /\ Running(OpCodes \ {"RETURN", "THROW", "FAST_CALL", "FAST_RET"})
  /\ \E q \in NextOps(CurrentOp, Top.pc) : GoTo(q)

\* An internal call comes back; the xdebug_* API functions run in this step.
AfterInternalCall == Running({"ICALL"}) /\ GoTo(Top.pc + 1)

Call ==
  /\ Running({"CALL"}) /\ Depth < MaxDepth
  /\ \E f \in Callees[Top.fn] : stack' = Append(stack, FrameAt(f, 0))
  /\ dispatched' = FALSE
  /\ UNCHANGED request

\* The stack without its top; the caller continues after its call, or at
\* ZEND_HANDLE_EXCEPTION when the callee was left by an exception.
Popped(thrown) ==
  [i \in 1 .. Depth - 1 |->
     IF i < Depth - 1 THEN stack[i]
     ELSE IF thrown THEN [stack[i] EXCEPT !.exc = TRUE]
     ELSE [stack[i] EXCEPT !.pc = @ + 1]]

Return ==
  /\ Running({"RETURN"})
  /\ Depth > 1 => stack[Depth - 1].pc + 1 \in Ops(OpArray[stack[Depth - 1].fn])
  /\ stack' = Popped(FALSE)
  /\ dispatched' = FALSE
  /\ UNCHANGED request

MayThrow == {"PLAIN", "CALL", "ICALL"}

Throw ==
  /\ \/ Exceptions /\ Running(MayThrow)
     \/ Running({"THROW"})
     \/ Running({"CATCH"}) /\ CurrentOp.to = <<>>
  /\ stack' = [stack EXCEPT ![Depth].exc = TRUE]
  /\ dispatched' = FALSE
  /\ UNCHANGED request

\* ZEND_HANDLE_EXCEPTION: to the catch block of the op that threw, or out.
Unwind ==
  /\ stack # <<>> /\ Top.exc /\ dispatched
  /\ stack' = IF CurrentOp.catch # NONE
              THEN [stack EXCEPT ![Depth] = FrameAt(Top.fn, CurrentOp.catch)]
              ELSE Popped(TRUE)
  /\ dispatched' = FALSE
  /\ UNCHANGED request

\* exit() or a fatal error abandons every frame.
Bailout ==
  /\ Exceptions /\ Running(MayThrow)
  /\ stack' = <<>>
  /\ dispatched' = FALSE
  /\ UNCHANGED request

VMStep == Continue \/ Call \/ Return \/ Throw \/ Unwind \/ Bailout

\* The extension's handler for the current op runs.
VMDispatch == Hooked /\ dispatched' = TRUE /\ UNCHANGED <<request, stack>>

VMStartRequest ==
  /\ ~request
  /\ request' = TRUE
  /\ stack' = <<FrameAt(Main, 0)>>
  /\ UNCHANGED dispatched

VMEndRequest ==
  /\ request /\ stack = <<>>
  /\ request' = FALSE
  /\ UNCHANGED <<stack, dispatched>>
=============================================================================
