----------------------------- MODULE MCProfiler -----------------------------
(* The functions and fibers for model checking the profiler.                 *)
EXTENDS Profiler, TLC

CONSTANTS f, g   \* two user functions

TwoFibers == {1, 2}

\* The user functions are interchangeable: nothing tells them apart.
UserFunctions == Permutations({f, g})
=============================================================================
