-------------------------- MODULE MCAnalysisCache --------------------------
(* Op_arrays and addresses for model checking the analysis cache.            *)
EXTENDS AnalysisCache, TLC

CONSTANTS
  cached,          \* a script in opcache
  first, second,   \* scripts that are compiled
  p,               \* an address
  t, u             \* threads

MCNumBlocks == (cached :> 1) @@ (first :> 1) @@ (second :> 2)
Interchangeable == Permutations({t, u})
=============================================================================
