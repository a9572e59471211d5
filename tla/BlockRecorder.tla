--------------------------- MODULE BlockRecorder ---------------------------
(***************************************************************************)
(* What the recorder of src/src/coverage.c promises at block granularity,  *)
(* without its caches: while coverage is active, every dispatched op of a  *)
(* wanted file records its block.  No analysis cache, no per-file tables   *)
(* keyed by function name, no saturation flags and no single-slot fast     *)
(* path.  Module Coverage implements it.                                   *)
(***************************************************************************)
EXTENDS CoverageFilter

CONSTANT
  BlockOf       \* [Funcs -> [ops -> blocks]]: the block an op belongs to

VARIABLES
  coverage_active,
  recorded      \* the <<function, block>> pairs recorded in this request

vars == <<vmVars, filterVars, coverage_active, recorded>>

Init ==
  /\ VMInit /\ FilterInit
  /\ coverage_active = FALSE
  /\ recorded = {}

Dispatch ==
  /\ VMDispatch
  /\ recorded' = IF coverage_active /\ Wanted(FileOf[Top.fn]) /\ ~Top.exc
                 THEN recorded \cup {<<Top.fn, BlockOf[Top.fn][Top.pc]>>}
                 ELSE recorded
  /\ UNCHANGED <<filterVars, coverage_active>>

Run == VMStep /\ UNCHANGED <<filterVars, coverage_active, recorded>>

StartCoverage ==
  /\ AfterInternalCall
  /\ coverage_active' = TRUE
  /\ UNCHANGED <<filterVars, recorded>>

StopCoverage ==
  /\ AfterInternalCall
  /\ coverage_active' = FALSE
  /\ UNCHANGED <<filterVars, recorded>>

SetFilter ==
  /\ AfterInternalCall
  /\ \E list \in FilterLists : ReplaceFilter(list)
  /\ UNCHANGED <<coverage_active, recorded>>

RInit ==
  /\ VMStartRequest
  /\ coverage_active' = FALSE
  /\ ResetFilter
  /\ UNCHANGED recorded

RShutdown ==
  /\ VMEndRequest
  /\ recorded' = {}
  /\ FreeFilter
  /\ UNCHANGED coverage_active

Next ==
  \/ Dispatch \/ Run
  \/ StartCoverage \/ StopCoverage \/ SetFilter
  \/ RInit \/ RShutdown

Spec == Init /\ [][Next]_vars
=============================================================================
