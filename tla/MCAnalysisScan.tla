--------------------------- MODULE MCAnalysisScan ---------------------------
(* The op_arrays of up to MaxLength ops over the given opcode classes.       *)
EXTENDS AnalysisScan

CONSTANTS
  MaxLength,    \* ops in the longest op_array
  Classes,      \* the opcode classes used
  Lines,        \* source lines used
  MaxCases      \* most cases of a SWITCH; MaxOuts - 2 of them fit in outs[]

Targets(code, n) ==
  CASE code \in {"JMP", "BRANCH", "FAST_CALL", "SKIP"} -> [1 .. 1 -> 0 .. n - 1]
    [] code = "CATCH" -> {<<>>} \cup [1 .. 1 -> 0 .. n - 1]
    [] code = "SWITCH" -> UNION {[1 .. k + 1 -> 0 .. n - 1] : k \in 1 .. MaxCases}
    [] code = "MATCH" -> [1 .. 2 -> 0 .. n - 1]
    [] OTHER -> {<<>>}

\* Only straight-line ops vary their line.
OpRecords(n) ==
  UNION {[code : {c}, to : Targets(c, n), catch : {NONE},
          line : IF c = "PLAIN" THEN Lines ELSE {CHOOSE l \in Lines : TRUE}] : c \in Classes}

\* The last op leaves the function or jumps, as in compiled code, and at most
\* one op has several targets.
MCOpArrays ==
  UNION {{[last |-> n, opcodes |-> ops] :
            ops \in {f \in [0 .. n - 1 -> OpRecords(n)] :
                       /\ f[n - 1].code \in {"RETURN", "FAST_RET", "JMP"}
                       /\ \A p, q \in 0 .. n - 1 :
                            Len(f[p].to) > 1 /\ Len(f[q].to) > 1 => p = q}} :
         n \in 1 .. MaxLength}
=============================================================================
