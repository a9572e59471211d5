-------------------------- MODULE MCCoverageLines --------------------------
(* A program whose source lines are looked at.  Every call is preceded by    *)
(* the op that prepares it on the same line, as in compiled code.            *)
EXTENDS CoverageLines, TLC

Op(code, to, line) == [code |-> code, to |-> to, line |-> line, catch |-> NONE]
Plain(line) == Op("PLAIN", <<>>, line)
Array(ops) == [last |-> Len(ops), opcodes |-> [p \in 0 .. Len(ops) - 1 |-> ops[p + 1]]]

\* {main}: api(); f(); f(); api(); return;
Sequence == Array(<<Plain(1), Op("ICALL", <<>>, 1), Plain(2), Op("CALL", <<>>, 2),
                    Plain(3), Op("CALL", <<>>, 3), Plain(4), Op("ICALL", <<>>, 4),
                    Op("RETURN", <<>>, 5)>>)

\* plain; if (...) { call(); } else { plain; } return;
Branchy == Array(<<Plain(11), Op("BRANCH", <<5>>, 11),
                   Plain(12), Op("CALL", <<>>, 12), Op("JMP", <<6>>, 12),
                   Plain(13), Op("RETURN", <<>>, 14)>>)

\* do { if (...) { plain; } api(); } while (...); return;
LeafLoop == Array(<<Op("BRANCH", <<2>>, 21), Plain(22), Plain(23), Op("ICALL", <<>>, 23),
                    Op("BRANCH", <<0>>, 24), Op("RETURN", <<>>, 25)>>)

MCOpArray == "main" :> Sequence @@ "f" :> Branchy @@ "g" :> LeafLoop
MCFuncs == DOMAIN MCOpArray
OneFile == [f \in MCFuncs |-> "a.php"]
DistinctKeys == [f \in MCFuncs |-> f]
ExcludeOrNot == {{}, {{"a.php"}}}

\* The program is of the kind the theorems are about.
ASSUME ProgramAsCompiled ==
  LandsInBlocks /\ FlowKnown /\ CallsPrepared /\ BlocksHooked /\ OutsDistinct

\* {main} calls f, f calls g.
MCCallees ==
  [f \in MCFuncs |-> IF f = "main" THEN {"f"} ELSE IF f = "f" THEN {"g"} ELSE {}]
=============================================================================
