----------------------------- MODULE MCCoverage -----------------------------
(* Small programs for model checking the recorder.                           *)
EXTENDS Coverage, TLC

CONSTANT Program    \* which of the programs below

Op(code, to, line) == [code |-> code, to |-> to, line |-> line, catch |-> NONE]
Guarded(op, catch) == [op EXCEPT !.catch = catch]
Array(ops) == [last |-> Len(ops), opcodes |-> [p \in 0 .. Len(ops) - 1 |-> ops[p + 1]]]

\* {main}: the xdebug_* call and the call under test, in a loop.
Driver == Array(<<Op("ICALL", <<>>, 1), Op("CALL", <<>>, 2),
                  Op("BRANCH", <<0>>, 2), Op("RETURN", <<>>, 3)>>)

\* if (...) { call(); } return;
IfCall == Array(<<Op("BRANCH", <<2>>, 1), Op("CALL", <<>>, 2), Op("RETURN", <<>>, 3)>>)

\* call(); return;
Straight == Array(<<Op("CALL", <<>>, 1), Op("RETURN", <<>>, 2)>>)

\* An if without a call.
If == Array(<<Op("BRANCH", <<2>>, 1), Op("PLAIN", <<>>, 2), Op("RETURN", <<>>, 3)>>)

\* try { plain } catch: two entries.
TryCatch == Array(<<Guarded(Op("PLAIN", <<>>, 1), 2), Op("RETURN", <<>>, 2),
                    Op("CATCH", <<>>, 3), Op("RETURN", <<>>, 4)>>)

Programs ==
  [calls |-> "main" :> Driver @@ "f" :> IfCall @@ "g" :> Straight,
   leaf  |-> "main" :> Driver @@ "f" :> If,
   try   |-> "main" :> Driver @@ "f" :> IfCall @@ "g" :> TryCatch]

MCOpArray == Programs[Program]
MCFuncs == DOMAIN MCOpArray

\* Every function but {main} can be called from anywhere, or from {main} only.
CallAny == [f \in MCFuncs |-> MCFuncs \ {"main"}]
CallFromMain == [f \in MCFuncs |-> IF f = "main" THEN MCFuncs \ {f} ELSE {}]

\* g in a file of its own, or all in one.
TwoFiles == [f \in MCFuncs |-> IF f = "g" THEN "b.php" ELSE "a.php"]
OneFile == [f \in MCFuncs |-> "a.php"]

\* Distinct keys, or two closures of one file that share "{closure}".
DistinctKeys == [f \in MCFuncs |-> f]
ClosureKeys == [f \in MCFuncs |-> IF f = "main" THEN f ELSE "{closure}"]

NoLists == {}
OneList == {{{"b.php"}}}
=============================================================================
