---------------------------- MODULE MCPathFinder ----------------------------
(* Functions for model checking the path search.                             *)
EXTENDS PathFinder, TLC

Op(code, to) == [code |-> code, to |-> to, line |-> 1, catch |-> NONE]
Array(ops) == [last |-> Len(ops), opcodes |-> [p \in 0 .. Len(ops) - 1 |-> ops[p + 1]]]

\* if (...) { } if (...) { ... } return;  The first has two equal outs.
Branches == Array(<<Op("BRANCH", <<1>>), Op("BRANCH", <<3>>), Op("PLAIN", <<>>),
                    Op("RETURN", <<>>)>>)

\* while (...) { } return;
While == Array(<<Op("JMP", <<2>>), Op("PLAIN", <<>>), Op("BRANCH", <<1>>), Op("RETURN", <<>>)>>)

\* do { do { } while (...); } while (...); return;
Nested == Array(<<Op("PLAIN", <<>>), Op("BRANCH", <<1>>), Op("BRANCH", <<0>>),
                  Op("RETURN", <<>>)>>)

\* do { if (...) { } } while (...); return;  Its longest routes are not listed.
LoopedIf == Array(<<Op("BRANCH", <<2>>), Op("PLAIN", <<>>), Op("BRANCH", <<0>>),
                    Op("RETURN", <<>>)>>)

\* try { if (...) { throw; } } catch { } return;
Try == Array(<<Op("BRANCH", <<2>>), Op("THROW", <<>>), Op("JMP", <<4>>), Op("CATCH", <<>>),
               Op("RETURN", <<>>)>>)

\* for (;;) { }
Forever == Array(<<Op("PLAIN", <<>>), Op("JMP", <<0>>)>>)

MCOpArrays == {Branches, While, Nested, LoopedIf, Try, Forever}
MCLimits == {UNLIMITED, 1000, 1050}
MCCapOf == [l \in MCLimits |-> CASE l = 1000 -> 1 [] l = 1050 -> 2 [] OTHER -> 100]
=============================================================================
