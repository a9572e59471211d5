---------------------------- MODULE MCLifecycle ----------------------------
(* Settings for model checking the life of a process.                        *)
EXTENDS Lifecycle

MCInis == {AUTO, {"coverage"}, {"profile", "debug"}}
MCEnvironments == {[mode |-> NONE, trigger |-> TRUE],
                   [mode |-> {"coverage", "debug"}, trigger |-> TRUE],
                   [mode |-> NONE, trigger |-> FALSE]}
=============================================================================
