--------------------------- MODULE CoverageFilter ---------------------------
(***************************************************************************)
(* The code-coverage filter: the include and exclude lists that            *)
(* xdebug_set_filter replaces and fxd_file_wanted consults on every op     *)
(* that is not short-circuited.  A path prefix is abstracted to the set of *)
(* the files it covers; a list that is NULL or empty is the empty set.     *)
(***************************************************************************)
EXTENDS ZendVM

CONSTANTS
  Files,        \* source files
  FileOf,       \* [Funcs -> Files]: the filename of an op_array
  FilterLists   \* the lists of prefixes that xdebug_set_filter is called with

ASSUME FilterAssumption ==
  /\ FileOf \in [Funcs -> Files]
  /\ FilterLists \subseteq SUBSET (SUBSET Files)

VARIABLES
  filter_active,
  filter_includes,
  filter_excludes

filterVars == <<filter_active, filter_includes, filter_excludes>>

Prefixes == SUBSET Files

FilterTypeOK ==
  /\ filter_active \in BOOLEAN
  /\ filter_includes \subseteq Prefixes
  /\ filter_excludes \subseteq Prefixes

FilterInit ==
  /\ filter_active = FALSE
  /\ filter_includes = {}
  /\ filter_excludes = {}

Covers(list, file) == \E prefix \in list : file \in prefix

\* fxd_file_wanted.
Wanted(file) ==
  filter_active =>
    /\ filter_includes # {} => Covers(filter_includes, file)
    /\ filter_excludes # {} => ~Covers(filter_excludes, file)

\* xdebug_set_filter: each call replaces one of the two lists and keeps the
\* other; any list type but XDEBUG_PATH_INCLUDE means the exclude list.
ReplaceFilter(list) ==
  /\ \/ filter_includes' = list /\ UNCHANGED filter_excludes
     \/ filter_excludes' = list /\ UNCHANGED filter_includes
  /\ filter_active' = TRUE

\* RSHUTDOWN frees the lists; filter_active is reset by the next RINIT.
FreeFilter ==
  /\ filter_includes' = {}
  /\ filter_excludes' = {}
  /\ UNCHANGED filter_active

ResetFilter ==
  /\ filter_active' = FALSE
  /\ filter_includes' = {}
  /\ filter_excludes' = {}
=============================================================================
