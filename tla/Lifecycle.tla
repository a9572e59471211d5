----------------------------- MODULE Lifecycle -----------------------------
(***************************************************************************)
(* What outlives a request in a PHP process: the mode that                 *)
(* fxd_resolve_mode latches in a static, the statics of the profiler and   *)
(* of the debugger stub, and the Cachegrind files on disk.  The module     *)
(* composes the handlers of src/fast_xdebug.c (RINIT, RSHUTDOWN and the    *)
(* API functions) over the requests of one worker without threads, which   *)
(* may be killed and replaced.                                             *)
(*                                                                         *)
(* A mode is the set of the features it names.  A profiled call is an      *)
(* identity: records and totals are told by the calls whose cost is in     *)
(* them (module Profiler computes the costs).  No PHP code runs after      *)
(* RSHUTDOWN.                                                              *)
(***************************************************************************)
EXTENDS Integers, FiniteSets

CONSTANTS
  AUTO, NONE,   \* xdebug.mode=auto; nothing
  Inis,         \* values of xdebug.mode: modes, or AUTO
  Environments, \* process environments: XDEBUG_MODE and XDEBUG_TRIGGER
  Files,        \* paths a program gives to xdebug_start_trace
  Pids,         \* process ids
  MaxRequests, MaxCalls, MaxProcesses   \* bounds; the calls are those of a request

Features == {"coverage", "profile", "debug"}
Modes == SUBSET Features
Settings == [ini : Inis, env : Environments]

\* cachegrind.out.<pid> is named by the pid.
Paths == Files \cup Pids
CallIds == Nat \X Nat
Reports == [records : SUBSET CallIds, total : SUBSET CallIds, request : Nat, sessions : Nat]

ASSUME LifecycleAssumption ==
  /\ \A m \in Modes : m # AUTO /\ m # NONE
  /\ NONE \notin Paths /\ NONE \notin Settings /\ NONE \notin Reports
  /\ Inis \subseteq {AUTO} \cup Modes
  /\ Environments \subseteq [mode : {NONE} \cup Modes, trigger : BOOLEAN]
  /\ Pids \cap Files = {}
  /\ {MaxRequests, MaxCalls} \subseteq Nat /\ MaxProcesses \in Nat \ {0}

VARIABLES
  pid, processes,
  base_env,     \* the environment the process began with
  request,      \* a request is being served
  ini, env,     \* xdebug.mode of the request; the environment as it is now
  resolved,     \* fxd_resolve_mode's static; NONE until `done'
  coverage_active, dbg_warned,
  prof_active, prof_file, prof_funcs, prof_total,
  disk,         \* path -> what was last written there
  \* History:
  first,        \* xdebug.mode and environment of the first RINIT of the process
  requests, calls,  \* requests begun; calls of this one
  profiled,     \* the calls of the last request that ended under an active profiler
  notices,      \* the debugger's notices in it
  autostarted,  \* RINIT has started the profiler
  sessions,     \* profiling sessions started in it: 0, 1, or 2 for more
  written       \* the file of its last fxd_prof_write: NONE if not all was written

engineVars == <<pid, processes, base_env, request, ini>>
prof == <<prof_active, prof_file, prof_funcs, prof_total>>
requestHistory == <<first, requests, notices, autostarted>>
vars == <<engineVars, env, resolved, coverage_active, dbg_warned, prof, disk, requestHistory,
          calls, profiled, sessions, written>>

TypeOK ==
  /\ pid \in Pids /\ processes \in 0 .. MaxProcesses
  /\ {base_env, env} \subseteq Environments /\ ini \in Inis
  /\ {request, coverage_active, dbg_warned, prof_active, autostarted} \subseteq BOOLEAN
  /\ resolved \in {NONE} \cup Modes
  /\ prof_file \in Paths \cup {NONE} /\ (prof_active => prof_file \in Paths)
  /\ prof_funcs \subseteq CallIds /\ prof_total \subseteq CallIds
  /\ disk \in [Paths -> {NONE} \cup Reports]
  /\ first \in {NONE} \cup Settings
  /\ requests \in 0 .. MaxRequests /\ calls \in 0 .. MaxCalls
  /\ profiled \subseteq CallIds
  /\ notices \in 0 .. 1 /\ sessions \in 0 .. 2
  /\ written \in Paths \cup {NONE}

Init ==
  /\ pid \in Pids /\ processes = 1 /\ requests = 0
  /\ base_env \in Environments /\ env = base_env /\ resolved = NONE
  /\ request = FALSE /\ ini \in Inis
  /\ coverage_active = FALSE /\ dbg_warned = FALSE
  /\ prof_active = FALSE /\ prof_file = NONE /\ prof_funcs = {} /\ prof_total = {}
  /\ disk = [f \in Paths |-> NONE]
  /\ first = NONE /\ calls = 0 /\ profiled = {} /\ notices = 0 /\ autostarted = FALSE
  /\ sessions = 0 /\ written = NONE

-----------------------------------------------------------------------------
\* The mode.

\* What fxd_resolve_mode finds with xdebug.mode = i in environment e.
Resolve(i, e) ==
  IF i # AUTO THEN i ELSE IF e.mode # NONE THEN e.mode
  ELSE IF e.trigger THEN {"profile"} ELSE {"coverage"}

\* Slip: `done' is never set.
EachTime(i, e) == Resolve(i, e)

\* What fxd_resolve_mode returns, and keeps.
Mode(i, e) == IF resolved # NONE THEN resolved ELSE Resolve(i, e)

-----------------------------------------------------------------------------
\* The profiler.

\* Slips: no default path; the total of an earlier session stays.
StartUnnamed(f) ==
  /\ prof_file' = IF f \in Files THEN f ELSE NONE
  /\ prof_total' = {} /\ prof_active' = TRUE /\ UNCHANGED prof_funcs
StartKeepsTotal(f) ==
  prof_file' = f /\ prof_active' = TRUE /\ UNCHANGED <<prof_funcs, prof_total>>

\* fxd_profiler_start: a session in progress is not written, and the records
\* stay.
ProfilerStart(f) ==
  /\ prof_file' = f
  /\ prof_total' = {}
  /\ prof_active' = TRUE
  /\ UNCHANGED prof_funcs

\* A report that has not got to the disk.
Truncated == [records |-> {}, total |-> {}, request |-> requests, sessions |-> sessions]

\* fxd_prof_write: fopen may fail, and nobody looks at what fwrite returns.
Write ==
  \/ /\ disk' = [disk EXCEPT ![prof_file] =
          [records |-> prof_funcs, total |-> prof_total, request |-> requests,
           sessions |-> sessions]]
     /\ written' = prof_file
  \/ disk' = [disk EXCEPT ![prof_file] = Truncated] /\ written' = NONE
  \/ UNCHANGED disk /\ written' = NONE

\* fxd_profiler_stop.
ProfilerStop ==
  /\ prof_active' = FALSE
  /\ IF prof_active THEN Write ELSE UNCHANGED <<disk, written>>

\* A function call ends; if profiled, its cost is recorded.
Call ==
  /\ request /\ calls < MaxCalls
  /\ calls' = calls + 1
  /\ LET new == IF prof_active THEN {<<requests, calls>>} ELSE {}
     IN  /\ prof_funcs' = prof_funcs \cup new
         /\ prof_total' = prof_total \cup new
         /\ profiled' = profiled \cup new
  /\ UNCHANGED <<engineVars, env, resolved, coverage_active, dbg_warned, prof_active, prof_file,
                 disk, requestHistory, sessions, written>>

-----------------------------------------------------------------------------
\* The API functions.

\* xdebug_start_trace, whatever the mode.
StartTrace ==
  /\ request
  /\ \E f \in Files \cup {pid} : ProfilerStart(f)
  /\ sessions' = IF sessions = 0 THEN 1 ELSE 2
  /\ UNCHANGED <<engineVars, env, resolved, coverage_active, dbg_warned, disk, requestHistory,
                 calls, profiled, written>>

\* xdebug_stop_trace.
StopTrace ==
  /\ request
  /\ ProfilerStop
  /\ UNCHANGED <<engineVars, env, resolved, coverage_active, dbg_warned, prof_file, prof_funcs,
                 prof_total, requestHistory, calls, profiled, sessions>>

\* xdebug_get_tracefile_name; NONE for false.
TracefileName == prof_file

\* xdebug_start_code_coverage.
StartCodeCoverage ==
  /\ request
  /\ resolved' = Mode(ini, env)
  /\ coverage_active' = (coverage_active \/ "coverage" \in resolved')
  /\ UNCHANGED <<engineVars, env, dbg_warned, prof, disk, requestHistory, calls, profiled,
                 sessions, written>>

\* xdebug_stop_code_coverage.
StopCodeCoverage ==
  /\ request
  /\ coverage_active' = FALSE
  /\ UNCHANGED <<engineVars, env, resolved, dbg_warned, prof, disk, requestHistory, calls,
                 profiled, sessions, written>>

\* xdebug_info, fast_xdebug_resolved_mode and fast_xdebug_recommended_settings.
Info ==
  /\ request
  /\ resolved' = Mode(ini, env)
  /\ UNCHANGED <<engineVars, env, coverage_active, dbg_warned, prof, disk, requestHistory, calls,
                 profiled, sessions, written>>

\* putenv.
PutEnv ==
  /\ request
  /\ env' \in Environments
  /\ UNCHANGED <<engineVars, resolved, coverage_active, dbg_warned, prof, disk, requestHistory,
                 calls, profiled, sessions, written>>

-----------------------------------------------------------------------------
\* The life of a request and of the process.

\* fxd_debugger_maybe_start, in mode m after fxd_debugger_rinit.
DebuggerNotice(m) ==
  /\ dbg_warned' = ("debug" \in m)
  /\ notices' = IF "debug" \in m THEN 1 ELSE 0

\* RINIT.  xdebug.mode is PHP_INI_SYSTEM, which the web server and the sections
\* of php.ini set per request.
RInit ==
  /\ ~request /\ requests < MaxRequests
  /\ request' = TRUE /\ requests' = requests + 1
  /\ ini' \in Inis
  /\ first' = IF first = NONE THEN [ini |-> ini', env |-> env] ELSE first
  /\ coverage_active' = FALSE
  /\ resolved' = Mode(ini', env)
  /\ IF "profile" \in resolved'
     THEN ProfilerStart(pid) /\ sessions' = 1 /\ autostarted' = TRUE
     ELSE /\ prof_active' = FALSE /\ sessions' = 0 /\ autostarted' = FALSE
          /\ UNCHANGED <<prof_file, prof_funcs, prof_total>>
  /\ DebuggerNotice(resolved')
  /\ calls' = 0 /\ profiled' = {} /\ written' = NONE
  /\ UNCHANGED <<pid, processes, base_env, env, disk>>

\* Slips: the profile is written after its records are freed; the name of
\* the file is kept.
FlushAfterFree ==
  /\ prof_active' = FALSE /\ prof_file' = NONE /\ prof_funcs' = {}
  /\ IF prof_active
     THEN /\ disk' = [disk EXCEPT ![prof_file] =
                [records |-> {}, total |-> prof_total, request |-> requests,
                 sessions |-> sessions]]
          /\ written' = prof_file
     ELSE UNCHANGED <<disk, written>>
KeepFile == ProfilerStop /\ prof_funcs' = {} /\ UNCHANGED prof_file

\* fxd_profiler_rshutdown.
ProfilerRShutdown == ProfilerStop /\ prof_funcs' = {} /\ prof_file' = NONE

\* RSHUTDOWN; the engine then takes back what putenv did.
RShutdown ==
  /\ request
  /\ request' = FALSE
  /\ ProfilerRShutdown
  /\ env' = base_env
  /\ UNCHANGED <<pid, processes, base_env, ini, resolved, coverage_active, dbg_warned, prof_total,
                 requestHistory, calls, profiled, sessions>>

\* The process is killed, and another takes its place.  In fxd_prof_write it
\* leaves the file it has opened empty.
Replace ==
  /\ processes < MaxProcesses
  /\ processes' = processes + 1
  /\ pid' \in Pids
  /\ base_env' \in Environments /\ env' = base_env' /\ resolved' = NONE
  /\ request' = FALSE
  /\ coverage_active' = FALSE /\ dbg_warned' = FALSE
  /\ prof_active' = FALSE /\ prof_file' = NONE /\ prof_funcs' = {} /\ prof_total' = {}
  /\ first' = NONE /\ calls' = 0 /\ profiled' = {} /\ notices' = 0 /\ autostarted' = FALSE
  /\ sessions' = 0 /\ written' = NONE
  /\ \/ UNCHANGED disk
     \/ prof_active /\ disk' = [disk EXCEPT ![prof_file] = Truncated]
  /\ UNCHANGED <<ini, requests>>

Next ==
  \/ Call \/ StartTrace \/ StopTrace \/ StartCodeCoverage \/ StopCodeCoverage \/ Info \/ PutEnv
  \/ RInit \/ RShutdown \/ Replace

Spec == Init /\ [][Next]_vars

-----------------------------------------------------------------------------
\* Properties.

(* README.md, "Mode auto-detection": "the effective mode is resolved once    *)
(* per request": a request begins in the mode that its own xdebug.mode and   *)
(* environment give, an explicit one before XDEBUG_MODE before the trigger   *)
(* before coverage.                                                          *)
ModeOfRequest ==
  [][ ~request /\ request' =>
        LET unnamed == ini' = AUTO /\ env'.mode = NONE
        IN  /\ ini' # AUTO => resolved' = ini'
            /\ ini' = AUTO /\ ~unnamed => resolved' = env'.mode
            /\ unnamed => resolved' = IF env'.trigger THEN {"profile"} ELSE {"coverage"} ]_vars

(* fast_xdebug.c: RINIT and the API functions act on one mode, which a       *)
(* program can only ask for: the profiler began with the request if and only *)
(* if xdebug_info('mode') has "profile", coverage is collected only if it    *)
(* has "coverage", and the request got the debugger's notice, once, if and   *)
(* only if it has "debug".                                                   *)
ActsOnOneMode ==
  request =>
    /\ autostarted <=> "profile" \in resolved
    /\ coverage_active => "coverage" \in resolved
    /\ notices = IF "debug" \in resolved THEN 1 ELSE 0

(* profiler.c: "auto-flush if still active (script ended without explicit    *)
(* stop)": when the profiler is off, in a request or after it, every call of *)
(* the request it was on for is in the file last written, however often it   *)
(* was stopped and started in between, unless that file could not be written *)
(* whole.                                                                    *)
ProfileSaved ==
  ~prof_active /\ written # NONE =>
    disk[written] # NONE /\ disk[written].records = profiled

(* A file holds the calls of one request, which has written it, and its      *)
(* summary is of calls the file holds: of all of them, unless the request    *)
(* has started the profiler more than once.                                  *)
ReportOfOneRequest ==
  \A f \in Paths : disk[f] # NONE =>
    LET report == disk[f]
    IN  /\ report.records \subseteq {report.request} \X Nat
        /\ report.total \subseteq report.records
        /\ report.sessions = 1 => report.total = report.records

(* What xdebug_get_tracefile_name names once the profiler is off is the file *)
(* of this request's profile, and never one of an earlier request's.         *)
TracefileHoldsProfile ==
  /\ TracefileName # NONE => request
  /\ TracefileName # NONE /\ ~prof_active /\ written # NONE =>
       disk[TracefileName] # NONE /\ disk[TracefileName].records = profiled
=============================================================================
