-------------------------- MODULE Lifecycle_proof --------------------------
(***************************************************************************)
(* What holds over the requests of a process, for every setting, number of *)
(* requests, calls and processes (module Lifecycle).                       *)
(***************************************************************************)
EXTENDS Lifecycle, TLAPS

\* The mode is what the documented precedence gives for the settings of the
\* process' first request, and stays that.
ModeOfProcess ==
  resolved # NONE =>
    LET automatic == first.ini = AUTO
        unnamed == automatic /\ first.env.mode = NONE
    IN  /\ ~automatic => resolved = first.ini
        /\ automatic /\ ~unnamed => resolved = first.env.mode
        /\ unnamed => resolved = IF first.env.trigger THEN {"profile"} ELSE {"coverage"}

\* The mode is settled by the first RINIT, and so before any API function.
ModeInv ==
  /\ resolved = NONE <=> first = NONE
  /\ request => resolved # NONE
  /\ ModeOfProcess /\ ActsOnOneMode

\* Between requests the profiler has neither records nor a file; in a request
\* its records are the calls it was on for.
RecordsInv ==
  /\ ~request => ~prof_active /\ prof_file = NONE /\ prof_funcs = {}
  /\ request => prof_funcs = profiled
  /\ prof_funcs \subseteq {requests} \X Nat

\* The file last written has them all, and is the one that is named.
FileInv ==
  /\ ProfileSaved
  /\ request /\ ~prof_active /\ written # NONE => prof_file = written

\* The total of a session is over recorded calls, and over all of them in the
\* first session of a request.
TotalInv ==
  /\ request /\ sessions = 0 => ~prof_active /\ prof_funcs = {}
  /\ prof_active => prof_total \subseteq prof_funcs
  /\ prof_active /\ sessions = 1 => prof_total = prof_funcs
  /\ ReportOfOneRequest

IInv == TypeOK /\ ModeInv /\ RecordsInv /\ FileInv /\ TotalInv

-----------------------------------------------------------------------------
LEMMA ResolveIsMode ==
  ASSUME NEW i \in Inis, NEW e \in Environments
  PROVE  Resolve(i, e) \in Modes /\ Resolve(i, e) # NONE
<1>1. Resolve(i, e) \in Modes
  BY LifecycleAssumption DEF Resolve, Modes, Features
<1> QED
  BY <1>1, LifecycleAssumption

LEMMA ModeIsMode ==
  ASSUME TypeOK, NEW i \in Inis, NEW e \in Environments
  PROVE  Mode(i, e) \in Modes /\ Mode(i, e) # NONE
BY ResolveIsMode DEF Mode, TypeOK

-----------------------------------------------------------------------------
\* Types.

LEMMA WriteTypes ==
  ASSUME TypeOK, prof_active, Write
  PROVE  disk' \in [Paths -> {NONE} \cup Reports] /\ written' \in Paths \cup {NONE}
<1>1. [records |-> prof_funcs, total |-> prof_total, request |-> requests,
       sessions |-> sessions] \in Reports
  BY LifecycleAssumption DEF TypeOK, Reports
<1>2. Truncated \in Reports
  BY DEF TypeOK, Reports, Truncated
<1> QED
  BY <1>1, <1>2 DEF Write, TypeOK

LEMMA StopTypes ==
  ASSUME TypeOK, ProfilerStop
  PROVE  /\ disk' \in [Paths -> {NONE} \cup Reports] /\ written' \in Paths \cup {NONE}
         /\ prof_active' = FALSE
BY WriteTypes DEF ProfilerStop, TypeOK

LEMMA TypeStep ==
  ASSUME TypeOK, [Next]_vars
  PROVE  TypeOK'
<1> USE LifecycleAssumption
<1>1. CASE Call
  <2>1. calls' \in 0 .. MaxCalls
    BY <1>1 DEF Call, TypeOK
  <2>2. <<requests, calls>> \in CallIds
    BY DEF TypeOK, CallIds
  <2> QED
    BY <1>1, <2>1, <2>2 DEF Call, TypeOK, engineVars, requestHistory
<1>2. CASE StartTrace
  BY <1>2 DEF StartTrace, ProfilerStart, TypeOK, Paths, engineVars, requestHistory
<1>3. CASE StopTrace
  BY <1>3, StopTypes DEF StopTrace, TypeOK, engineVars, requestHistory
<1>4. CASE StartCodeCoverage
  BY <1>4, ModeIsMode DEF StartCodeCoverage, TypeOK, engineVars, prof, requestHistory
<1>5. CASE StopCodeCoverage
  BY <1>5 DEF StopCodeCoverage, TypeOK, engineVars, prof, requestHistory
<1>6. CASE Info
  BY <1>6, ModeIsMode DEF Info, TypeOK, engineVars, prof, requestHistory
<1>7. CASE PutEnv
  BY <1>7 DEF PutEnv, TypeOK, engineVars, prof, requestHistory
<1>8. CASE RInit
  <2>1. ini' \in Inis /\ resolved' \in Modes
    BY <1>8, ModeIsMode DEF RInit, TypeOK
  <2>2. first' \in {NONE} \cup Settings
    BY <1>8, <2>1 DEF RInit, TypeOK, Settings
  <2>3. requests' \in 0 .. MaxRequests
    BY <1>8 DEF RInit, TypeOK
  <2>4. /\ prof_active' \in BOOLEAN /\ autostarted' \in BOOLEAN /\ sessions' \in 0 .. 2
        /\ prof_file' \in Paths \cup {NONE} /\ (prof_active' => prof_file' \in Paths)
        /\ prof_funcs' \subseteq CallIds /\ prof_total' \subseteq CallIds
    <3>1. CASE "profile" \in resolved'
      BY <1>8, <3>1 DEF RInit, ProfilerStart, TypeOK, Paths
    <3>2. CASE "profile" \notin resolved'
      <4>1. /\ prof_active' = FALSE /\ sessions' = 0 /\ autostarted' = FALSE
            /\ prof_file' = prof_file /\ prof_funcs' = prof_funcs /\ prof_total' = prof_total
        BY <1>8, <3>2 DEF RInit
      <4>2. prof_file' \in Paths \cup {NONE} /\ (prof_active' => prof_file' \in Paths)
        BY <4>1 DEF TypeOK
      <4>3. prof_funcs' \subseteq CallIds /\ prof_total' \subseteq CallIds
        BY <4>1 DEF TypeOK
      <4>4. prof_active' \in BOOLEAN /\ autostarted' \in BOOLEAN
        BY <4>1
      <4>5. sessions' \in 0 .. 2
        BY <4>1
      <4> QED
        BY <4>2, <4>3, <4>4, <4>5
    <3> QED
      BY <3>1, <3>2
  <2>5. dbg_warned' \in BOOLEAN /\ notices' \in 0 .. 1
    BY <1>8 DEF RInit, DebuggerNotice
  <2>6. /\ request' = TRUE /\ coverage_active' = FALSE /\ calls' = 0 /\ profiled' = {}
        /\ written' = NONE /\ UNCHANGED <<pid, processes, base_env, env, disk>>
    BY <1>8 DEF RInit
  <2>7. 0 \in 0 .. MaxCalls
    OBVIOUS
  <2> QED
    BY <2>1, <2>2, <2>3, <2>4, <2>5, <2>6, <2>7 DEF TypeOK
<1>9. CASE RShutdown
  BY <1>9, StopTypes DEF RShutdown, ProfilerRShutdown, TypeOK, requestHistory
<1>10. CASE Replace
  <2>1. disk' \in [Paths -> {NONE} \cup Reports]
    <3>1. Truncated \in Reports
      BY DEF TypeOK, Reports, Truncated
    <3> QED
      BY <1>10, <3>1 DEF Replace, TypeOK
  <2>2. processes' \in 0 .. MaxProcesses
    BY <1>10 DEF Replace, TypeOK
  <2>3. /\ pid' \in Pids /\ {base_env, env}' \subseteq Environments /\ resolved' = NONE
        /\ {request, coverage_active, dbg_warned, prof_active, autostarted}' = {FALSE}
        /\ prof_active' = FALSE /\ prof_file' = NONE /\ prof_funcs' = {} /\ prof_total' = {}
        /\ first' = NONE /\ calls' = 0 /\ profiled' = {} /\ notices' = 0 /\ sessions' = 0
        /\ written' = NONE /\ ini' = ini /\ requests' = requests
    BY <1>10 DEF Replace
  <2>4. prof_file' \in Paths \cup {NONE} /\ (prof_active' => prof_file' \in Paths)
    BY <2>3
  <2>5. calls' \in 0 .. MaxCalls /\ requests' \in 0 .. MaxRequests /\ notices' \in 0 .. 1
        /\ sessions' \in 0 .. 2
    BY <2>3 DEF TypeOK
  <2>6. prof_funcs' \subseteq CallIds /\ prof_total' \subseteq CallIds /\ profiled' \subseteq CallIds
    BY <2>3
  <2>7. {request, coverage_active, dbg_warned, prof_active, autostarted}' \subseteq BOOLEAN
    BY <2>3
  <2>8. resolved' \in {NONE} \cup Modes /\ written' \in Paths \cup {NONE} /\ ini' \in Inis
        /\ first' \in {NONE} \cup Settings
    BY <2>3 DEF TypeOK
  <2> QED
    BY <2>1, <2>2, <2>3, <2>4, <2>5, <2>6, <2>7, <2>8 DEF TypeOK
<1>11. CASE UNCHANGED vars
  BY <1>11 DEF TypeOK, vars, engineVars, prof, requestHistory
<1> QED
  BY <1>1, <1>2, <1>3, <1>4, <1>5, <1>6, <1>7, <1>8, <1>9, <1>10, <1>11 DEF Next

-----------------------------------------------------------------------------
\* The mode.

\* No action but RInit and Replace disturbs the mode or what was done by it;
\* an API function that asks for it finds it resolved.
ModeStays ==
  /\ UNCHANGED <<request, first, resolved, autostarted, notices>>
  /\ coverage_active' => coverage_active \/ "coverage" \in resolved

LEMMA ModeInvStays ==
  ASSUME ModeInv, ModeStays
  PROVE  ModeInv'
BY DEF ModeInv, ModeStays, ModeOfProcess, ActsOnOneMode

LEMMA ModeStep ==
  ASSUME TypeOK, ModeInv, [Next]_vars
  PROVE  ModeInv'
<1>1. CASE Call \/ StartTrace \/ StopTrace \/ StopCodeCoverage \/ PutEnv \/ UNCHANGED vars
  <2>1. ModeStays
    BY <1>1 DEF ModeStays, Call, StartTrace, StopTrace, StopCodeCoverage, PutEnv, vars,
                engineVars, requestHistory, prof
  <2> QED
    BY <2>1, ModeInvStays
<1>2. CASE StartCodeCoverage \/ Info
  <2>1. resolved' = resolved
    BY <1>2 DEF StartCodeCoverage, Info, Mode, ModeInv
  <2>2. UNCHANGED <<request, first, autostarted, notices>>
    BY <1>2 DEF StartCodeCoverage, Info, engineVars, requestHistory
  <2>3. coverage_active' => coverage_active \/ "coverage" \in resolved
    <3>1. CASE StartCodeCoverage
      BY <2>1, <3>1 DEF StartCodeCoverage
    <3>2. CASE Info
      BY <3>2 DEF Info
    <3> QED
      BY <1>2, <3>1, <3>2
  <2>4. ModeStays
    BY <2>1, <2>2, <2>3 DEF ModeStays
  <2> QED
    BY <2>4, ModeInvStays
<1>3. CASE RInit
  <2>1. resolved' # NONE /\ first' # NONE
    <3>1. first' # NONE
      <4>1. [ini |-> ini', env |-> env] \in Settings
        BY <1>3 DEF RInit, TypeOK, Settings
      <4> QED
        BY <1>3, <4>1, LifecycleAssumption DEF RInit
    <3> QED
      BY <1>3, <3>1, ModeIsMode DEF RInit, TypeOK
  <2>2. ModeOfProcess'
    <3>1. CASE resolved = NONE
      <4>1. first' = [ini |-> ini', env |-> env] /\ resolved' = Resolve(ini', env)
        BY <1>3, <3>1 DEF RInit, Mode, ModeInv
      <4>2. first'.ini = ini' /\ first'.env = env
        BY <4>1
      <4> QED
        BY <4>1, <4>2 DEF ModeOfProcess, Resolve
    <3>2. CASE resolved # NONE
      BY <1>3, <3>2 DEF RInit, Mode, ModeInv, ModeOfProcess
    <3> QED
      BY <3>1, <3>2
  <2>3. ActsOnOneMode'
    BY <1>3 DEF RInit, ActsOnOneMode, DebuggerNotice
  <2> QED
    BY <2>1, <2>2, <2>3 DEF ModeInv
<1>4. CASE RShutdown
  BY <1>4 DEF RShutdown, ModeInv, ModeOfProcess, ActsOnOneMode, requestHistory
<1>5. CASE Replace
  BY <1>5 DEF Replace, ModeInv, ModeOfProcess, ActsOnOneMode
<1> QED
  BY <1>1, <1>2, <1>3, <1>4, <1>5 DEF Next

-----------------------------------------------------------------------------
\* The profile.

LEMMA RecordsStep ==
  ASSUME TypeOK, RecordsInv, [Next]_vars
  PROVE  RecordsInv'
<1>1. CASE Call
  <2>1. <<requests, calls>> \in {requests} \X Nat
    BY DEF TypeOK
  <2> QED
    BY <1>1, <2>1 DEF Call, RecordsInv, engineVars, requestHistory
<1>2. CASE StartTrace
  BY <1>2 DEF StartTrace, ProfilerStart, RecordsInv, engineVars, requestHistory
<1>3. CASE StopTrace
  BY <1>3 DEF StopTrace, ProfilerStop, RecordsInv, engineVars, requestHistory
<1>4. CASE StartCodeCoverage \/ StopCodeCoverage \/ Info \/ PutEnv \/ UNCHANGED vars
  BY <1>4 DEF StartCodeCoverage, StopCodeCoverage, Info, PutEnv, vars, RecordsInv, engineVars,
              prof, requestHistory
<1>5. CASE RInit
  BY <1>5 DEF RInit, ProfilerStart, RecordsInv
<1>6. CASE RShutdown
  BY <1>6 DEF RShutdown, ProfilerRShutdown, ProfilerStop, RecordsInv, requestHistory
<1>7. CASE Replace
  BY <1>7 DEF Replace, RecordsInv
<1> QED
  BY <1>1, <1>2, <1>3, <1>4, <1>5, <1>6, <1>7 DEF Next

LEMMA WritesProfile ==
  ASSUME TypeOK, RecordsInv, request, prof_active, Write, written' # NONE
  PROVE  /\ written' = prof_file
         /\ disk'[written'] # NONE
         /\ disk'[written'].records = profiled
<1>1. prof_file \in Paths /\ DOMAIN disk = Paths
  BY DEF TypeOK
<1> DEFINE report == [records |-> prof_funcs, total |-> prof_total, request |-> requests,
                      sessions |-> sessions]
<1>2. disk' = [disk EXCEPT ![prof_file] = report] /\ written' = prof_file
  BY DEF Write
<1>3. report # NONE
  <2>1. report \in Reports
    BY LifecycleAssumption DEF TypeOK, Reports
  <2> QED
    BY <2>1, LifecycleAssumption
<1>5. report.records = profiled
  BY DEF RecordsInv
<1>4. disk'[prof_file] = report
  BY <1>1, <1>2
<1> QED
  BY <1>2, <1>3, <1>4, <1>5

LEMMA FileStep ==
  ASSUME TypeOK, RecordsInv, FileInv, [Next]_vars
  PROVE  FileInv'
<1>1. CASE Call
  BY <1>1 DEF Call, FileInv, ProfileSaved, engineVars, requestHistory
<1>2. CASE StartTrace
  BY <1>2 DEF StartTrace, ProfilerStart, FileInv, ProfileSaved, engineVars, requestHistory
<1>3. CASE StopTrace
  BY <1>3, WritesProfile
     DEF StopTrace, ProfilerStop, FileInv, ProfileSaved, engineVars, requestHistory
<1>4. CASE StartCodeCoverage \/ StopCodeCoverage \/ Info \/ PutEnv \/ UNCHANGED vars
  BY <1>4 DEF StartCodeCoverage, StopCodeCoverage, Info, PutEnv, vars, FileInv, ProfileSaved,
              engineVars, prof, requestHistory
<1>5. CASE RInit
  BY <1>5 DEF RInit, FileInv, ProfileSaved
<1>6. CASE RShutdown
  BY <1>6, WritesProfile
     DEF RShutdown, ProfilerRShutdown, ProfilerStop, FileInv, ProfileSaved, requestHistory
<1>7. CASE Replace
  BY <1>7 DEF Replace, FileInv, ProfileSaved
<1> QED
  BY <1>1, <1>2, <1>3, <1>4, <1>5, <1>6, <1>7 DEF Next

\* A report that may be on disk.
Sound(report) ==
  /\ report.records \subseteq {report.request} \X Nat
  /\ report.total \subseteq report.records
  /\ report.sessions = 1 => report.total = report.records

LEMMA WritesSound ==
  ASSUME TypeOK, RecordsInv, TotalInv, prof_active, Write
  PROVE  ReportOfOneRequest'
<1> DEFINE report == [records |-> prof_funcs, total |-> prof_total, request |-> requests,
                      sessions |-> sessions]
<1>1. Sound(report) /\ Sound(Truncated)
  BY DEF Sound, RecordsInv, TotalInv, Truncated
<1>2. ASSUME NEW f \in Paths, disk'[f] # NONE
      PROVE  Sound(disk'[f])
  <2>1. disk'[f] = report \/ disk'[f] = Truncated \/ disk'[f] = disk[f]
    BY DEF Write, TypeOK
  <2>2. disk'[f] = disk[f] => Sound(disk'[f])
    BY <1>2 DEF TotalInv, ReportOfOneRequest, Sound
  <2> QED
    BY <1>1, <2>1, <2>2
<1> QED
  BY <1>2 DEF ReportOfOneRequest, Sound

LEMMA TotalStep ==
  ASSUME TypeOK, RecordsInv, TotalInv, [Next]_vars
  PROVE  TotalInv'
<1>1. CASE Call
  BY <1>1 DEF Call, TotalInv, ReportOfOneRequest, engineVars, requestHistory
<1>2. CASE StartTrace
  <2>1. sessions' = 1 => prof_funcs = {}
    BY <1>2 DEF StartTrace, TotalInv
  <2>2. sessions' # 0
    BY <1>2 DEF StartTrace
  <2> QED
    BY <1>2, <2>1, <2>2 DEF StartTrace, ProfilerStart, TotalInv, ReportOfOneRequest
<1>3. CASE StopTrace
  <2>1. ReportOfOneRequest'
    BY <1>3, WritesSound DEF StopTrace, ProfilerStop, TotalInv, ReportOfOneRequest
  <2> QED
    BY <1>3, <2>1 DEF StopTrace, ProfilerStop, TotalInv, engineVars
<1>4. CASE StartCodeCoverage \/ StopCodeCoverage \/ Info \/ PutEnv \/ UNCHANGED vars
  BY <1>4 DEF StartCodeCoverage, StopCodeCoverage, Info, PutEnv, vars, TotalInv,
              ReportOfOneRequest, engineVars, prof
<1>5. CASE RInit
  <2>1. prof_funcs = {} /\ prof_funcs' = {} /\ disk' = disk
    BY <1>5 DEF RInit, ProfilerStart, RecordsInv
  <2>2. prof_active' => prof_total' = {} /\ sessions' # 0
    BY <1>5 DEF RInit, ProfilerStart
  <2>3. ReportOfOneRequest'
    BY <2>1 DEF TotalInv, ReportOfOneRequest
  <2> QED
    BY <2>1, <2>2, <2>3 DEF TotalInv
<1>6. CASE RShutdown
  <2>1. ReportOfOneRequest'
    BY <1>6, WritesSound
       DEF RShutdown, ProfilerRShutdown, ProfilerStop, TotalInv, ReportOfOneRequest
  <2> QED
    BY <1>6, <2>1 DEF RShutdown, ProfilerRShutdown, ProfilerStop, TotalInv
<1>7. CASE Replace
  <2>1. ASSUME NEW f \in Paths, disk'[f] # NONE
        PROVE  Sound(disk'[f])
    <3>1. disk'[f] = Truncated \/ disk'[f] = disk[f]
      BY <1>7 DEF Replace, TypeOK
    <3>2. Sound(Truncated)
      BY DEF Sound, Truncated
    <3>3. disk'[f] = disk[f] => Sound(disk'[f])
      BY <2>1 DEF TotalInv, ReportOfOneRequest, Sound
    <3> QED
      BY <3>1, <3>2, <3>3
  <2>2. ReportOfOneRequest'
    BY <2>1 DEF ReportOfOneRequest, Sound
  <2> QED
    BY <1>7, <2>2 DEF Replace, TotalInv
<1> QED
  BY <1>1, <1>2, <1>3, <1>4, <1>5, <1>6, <1>7 DEF Next

-----------------------------------------------------------------------------
LEMMA InitIInv == Init => IInv
<1> SUFFICES ASSUME Init PROVE IInv
  OBVIOUS
<1> USE LifecycleAssumption
<1>1. TypeOK
  <2>1. /\ pid \in Pids /\ {base_env, env} \subseteq Environments /\ ini \in Inis
        /\ resolved \in {NONE} \cup Modes
        /\ first \in {NONE} \cup Settings
        /\ written \in Paths \cup {NONE}
    BY DEF Init
  <2>2. disk \in [Paths -> {NONE} \cup Reports]
    BY DEF Init
  <2>3. {request, coverage_active, dbg_warned, prof_active, autostarted} \subseteq BOOLEAN
    BY DEF Init
  <2>4. processes \in 0 .. MaxProcesses /\ requests \in 0 .. MaxRequests
        /\ calls \in 0 .. MaxCalls /\ notices \in 0 .. 1 /\ sessions \in 0 .. 2
    BY DEF Init
  <2>5. prof_funcs \subseteq CallIds /\ prof_total \subseteq CallIds /\ profiled \subseteq CallIds
    BY DEF Init
  <2>6. prof_file \in Paths \cup {NONE} /\ (prof_active => prof_file \in Paths)
    BY DEF Init
  <2> QED
    BY <2>1, <2>2, <2>3, <2>4, <2>5, <2>6 DEF TypeOK
<1>2. ModeInv
  BY DEF Init, ModeInv, ModeOfProcess, ActsOnOneMode
<1>3. RecordsInv /\ FileInv /\ TotalInv
  BY DEF Init, RecordsInv, FileInv, TotalInv, ProfileSaved, ReportOfOneRequest
<1> QED
  BY <1>1, <1>2, <1>3 DEF IInv

LEMMA Inductive == Spec => []IInv
<1>1. IInv /\ [Next]_vars => IInv'
  BY TypeStep, ModeStep, RecordsStep, FileStep, TotalStep DEF IInv
<1> QED
  BY InitIInv, <1>1, PTL DEF Spec

(* Every variable keeps to its type.                                         *)
THEOREM TypeCorrect == Spec => []TypeOK
BY Inductive, PTL DEF IInv

(* fast_xdebug.c: fxd_resolve_mode keeps what it finds in a static: the mode *)
(* of a process is that of its first request, by the documented precedence,  *)
(* and RINIT and the API functions act on it in every request.               *)
THEOREM ModeSettled == Spec => [](ModeOfProcess /\ ActsOnOneMode)
<1>1. IInv => ModeOfProcess /\ ActsOnOneMode
  BY DEF IInv, ModeInv
<1> QED
  BY Inductive, <1>1, PTL

(* Once the profiler is off, every call it was on for is in the file it      *)
(* wrote, and that is the file xdebug_get_tracefile_name names.              *)
THEOREM ProfilesAreSaved == Spec => [](ProfileSaved /\ TracefileHoldsProfile)
<1>1. IInv => ProfileSaved /\ TracefileHoldsProfile
  BY DEF IInv, RecordsInv, FileInv, ProfileSaved, TracefileHoldsProfile, TracefileName
<1> QED
  BY Inductive, <1>1, PTL

(* No file mixes the calls of two requests, and its summary is of calls it   *)
(* holds.                                                                    *)
THEOREM ReportsAreSound == Spec => []ReportOfOneRequest
<1>1. IInv => ReportOfOneRequest
  BY DEF IInv, TotalInv
<1> QED
  BY Inductive, <1>1, PTL
=============================================================================
