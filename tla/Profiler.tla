------------------------------ MODULE Profiler ------------------------------
(***************************************************************************)
(* The Cachegrind profiler of src/src/profiler.c: the observer hooks push  *)
(* a frame when a call begins and fold its cost into a per-function record *)
(* and a per-edge record when it ends.  Memory is accounted exactly as     *)
(* time is, so one cost, `now', stands for both.                           *)
(*                                                                         *)
(* The engine decides per function and request, at its first call, whether *)
(* it is observed (observer_init), and then calls begin and end in pairs.  *)
(* It may hold several stacks of calls, one per fiber.  Generators are not *)
(* modelled.                                                               *)
(***************************************************************************)
EXTENDS Integers, FiniteSets, SequencesExt

CONSTANTS
  Funcs,        \* identities of functions: "fl\nfn", internal ones among them
  Main,         \* {main}
  StartTrace, StopTrace,  \* xdebug_start_trace, xdebug_stop_trace: in Funcs
  Switch,       \* Fiber::resume and Fiber::suspend: if a program calls them
  Fibers,       \* 1 is the main fiber
  ProfileMode,  \* the resolved xdebug.mode contains "profile"
  MaxDepth,     \* bound on the calls of a fiber
  MaxCalls,     \* bound on the calls begun in a request
  MaxTime,      \* bound on the clock of a request
  MaxSessions   \* bound on the profiling sessions of a request

ASSUME ProfilerAssumption ==
  /\ IsFiniteSet(Funcs) /\ Main \in Funcs
  /\ Fibers \subseteq Nat /\ 1 \in Fibers
  /\ Fibers # {1} => Switch \in Funcs
  /\ ProfileMode \in BOOLEAN
  /\ {MaxDepth, MaxCalls, MaxTime} \subseteq Nat
  /\ MaxSessions \in Nat \ {0}

VARIABLES
  request, now,
  calls,        \* fiber -> its live calls, the innermost last
  fiber,        \* the running one
  handlers,     \* function -> "unset", "none" or "both": cached by the engine
  prof_active,
  prof_stack,   \* fxd_prof_stack[0 .. depth - 1]
  prof_funcs,   \* function -> fxd_prof_func
  total_time,
  \* History of the request:
  sessions,     \* sessions started
  begun,        \* calls begun
  made,         \* the pairs <<caller, callee>> of calls
  root_time,    \* function -> inclusive time of the calls that had no parent
  switched      \* a fiber has been switched to

engineVars == <<request, now, calls, fiber, handlers>>
profVars == <<prof_active, prof_stack, prof_funcs, total_time>>
callHistory == <<begun, made>>
vars == <<engineVars, profVars, sessions, callHistory, root_time, switched>>

\* A live call: `observed' by the engine, begun in profiling session `session'
\* (0: the profiler was off); `ran': an API function has done its work.
Calls == [fn : Funcs, observed : BOOLEAN, session : Nat, ran : BOOLEAN]
ProfFrames == [key : Funcs, t_start : Nat, children_time : Nat]
Edges == [count : Nat, time : Nat]

\* A function without a record, and one without an edge, have zeros.
NoEdge == [count |-> 0, time |-> 0]
NoRecord == [self_time |-> 0, called |-> 0, edges |-> [g \in Funcs |-> NoEdge]]

TypeOK ==
  /\ {request, prof_active, switched} \subseteq BOOLEAN
  /\ now \in 0 .. MaxTime
  /\ calls \in [Fibers -> Seq(Calls)]
  /\ fiber \in Fibers
  /\ handlers \in [Funcs -> {"unset", "none", "both"}]
  /\ prof_stack \in Seq(ProfFrames)
  /\ prof_funcs \in [Funcs -> [self_time : Nat, called : Nat, edges : [Funcs -> Edges]]]
  /\ total_time \in Nat
  /\ sessions \in 0 .. MaxSessions /\ begun \in 0 .. MaxCalls
  /\ made \subseteq Funcs \X Funcs
  /\ root_time \in [Funcs -> Nat]

Init ==
  /\ request = FALSE /\ now = 0
  /\ calls = [i \in Fibers |-> <<>>] /\ fiber = 1
  /\ handlers = [f \in Funcs |-> "unset"]
  /\ prof_active = FALSE /\ prof_stack = <<>>
  /\ prof_funcs = [f \in Funcs |-> NoRecord]
  /\ total_time = 0 /\ sessions = 0 /\ begun = 0 /\ made = {}
  /\ root_time = [f \in Funcs |-> 0] /\ switched = FALSE

-----------------------------------------------------------------------------
\* The observer hooks.

Depth == Len(prof_stack)
Current == calls[fiber]

\* fxd_prof_begin.
Begin(f) ==
  IF prof_active
  THEN prof_stack' = Append(prof_stack, [key |-> f, t_start |-> now, children_time |-> 0])
  ELSE UNCHANGED prof_stack

\* Slips: the start is not subtracted; the callees are not.
InclusiveFromZero == now
SelfWithCallees == now - prof_stack[Depth].t_start

\* The cost of the frame an end hook pops.
Inclusive == now - prof_stack[Depth].t_start
Self == Inclusive - prof_stack[Depth].children_time

\* Slips: the outermost frame is never popped; it is charged for every call.
PopsAboveRoot == prof_active /\ Depth > 1
RootFrame == prof_stack[1]

Pops == prof_active /\ Depth > 0
Parent == prof_stack[Depth - 1]

\* fxd_prof_end: the top frame is popped, whichever call has ended.  Its cost
\* goes to its function, and as a call's to the frame under it.
End ==
  IF ~Pops THEN UNCHANGED <<prof_stack, prof_funcs, total_time, root_time>>
  ELSE LET key == prof_stack[Depth].key
           own == [prof_funcs EXCEPT ![key].self_time = @ + Self, ![key].called = @ + 1]
       IN  /\ total_time' = total_time + Self
           /\ IF Depth > 1
              THEN /\ prof_stack' = [Front(prof_stack) EXCEPT
                                       ![Depth - 1].children_time = @ + Inclusive]
                   /\ prof_funcs' = [own EXCEPT ![Parent.key].edges[key] =
                                       [count |-> @.count + 1, time |-> @.time + Inclusive]]
                   /\ UNCHANGED root_time
              ELSE /\ prof_stack' = <<>>
                   /\ prof_funcs' = own
                   /\ root_time' = [root_time EXCEPT ![key] = @ + Inclusive]

\* observer_init: asked at the first call of f in the request, while the
\* profiler may be off, and never again.
ObserverInit(f) ==
  IF handlers[f] # "unset" THEN handlers[f]
  ELSE IF prof_active THEN "both" ELSE "none"

NewCall(f, seen) ==
  [fn |-> f, observed |-> seen = "both", ran |-> FALSE,
   session |-> IF prof_active THEN sessions ELSE 0]

\* The function a call is made from, if any: a fiber's first one is called
\* from the switch that started the fiber.
Callers ==
  IF Current # <<>> THEN {Last(Current).fn} ELSE IF fiber # 1 THEN {Switch} ELSE {}

\* f is called: {main} first and once, then what user code or the engine calls.
Call(f) ==
  /\ request /\ Len(Current) < MaxDepth /\ begun < MaxCalls
  /\ f = Main <=> handlers[Main] = "unset"
  /\ Current # <<>> => Last(Current).fn \notin {StartTrace, StopTrace, Switch}
  /\ made' = made \cup (Callers \X {f})
  /\ LET seen == ObserverInit(f)
     IN  /\ handlers' = [handlers EXCEPT ![f] = seen]
         /\ calls' = [calls EXCEPT ![fiber] = Append(@, NewCall(f, seen))]
         /\ IF seen = "both" THEN Begin(f) ELSE UNCHANGED prof_stack
  /\ begun' = begun + 1
  /\ UNCHANGED <<request, now, fiber, prof_active, prof_funcs, total_time, sessions,
                 root_time, switched>>

\* The innermost call returns, or is unwound.
Return ==
  /\ Current # <<>>
  /\ calls' = [calls EXCEPT ![fiber] = Front(@)]
  /\ IF Last(Current).observed THEN End
     ELSE UNCHANGED <<prof_stack, prof_funcs, total_time, root_time>>
  /\ UNCHANGED <<request, now, fiber, handlers, prof_active, sessions, callHistory, switched>>

Tick ==
  /\ request /\ now < MaxTime
  /\ now' = now + 1
  /\ UNCHANGED <<request, calls, fiber, handlers, profVars, sessions, callHistory,
                 root_time, switched>>

-----------------------------------------------------------------------------
\* The userland API and the request hooks.

\* The innermost call is of API function f, which now does its work.
Runs(f) ==
  /\ Current # <<>> /\ Last(Current).fn = f /\ ~Last(Current).ran
  /\ calls' = [calls EXCEPT ![fiber][Len(Current)].ran = TRUE]

\* Slip: the depth is not reset.
StartKeepsFrames ==
  total_time' = 0 /\ prof_active' = TRUE /\ UNCHANGED <<prof_stack, prof_funcs>>

\* fxd_profiler_start: the records of an earlier session stay.
Start ==
  prof_stack' = <<>> /\ total_time' = 0 /\ prof_active' = TRUE /\ UNCHANGED prof_funcs

XdebugStartTrace ==
  /\ Runs(StartTrace) /\ Start
  /\ sessions < MaxSessions /\ sessions' = sessions + 1
  /\ UNCHANGED <<request, now, fiber, handlers, callHistory, root_time, switched>>

\* fxd_profiler_stop: the frames still open stay, and are left out of the file.
XdebugStopTrace ==
  /\ Runs(StopTrace)
  /\ prof_active' = FALSE
  /\ UNCHANGED <<request, now, fiber, handlers, prof_stack, prof_funcs, total_time,
                 sessions, callHistory, root_time, switched>>

\* Fiber::resume and Fiber::suspend.  A fiber that has returned switches too.
SwitchFiber ==
  /\ request
  /\ Runs(Switch) \/ (Current = <<>> /\ UNCHANGED calls)
  /\ \E other \in Fibers \ {fiber} :
       /\ Current = <<>> => calls[other] # <<>>
       /\ fiber' = other
  /\ switched' = TRUE
  /\ UNCHANGED <<request, now, handlers, profVars, sessions, callHistory, root_time>>

\* RINIT; the engine calls {main} next, and forgets whom it observed.
RInit ==
  /\ ~request /\ request' = TRUE
  /\ IF ProfileMode THEN Start /\ sessions' = 1
     ELSE /\ prof_active' = FALSE /\ prof_stack' = <<>> /\ sessions' = 0
          /\ UNCHANGED <<prof_funcs, total_time>>
  /\ handlers' = [f \in Funcs |-> "unset"]
  /\ UNCHANGED <<now, calls, fiber, callHistory, root_time, switched>>

\* RSHUTDOWN: a session still on is stopped, the records are freed.
RShutdown ==
  /\ request /\ \A i \in Fibers : calls[i] = <<>>
  /\ request' = FALSE /\ fiber' = 1
  /\ prof_active' = FALSE
  /\ prof_stack' = <<>>      \* freed: RINIT zeroes the depth before it is used
  /\ prof_funcs' = [f \in Funcs |-> NoRecord]
  /\ now' = 0 /\ begun' = 0 /\ made' = {} /\ sessions' = 0
  /\ root_time' = [f \in Funcs |-> 0] /\ switched' = FALSE
  /\ UNCHANGED <<calls, handlers, total_time>>

Next ==
  \/ \E f \in Funcs : Call(f)
  \/ Return \/ Tick
  \/ XdebugStartTrace \/ XdebugStopTrace \/ SwitchFiber
  \/ RInit \/ RShutdown

Spec == Init /\ [][Next]_vars

-----------------------------------------------------------------------------
\* Properties.

\* The calls of fiber i that began while the present session was recording.
InSession(i) == {p \in DOMAIN calls[i] : calls[i][p].session = sessions}
Observed(i) == {p \in InSession(i) : calls[i][p].observed}

\* The frames are, one for one and in order, those of the calls cs[p], p \in P.
Tracks(frames, cs, P) ==
  \E call \in [1 .. Len(frames) -> P] :
    /\ \A k \in 1 .. Len(frames) : frames[k].key = cs[call[k]].fn
    /\ \A j, k \in 1 .. Len(frames) : j < k => call[j] < call[k]
    /\ \A p \in P : \E k \in 1 .. Len(frames) : call[k] = p

\* The session that xdebug.mode=profile starts, all of it in the main fiber.
Plain == ProfileMode /\ sessions <= 1 /\ ~switched

(* profiler.c: "On each call we push a frame": while the profiler records,   *)
(* its stack is the stack of the calls begun since it started.               *)
EveryCallHasFrame ==
  request /\ prof_active => Tracks(prof_stack, calls[fiber], InSession(fiber))

(* That is so in the session that starts with the request, although the end  *)
(* hook pops without looking which call ended.                               *)
FramesAreLiveCalls == Plain => EveryCallHasFrame

(* In every session it is so of the calls the engine observes: a restart in  *)
(* the middle of a deep stack, and the ends of calls the new session never   *)
(* saw begin, leave no frame and steal none.                                 *)
FramesAreObservedCalls ==
  request /\ prof_active /\ ~switched =>
    Tracks(prof_stack, calls[fiber], Observed(fiber))

(* Whatever is on the stack, across fibers and restarts: what the callees of *)
(* an open frame cost never exceeds the time it has been open less the time  *)
(* of the frame above it, so the unsigned subtractions of fxd_prof_end never *)
(* wrap.                                                                     *)
SelfTimesFit ==
  prof_active => \A k \in 1 .. Depth :
    LET fr == prof_stack[k]
        until == IF k = Depth THEN now ELSE prof_stack[k + 1].t_start
    IN  fr.t_start + fr.children_time <= until

(* profiler.c: the cost is folded into "a per (caller->callee) edge": every  *)
(* recorded edge is a call that was made.                                    *)
NoFalseEdge ==
  \A g, f \in Funcs : prof_funcs[g].edges[f].count > 0 => <<g, f>> \in made

(* Without fibers, in the session that starts with the request, no cost goes *)
(* to a function that did not make the call, also after a stop.              *)
EdgesAreCalls == Plain => NoFalseEdge

TimeInto(f) == root_time[f] + SumFunction([g \in Funcs |-> prof_funcs[g].edges[f].time])
TimeOutOf(f) == SumFunction([g \in Funcs |-> prof_funcs[f].edges[g].time])
TimeOfOpen(f) ==
  SumFunction([k \in 1 .. Depth |->
                 IF prof_stack[k].key = f THEN prof_stack[k].children_time ELSE 0])

(* What a Cachegrind viewer computes, in a request with one session: the     *)
(* inclusive cost that reaches a function is its self cost and what its      *)
(* calls cost, but for the frames still open.  Recursion counts nothing      *)
(* twice, and fibers lose nothing.                                           *)
FlowConserved ==
  sessions <= 1 =>
    \A f \in Funcs : TimeInto(f) + TimeOfOpen(f) = prof_funcs[f].self_time + TimeOutOf(f)
=============================================================================
