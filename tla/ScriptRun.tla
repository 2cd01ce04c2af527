------------------------------- MODULE ScriptRun -------------------------------
(***************************************************************************)
(* A workflow script and the scripts it nests: _run_workflow_async of      *)
(* engine/runtime.py, parallel(), map(), pipeline() and workflow() of      *)
(* engine/api.py, and the stop, the pause gate and the deadline that       *)
(* check_runtime() of engine/context.py looks at.                          *)
(*                                                                         *)
(* A frame's script runs on an event loop of its own thread, an agent()    *)
(* call and a nested script on threads that the loop waits for.  Inside of *)
(* an agent() call only its admission counts here (AgentExecution has the  *)
(* rest).  Scripts are arbitrary: between two awaits one may return, raise *)
(* or loop too often; it may catch what is not a halt, and, which the      *)
(* sandbox does not forbid, return from a finally clause while a halt      *)
(* passes through it.  map() is parallel() over a list.  That asyncio.run()*)
(* cancels what is left on its loop, and waits for its threads - from      *)
(* Python 3.12 on for 300 seconds, and then leaves them - is Python's.     *)
(***************************************************************************)
EXTENDS Naturals, FiniteSets

CONSTANTS Root,      \* the frame of the run
          Nested,    \* frames of nested workflows
          Items,     \* items of each frame's calls
          Stages,    \* stages of a pipeline
          MaxAgents, \* config.max_agents
          Budget,    \* token_budget_total; every child spends one
          Limit,     \* config.workflow_timeout_seconds
          Forms,     \* bounds: the forms of calls each script awaits,
          MaxCalls,  \*   how many it awaits,
          MaxPauses, \*   pauses,
          MaxClock   \*   and the time

Frames == Nested \cup {Root}

ASSUME FramesAssumption == Root \notin Nested
ASSUME ItemsAssumption == DOMAIN Items = Frames /\ \A f \in Frames : 0 \notin Items[f]
CallForms == {"await", "parallel", "pipeline"}

ASSUME FormsAssumption == Forms \in [Frames -> SUBSET CallForms]
ASSUME BoundsAssumption ==
  {Stages, MaxAgents, Budget, Limit, MaxCalls, MaxPauses, MaxClock} \subseteq Nat
\* "pipeline() expects one or more callable stages" (api.py:642-643).
ASSUME StagesAssumption == Stages > 0

VARIABLES
  stop,      \* stop_event
  gate,      \* the pause gate: paused, since when, and for how long before
  clock,     \* monotonic(), from the run's start
  worked,    \* history: the time that was not paused
  pauses,    \* pauses so far
  at,        \* where each frame is
  status,    \* .status of each frame
  raised,    \* what its script raised
  call,      \* what it awaits: "await" of one item, "parallel", "pipeline"
  calls,     \* its calls so far
  turn,      \* the item its loop is starting, or 0
  task,      \* the state of each item
  stage,     \* the pipeline stage of each item
  caller,    \* the item of the root that waits for each nested frame
  check,     \* check_runtime() of each thread: its loop is thread 0
  admitted,  \* _agent_count
  spent,     \* _spent_tokens
  left,      \* history: frames of which a finally clause swallowed a halt
  halted,    \* history: halts raised, and the frame each was raised in
  expired    \* history: the times worked when a deadline was found exceeded

clockVars == <<gate, clock, worked, pauses>>
frameVars == <<at, status, raised, call, calls>>
taskVars  == <<turn, task, stage, caller>>
agentVars == <<admitted, spent>>
historyVars == <<left, halted, expired>>
vars == <<stop, clockVars, frameVars, taskVars, check, agentVars, historyVars>>

NoCheck == [step |-> "none", now |-> 0]
Threads(f) == {0} \cup Items[f]

Init ==
  /\ stop = FALSE
  /\ gate = [paused |-> FALSE, since |-> 0, before |-> 0]
  /\ clock = 0 /\ worked = 0 /\ pauses = 0
  /\ at = [f \in Frames |-> IF f = Root THEN "entering" ELSE "none"]
  /\ status = [f \in Frames |-> IF f = Root THEN "running" ELSE "none"]
  /\ raised = [f \in Frames |-> "nothing"]
  /\ call = [f \in Frames |-> "none"] /\ calls = [f \in Frames |-> 0]
  /\ turn = [f \in Frames |-> 0]
  /\ task = [f \in Frames |-> [i \in Items[f] |-> "idle"]]
  /\ stage = [f \in Frames |-> [i \in Items[f] |-> 1]]
  /\ caller = [n \in Nested |-> 0]
  /\ check = [f \in Frames |-> [i \in Threads(f) |-> NoCheck]]
  /\ admitted = 0 /\ spent = 0
  /\ left = {} /\ halted = {} /\ expired = {}

-----------------------------------------------------------------------------
(* Time and the pause gate.  A stop opens the gate, too. *)

(* A faulty form: the pause that lasts is not counted. *)
PausedBefore == gate.before

PausedSeconds == gate.before + (IF gate.paused THEN clock - gate.since ELSE 0)
Opened == [paused |-> FALSE, since |-> 0, before |-> PausedSeconds]

Tick ==
  /\ clock < MaxClock /\ clock' = clock + 1
  /\ worked' = IF gate.paused THEN worked ELSE worked + 1
  /\ UNCHANGED <<stop, gate, pauses, frameVars, taskVars, check, agentVars, historyVars>>

Pause ==
  /\ ~gate.paused /\ pauses < MaxPauses /\ pauses' = pauses + 1
  /\ gate' = [gate EXCEPT !.paused = TRUE, !.since = clock]
  /\ UNCHANGED <<stop, clock, worked, frameVars, taskVars, check, agentVars, historyVars>>

Resume ==
  /\ gate.paused /\ gate' = Opened
  /\ UNCHANGED <<stop, clock, worked, pauses, frameVars, taskVars, check, agentVars, historyVars>>

Stop ==
  /\ ~stop /\ stop' = TRUE
  /\ gate' = Opened
  /\ UNCHANGED <<clock, worked, pauses, frameVars, taskVars, check, agentVars, historyVars>>

-----------------------------------------------------------------------------
(* check_runtime(): the stop, the gate, the stop again; then the time, and  *)
(* after it the paused time.                                                *)

Waiting(f) == at[f] = "awaiting" /\ turn[f] = 0
Checks(f, i) == IF i = 0 THEN at[f] \in {"entering", "calling", "collecting", "returning"}
                ELSE task[f][i] = "admitting"

PassGate(f, i) ==
  /\ Checks(f, i) /\ check[f][i].step = "none"
  /\ ~stop /\ ~gate.paused
  /\ check' = [check EXCEPT ![f][i].step = "passed"]
  /\ UNCHANGED <<stop, clockVars, frameVars, taskVars, agentVars, historyVars>>

ReadClock(f, i) ==
  /\ check[f][i].step = "passed"
  /\ check' = [check EXCEPT ![f][i] = [step |-> "read", now |-> clock]]
  /\ UNCHANGED <<stop, clockVars, frameVars, taskVars, agentVars, historyVars>>

Overdue(f, i) == check[f][i].step = "read" /\ check[f][i].now > Limit + PausedSeconds
StopFound(f, i) == Checks(f, i) /\ check[f][i].step = "none" /\ stop

(* A check is over: the thread goes on, or has a halt to raise. *)
EndCheck(f, i) == check' = [check EXCEPT ![f][i] = NoCheck]
CheckPasses(f, i) == check[f][i].step = "read" /\ ~Overdue(f, i) /\ EndCheck(f, i)
CheckHalts(f, i) ==
  /\ StopFound(f, i) \/ Overdue(f, i)
  /\ EndCheck(f, i)
  /\ expired' = IF Overdue(f, i) THEN expired \cup {worked} ELSE expired

-----------------------------------------------------------------------------
(* The script of a frame. *)

Goto(f, place) == at' = [at EXCEPT ![f] = place]

\* A user's stop; the deadline or another limit.
Halts == {"stop", "limit"}
Halt == IF stop THEN "stop" ELSE "limit"
Halted(f, what) == IF what \in Halts THEN halted \cup {[frame |-> f, what |-> what]} ELSE halted

Raise(f, what) ==
  /\ Goto(f, "failing")
  /\ raised' = [raised EXCEPT ![f] = what]
  /\ halted' = Halted(f, what)
  /\ UNCHANGED left

(* A finally clause of the script returns. *)
Leave(f, what) ==
  /\ what \in Halts
  /\ Goto(f, "returning")
  /\ left' = left \cup {f} /\ halted' = Halted(f, what)
  /\ UNCHANGED raised

KeepScript == UNCHANGED <<stop, clockVars, agentVars>>

(* The check of _run_workflow_async before the script starts. *)
Enter(f) ==
  /\ at[f] = "entering" /\ CheckPasses(f, 0) /\ Goto(f, "script")
  /\ UNCHANGED <<status, raised, call, calls, taskVars, historyVars>> /\ KeepScript

LoopHalts(f) ==
  /\ turn[f] = 0 /\ CheckHalts(f, 0)
  /\ \/ Raise(f, Halt)
     \/ at[f] \in {"calling", "collecting"} /\ Leave(f, Halt)
  /\ UNCHANGED <<status, call, calls, taskVars>> /\ KeepScript

(* The script awaits one agent() or workflow(), parallel() or pipeline(). *)
Call(f, how) ==
  /\ at[f] = "script" /\ calls[f] < MaxCalls
  /\ calls' = [calls EXCEPT ![f] = @ + 1]
  /\ call' = [call EXCEPT ![f] = how]
  /\ Goto(f, IF how = "await" THEN "awaiting" ELSE "calling")
  /\ \E one \in Items[f] : task' = [task EXCEPT ![f] =
       [i \in Items[f] |-> IF how = "await" /\ i = one THEN "started" ELSE "idle"]]
  /\ stage' = [stage EXCEPT ![f] = [i \in Items[f] |-> 1]]
  /\ UNCHANGED <<status, raised, turn, caller, check, historyVars>> /\ KeepScript

(* The check at the start of parallel() and pipeline(), then gather(). *)
Gather(f) ==
  /\ at[f] = "calling" /\ CheckPasses(f, 0) /\ Goto(f, "awaiting")
  /\ task' = [task EXCEPT ![f] = [i \in Items[f] |-> "ready"]]
  /\ UNCHANGED <<status, raised, call, calls, turn, stage, caller, historyVars>> /\ KeepScript

Awaited(f) == {i \in Items[f] : task[f][i] # "idle"}
Settled == {"value", "failed"}

(* A faulty form: the first item to settle ends the call. *)
SomeSettled(f) == \E i \in Awaited(f) : task[f][i] \in Settled

AllSettled(f) == \A i \in Awaited(f) : task[f][i] \in Settled
(* The results are there.  parallel() checks once more.  What one call      *)
(* raised the script may catch.                                             *)
Collect(f) ==
  /\ Waiting(f) /\ AllSettled(f)
  /\ Goto(f, IF call[f] = "parallel" THEN "collecting" ELSE "script")
  /\ UNCHANGED <<status, raised, call, calls, taskVars, check, historyVars>> /\ KeepScript

Collected(f) ==
  /\ at[f] = "collecting" /\ CheckPasses(f, 0) /\ Goto(f, "script")
  /\ UNCHANGED <<status, raised, call, calls, taskVars, historyVars>> /\ KeepScript

AwaitRaises(f) ==
  /\ Waiting(f)
  /\ \E i \in Awaited(f) :
       \/ call[f] = "await" /\ task[f][i] = "failed" /\ Raise(f, "error")
       \/ task[f][i] \in Halts /\ (Raise(f, task[f][i]) \/ Leave(f, task[f][i]))
  /\ UNCHANGED <<status, call, calls, taskVars, check, expired>> /\ KeepScript

(* It returns, raises, or tick_loop() ends a loop in it. *)
ScriptEnds(f) ==
  /\ at[f] = "script"
  /\ \/ Goto(f, "returning") /\ UNCHANGED <<raised, left, halted>>
     \/ \E what \in {"error", "limit"} : Raise(f, what)
     \/ Leave(f, "limit")
  /\ UNCHANGED <<status, call, calls, taskVars, check, expired>> /\ KeepScript

(* The frame gets its status; asyncio.run() cancels the items left on its   *)
(* loop.                                                                    *)
Unstarted == {"ready", "started"}
End(f, how) ==
  /\ Goto(f, "joining")
  /\ status' = [status EXCEPT ![f] = how]
  /\ task' = [task EXCEPT ![f] = [i \in Items[f] |-> IF @[i] \in Unstarted THEN "cancelled" ELSE @[i]]]
  /\ UNCHANGED <<raised, call, calls, turn, stage, caller, historyVars>> /\ KeepScript

Complete(f) == at[f] = "returning" /\ CheckPasses(f, 0) /\ End(f, "completed")

Fail(f) ==
  /\ at[f] = "failing" /\ End(f, IF stop THEN "stopped" ELSE "error")
  /\ UNCHANGED check

-----------------------------------------------------------------------------
(* Items. *)

(* A faulty form: a halt in an item becomes None. *)
CaughtAlways(what) == "failed"

(* What an item of parallel() or pipeline() raises becomes None, but not a  *)
(* halt; a pipeline goes on with its next stage.  An item that no one waits *)
(* for any more is cancelled.                                               *)
Caught(what) == IF what \in Halts THEN what ELSE "failed"

After(f, i, outcome) ==
  IF at[f] # "awaiting" THEN "cancelled"
  ELSE IF outcome # "value" THEN Caught(outcome)
  ELSE IF call[f] = "pipeline" /\ stage[f][i] < Stages THEN "ready" ELSE "value"

Settle(f, i, outcome) ==
  /\ task' = [task EXCEPT ![f][i] = After(f, i, outcome)]
  /\ stage' = IF After(f, i, outcome) = "ready" THEN [stage EXCEPT ![f][i] = @ + 1] ELSE stage
  /\ halted' = IF at[f] = "awaiting" THEN Halted(f, outcome) ELSE halted
  /\ UNCHANGED left

(* The same of an item's own code, which has finally clauses, too. *)
SettleItem(f, i, outcome) ==
  \/ Settle(f, i, outcome)
  \/ /\ outcome \in Halts /\ call[f] # "await" /\ at[f] = "awaiting"
     /\ task' = [task EXCEPT ![f][i] = After(f, i, "value")]
     /\ stage' = IF After(f, i, "value") = "ready" THEN [stage EXCEPT ![f][i] = @ + 1] ELSE stage
     /\ left' = left \cup {f} /\ halted' = Halted(f, outcome)

(* The loop takes an item: _run_parallel_thunk and run_one check first.  At *)
(* a closed gate the whole loop waits, here before it takes the item.       *)
TakeTurn(f, i) ==
  /\ Waiting(f) /\ task[f][i] = "ready"
  /\ ~stop /\ ~gate.paused
  /\ turn' = [turn EXCEPT ![f] = i]
  /\ check' = [check EXCEPT ![f][0].step = "passed"]
  /\ UNCHANGED <<frameVars, task, stage, caller, historyVars>> /\ KeepScript

StartItem(f, i) ==
  /\ turn[f] = i /\ CheckPasses(f, 0)
  /\ turn' = [turn EXCEPT ![f] = 0]
  /\ task' = [task EXCEPT ![f][i] = "started"]
  /\ UNCHANGED <<frameVars, stage, caller, historyVars>> /\ KeepScript

ItemHalts(f, i) ==
  /\ \/ turn[f] = i /\ CheckHalts(f, 0)
     \/ Waiting(f) /\ task[f][i] = "ready" /\ stop /\ UNCHANGED <<check, expired>>
  /\ turn' = [turn EXCEPT ![f] = 0]
  /\ Settle(f, i, Halt)
  /\ UNCHANGED <<frameVars, caller>> /\ KeepScript

Started(f, i) == at[f] = "awaiting" /\ task[f][i] = "started"

(* It needs no await, raises, or loops too often. *)
Compute(f, i) ==
  /\ Started(f, i)
  /\ \E outcome \in {"value", "error", "limit"} : SettleItem(f, i, outcome)
  /\ UNCHANGED <<frameVars, turn, caller, check, expired>> /\ KeepScript

(* agent(), on a thread: reserve_agent(), the child, its tokens. *)
CallAgent(f, i) ==
  /\ Started(f, i)
  /\ task' = [task EXCEPT ![f][i] = "admitting"]
  /\ UNCHANGED <<frameVars, turn, stage, caller, check, historyVars>> /\ KeepScript

AdmissionHalts(f, i) ==
  /\ task[f][i] = "admitting" /\ CheckHalts(f, i)
  /\ SettleItem(f, i, Halt)
  /\ UNCHANGED <<frameVars, turn, caller>> /\ KeepScript

(* A faulty form: the limits are passed by one. *)
OverLimit == admitted > MaxAgents \/ spent > Budget

AtLimit == admitted >= MaxAgents \/ spent >= Budget

Admit(f, i) ==
  /\ task[f][i] = "admitting" /\ CheckPasses(f, i)
  /\ IF AtLimit THEN SettleItem(f, i, "limit") /\ UNCHANGED admitted
     ELSE /\ task' = [task EXCEPT ![f][i] = "running"]
          /\ admitted' = admitted + 1
          /\ UNCHANGED <<stage, left, halted>>
  /\ UNCHANGED <<stop, clockVars, frameVars, turn, caller, spent, expired>>

AgentEnds(f, i) ==
  /\ task[f][i] = "running"
  /\ \/ spent' = spent + 1 /\ Settle(f, i, "value")
     \/ Settle(f, i, "error") /\ spent' \in {spent, spent + 1}
     \/ (stop \/ worked > Limit) /\ SettleItem(f, i, Halt) /\ UNCHANGED spent
  /\ UNCHANGED <<stop, clockVars, frameVars, turn, caller, check, admitted, expired>>

(* workflow(), on a thread: create_child_frame(), and a loop of its own. A  *)
(* check comes first; a nested script nests no other.                       *)
CallWorkflow(i, n) ==
  /\ Started(Root, i) /\ at[n] = "none"
  /\ task' = [task EXCEPT ![Root][i] = "nesting"]
  /\ caller' = [caller EXCEPT ![n] = i]
  /\ at' = [at EXCEPT ![n] = "entering"]
  /\ status' = [status EXCEPT ![n] = "running"]
  /\ UNCHANGED <<raised, call, calls, turn, stage, check, historyVars>> /\ KeepScript

NestTooDeep(n, i) ==
  /\ n # Root /\ Started(n, i)
  /\ Settle(n, i, "error")
  /\ UNCHANGED <<frameVars, turn, caller, check, expired>> /\ KeepScript

-----------------------------------------------------------------------------
(* The end of asyncio.run(): the threads of the frame's loop have ended, or *)
(* the wait for them is given up, and they go on by themselves.             *)

OnThread == {"admitting", "running", "nesting"}
Left(f) == {i \in Items[f] : task[f][i] \in OnThread}

RunEnds ==
  /\ at[Root] = "joining" /\ Goto(Root, "over")
  /\ UNCHANGED <<status, raised, call, calls, taskVars, check, historyVars>> /\ KeepScript

(* What a nested script returned or raised its workflow() does. *)
NestedEnds(n) ==
  /\ at[n] = "joining" /\ Goto(n, "over")
  /\ SettleItem(Root, caller[n], IF status[n] = "completed" THEN "value" ELSE raised[n])
  /\ UNCHANGED <<status, raised, call, calls, turn, caller, check, expired>> /\ KeepScript

-----------------------------------------------------------------------------
ClockStep == Tick \/ Pause \/ Resume \/ Stop
ScriptStep(f) ==
  \/ Enter(f) \/ LoopHalts(f) \/ Gather(f) \/ Collect(f) \/ Collected(f) \/ AwaitRaises(f)
  \/ ScriptEnds(f) \/ Complete(f) \/ Fail(f)
  \/ \E how \in Forms[f] : Call(f, how)
ItemStep(f, i) ==
  \/ TakeTurn(f, i) \/ StartItem(f, i) \/ ItemHalts(f, i) \/ Compute(f, i)
  \/ CallAgent(f, i) \/ AdmissionHalts(f, i) \/ Admit(f, i) \/ AgentEnds(f, i)
  \/ NestTooDeep(f, i)
CheckStep(f) == \E i \in Threads(f) : PassGate(f, i) \/ ReadClock(f, i)

Next ==
  \/ ClockStep \/ RunEnds
  \/ \E f \in Frames : ScriptStep(f) \/ CheckStep(f)
  \/ \E f \in Frames : \E i \in Items[f] : ItemStep(f, i)
  \/ \E n \in Nested : NestedEnds(n) \/ \E i \in Items[Root] : CallWorkflow(i, n)

Spec == Init /\ [][Next]_vars

-----------------------------------------------------------------------------
(* Properties. *)

Places == {"none", "entering", "script", "calling", "awaiting", "collecting", "returning",
           "failing", "joining", "over"}
TaskStates == {"idle", "ready", "started", "admitting", "running", "nesting", "value", "failed",
               "stop", "limit", "cancelled"}

(* The variables hold what the frames and their threads can hold: a frame   *)
(* has its final status exactly when its script is over, an item is on the  *)
(* loop only while something waits for it, and admissions keep to the cap.  *)
TypeOK ==
  /\ stop \in BOOLEAN
  /\ gate \in [paused : BOOLEAN, since : 0 .. MaxClock, before : 0 .. MaxClock]
  /\ clock \in 0 .. MaxClock /\ worked \in 0 .. MaxClock /\ pauses \in 0 .. MaxPauses
  /\ worked + PausedSeconds = clock
  /\ at \in [Frames -> Places]
  /\ status \in [Frames -> {"none", "running", "completed", "stopped", "error"}]
  /\ \A f \in Frames : status[f] \in {"completed", "stopped", "error"} <=> at[f] \in {"joining", "over"}
  /\ raised \in [Frames -> {"nothing", "error"} \cup Halts]
  /\ call \in [Frames -> CallForms \cup {"none"}]
  /\ calls \in [Frames -> 0 .. MaxCalls]
  /\ \A f \in Frames : turn[f] # 0 => turn[f] \in Items[f] /\ at[f] = "awaiting"
  /\ \A f \in Frames : \A i \in Items[f] :
       /\ task[f][i] \in TaskStates /\ stage[f][i] \in 1 .. Stages
       /\ task[f][i] \in Unstarted => at[f] \in {"awaiting", "returning", "failing"}
  /\ caller \in [Nested -> {0} \cup Items[Root]]
  /\ admitted \in 0 .. MaxAgents /\ spent \in 0 .. admitted
  /\ left \subseteq Frames /\ halted \subseteq [frame : Frames, what : Halts] /\ expired \subseteq 0 .. MaxClock

(* A halt that any thread of a run meets ends the script it met it in and   *)
(* the run: neither the None of a failed item, nor a script's except, nor   *)
(* the thread or the frame in between swallows it.  A finally clause that   *)
(* returns may swallow a limit; a stop, which lasts, it cannot, because the *)
(* script's return is checked again (api.py:623-662, 703-717;               *)
(* runtime.py:171-188; sandbox.py:313-332).                                 *)
HaltEndsTheRun ==
  /\ \A h \in halted : h.what = "stop" \/ h.frame \notin left => status[h.frame] # "completed"
  /\ halted # {} /\ left = {} => status[Root] # "completed"

(* A script completes after every item and nested script it awaited.  A run *)
(* that completes leaves no agent() call and no nested script behind, not   *)
(* even one of a nested script that did not complete, although the wait for *)
(* threads may be given up: a thread that is not awaited has a halt before  *)
(* it, which ends the run, unless a finally clause swallowed it (api.py:    *)
(* 576, 662, 681, 703-717; runtime.py:101-102; manager.py:554-602).         *)
PartsEndFirst ==
  /\ \A f \in Frames : status[f] = "completed" /\ f \notin left =>
       \A i \in Awaited(f) : task[f][i] \in Settled \cup {"idle"}
  /\ status[Root] = "completed" /\ left = {} =>
       (\A f \in Frames : Left(f) = {}) /\ \A n \in Nested : at[n] \in {"none", "over"}

(* Paused time does not count: a deadline is found exceeded only when the   *)
(* run worked longer than its limit, although the pause may begin or end    *)
(* between the gate, the reading of the time and that of the paused time    *)
(* (context.py:36-40, 169-178).                                             *)
DeadlineCountsWork == \A time \in expired : time > Limit
=============================================================================
