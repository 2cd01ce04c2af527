--------------------------- MODULE AgentExecution ---------------------------
(***************************************************************************)
(* The agent() calls of one workflow run: engine/context.py (admission,    *)
(* budget, concurrency slots, pause gate, stop, deadline), _agent_sync in  *)
(* engine/api.py, and the part of child/runner.py that registers, times    *)
(* out, interrupts and skips children.                                     *)
(*                                                                         *)
(* Every call is a thread (asyncio.to_thread); its child runs in a thread  *)
(* of its own; a control thread pauses, resumes, stops and skips.  One     *)
(* action is one region of code between two points where another thread    *)
(* can be observed: a lock, the semaphore, the gate, a future.             *)
(* interrupt() is a request that binds a child to nothing: a child exits   *)
(* when it likes, and who was asked to (by a timeout, a skip, or           *)
(* interrupt_all() after a stop) is not state.                             *)
(***************************************************************************)
EXTENDS Naturals, FiniteSets

CONSTANTS Calls,         \* the agent() calls the script makes
          Frames,        \* workflow frames: the root script and nested workflow() calls
          FrameOf,       \* the frame each call is made in
          Fingerprints,  \* agent_fingerprint values
          FpOf,          \* the fingerprint of each call
          Slots,         \* max(1, min(concurrency, max_concurrency))
          MaxAgents,     \* config.max_agents
          Budget,        \* token_budget_total
          MaxTokens,     \* bound on the tokens one child reports
          MaxCached,     \* bound on the results the resumed run kept of a fingerprint
          MaxSkips,      \* bound on the skip requests of one child under way at a time
          NoOne          \* the owner of a free lock

ASSUME CallsAssumption == /\ IsFiniteSet(Calls)
                          /\ NoOne \notin Calls
                          /\ FrameOf \in [Calls -> Frames]
                          /\ FpOf \in [Calls -> Fingerprints]
ASSUME LimitsAssumption == /\ Slots \in Nat \ {0}
                           /\ MaxAgents \in Nat
                           /\ Budget \in Nat
                           /\ MaxTokens \in Nat
                           /\ MaxCached \in Nat
                           /\ MaxSkips \in Nat

VARIABLES
  pc,           \* where each call's thread is
  record,       \* status of each call's AgentRecord, "none" before it is appended
  outcome,      \* how the child's future ended, and how runner.run() did
  frameLock,    \* owner of each WorkflowAPI._lock
  freeSlots,    \* the value of the semaphore _agent_slots
  agentCount,   \* _agent_count
  spent,        \* _spent_tokens
  previous,     \* how many unconsumed results of the resumed run each fingerprint has
  current,      \* how many results each fingerprint has in ResumeCache.current
  active,       \* runner._active_children
  skipped,      \* runner._skipped_children
  child,        \* the thread that runs each call's child
  asking,       \* how many skip_child() calls are between the mark and the interrupt
  acknowledged, \* history: children of which a skip_child() answered True
  withdrawn,    \* history: children whose mark a failed skip took back, and none set again
  stopEvent,    \* the run's stop event
  paused,       \* the pause gate is closed
  late          \* the deadline has passed

callVars    == <<pc, record, outcome>>
syncVars    == <<frameLock, freeSlots>>
contextVars == <<agentCount, spent, previous, current>>
skipVars    == <<asking, acknowledged, withdrawn>>
childVars   == <<active, skipped, child, skipVars>>
controlVars == <<stopEvent, paused, late>>
vars == <<callVars, syncVars, contextVars, childVars, controlVars>>

Statuses == {"none", "queued", "running", "done", "skipped", "error"}
Outcomes == {"none", "answer", "no_capture", "failure", "skipped"}
Places == {"idle", "entered", "reserving", "admitting", "lookup", "queued", "acquiring",
           "slotted", "launching", "registered", "active", "grace", "leaving", "settling",
           "returned", "halted"}
Ended == {"returned", "halted"}
LockPlaces == {"reserving", "admitting"}
SlotPlaces == {"slotted", "launching", "registered", "active", "grace", "leaving"}
ChildPlaces == {"registered", "active", "grace"}
SlotHolders == {c \in Calls : pc[c] \in SlotPlaces}
WithChild == {c \in Calls : pc[c] \in ChildPlaces}
Admitted == {c \in Calls : record[c] # "none"}

Init ==
  /\ pc = [c \in Calls |-> "idle"]
  /\ record = [c \in Calls |-> "none"]
  /\ outcome = [c \in Calls |-> "none"]
  /\ frameLock = [f \in Frames |-> NoOne]
  /\ freeSlots = Slots
  /\ agentCount = 0
  /\ spent = 0
  /\ previous \in [Fingerprints -> 0 .. MaxCached]
  /\ current = [fp \in Fingerprints |-> 0]
  /\ active = {}
  /\ skipped = {}
  /\ child = [c \in Calls |-> "none"]
  /\ asking = [c \in Calls |-> 0]
  /\ acknowledged = {}
  /\ withdrawn = {}
  /\ stopEvent = FALSE /\ paused = FALSE /\ late = FALSE

Goto(c, place) == pc' = [pc EXCEPT ![c] = place]
Mark(c, status) == record' = [record EXCEPT ![c] = status]
Unlock(c) == frameLock' = [frameLock EXCEPT ![FrameOf[c]] = NoOne]

-----------------------------------------------------------------------------
(* check_runtime(): a closed gate blocks it until resume or stop; then it   *)
(* raises a WorkflowHalt when the run is stopped or late.                   *)

(* A faulty form: a check that does not look at the stop event. *)
CheckIgnoresStop == ~paused /\ ~late

CheckPasses == ~stopEvent /\ ~paused /\ ~late
CheckHalts  == stopEvent \/ (~paused /\ late)

(* A WorkflowHalt unwinds the call: `with` releases the frame lock or the   *)
(* slot, and the record keeps the status it had.                            *)
KeepLock(c) == UNCHANGED frameLock
UnwindLock(c) == IF pc[c] = "reserving" THEN Unlock(c) ELSE UNCHANGED frameLock

(* A faulty form: the slot is not given back when a halt unwinds. *)
KeepSlot(c) == UNCHANGED freeSlots

UnwindSlot(c) == freeSlots' = IF pc[c] = "slotted" THEN freeSlots + 1 ELSE freeSlots

Halt(c) ==
  /\ pc[c] \in {"idle", "reserving", "queued", "slotted"}
  /\ CheckHalts
  /\ Goto(c, "halted")
  /\ UnwindLock(c)
  /\ UnwindSlot(c)
  /\ UNCHANGED <<record, outcome, contextVars, childVars, controlVars>>

(* The check a call passes before its second shared step. *)
PassCheck(c, from, to) ==
  /\ pc[c] = from
  /\ CheckPasses
  /\ Goto(c, to)
  /\ UNCHANGED <<record, outcome, syncVars, contextVars, childVars, controlVars>>

Enter(c) == PassCheck(c, "idle", "entered")

AcquireFrameLock(c) ==
  /\ pc[c] = "entered"
  /\ frameLock[FrameOf[c]] = NoOne
  /\ frameLock' = [frameLock EXCEPT ![FrameOf[c]] = c]
  /\ Goto(c, "reserving")
  /\ UNCHANGED <<record, outcome, freeSlots, contextVars, childVars, controlVars>>

PassReserveCheck(c) == PassCheck(c, "reserving", "admitting")

(* A faulty form: the cap is passed by one. *)
AdmitAtCap == agentCount <= MaxAgents /\ spent < Budget

LimitsAllow == agentCount < MaxAgents /\ spent < Budget

(* reserve_agent() under the context lock, then the record is appended. *)
Admit(c) ==
  /\ pc[c] = "admitting"
  /\ LimitsAllow
  /\ agentCount' = agentCount + 1
  /\ Mark(c, "queued")
  /\ Unlock(c)
  /\ Goto(c, "lookup")
  /\ UNCHANGED <<outcome, freeSlots, spent, previous, current, childVars, controlVars>>

(* WorkflowLimitExceeded: the agent cap or the token budget is reached. *)
Refuse(c) ==
  /\ pc[c] = "admitting"
  /\ ~LimitsAllow
  /\ Unlock(c)
  /\ Goto(c, "halted")
  /\ UNCHANGED <<record, outcome, freeSlots, contextVars, childVars, controlVars>>

Put(c) == current' = [current EXCEPT ![FpOf[c]] = @ + 1]

(* The resumed run has a result left for this fingerprint: it is consumed,  *)
(* and kept for the next resume.                                            *)
ServeFromCache(c) ==
  /\ pc[c] = "lookup"
  /\ previous[FpOf[c]] > 0
  /\ previous' = [previous EXCEPT ![FpOf[c]] = @ - 1]
  /\ Put(c)
  /\ Mark(c, "done")
  /\ Goto(c, "returned")
  /\ UNCHANGED <<outcome, syncVars, agentCount, spent, childVars, controlVars>>

(* "running" is recorded and journalled before there is a slot. *)
StartRecord(c) ==
  /\ pc[c] = "lookup"
  /\ previous[FpOf[c]] = 0
  /\ Mark(c, "running")
  /\ Goto(c, "queued")
  /\ UNCHANGED <<outcome, syncVars, contextVars, childVars, controlVars>>

PassFirstSlotCheck(c) == PassCheck(c, "queued", "acquiring")

(* A faulty form: the semaphore is not waited for. *)
AnySlotValue == TRUE

SlotAvailable == freeSlots > 0

AcquireSlot(c) ==
  /\ pc[c] = "acquiring"
  /\ SlotAvailable
  /\ freeSlots' = freeSlots - 1
  /\ Goto(c, "slotted")
  /\ UNCHANGED <<record, outcome, frameLock, contextVars, childVars, controlVars>>

PassSecondSlotCheck(c) == PassCheck(c, "slotted", "launching")

-----------------------------------------------------------------------------
(* runner.run(): lease, toolsets and agent are built, then the child is     *)
(* registered and its thread submitted.                                     *)

(* Anything before the registration raises: no child, the slot is released. *)
LaunchFails(c) ==
  /\ pc[c] = "launching"
  /\ Goto(c, "settling")
  /\ outcome' = [outcome EXCEPT ![c] = "failure"]
  /\ freeSlots' = freeSlots + 1
  /\ UNCHANGED <<record, frameLock, contextVars, childVars, controlVars>>

Register(c) ==
  /\ pc[c] = "launching"
  /\ active' = active \cup {c}
  /\ child' = [child EXCEPT ![c] = "built"]
  /\ Goto(c, "registered")
  /\ UNCHANGED <<record, outcome, syncVars, contextVars, skipped, skipVars, controlVars>>

Submit(c) ==
  /\ pc[c] = "registered"
  /\ child' = [child EXCEPT ![c] = "running"]
  /\ Goto(c, "active")
  /\ UNCHANGED <<record, outcome, syncVars, contextVars, active, skipped, skipVars, controlVars>>

(* executor.submit() raises (no thread can be started) before the try whose *)
(* finally unregisters: the child never runs and stays in the registry.     *)
SubmitFails(c) ==
  /\ pc[c] = "registered"
  /\ Goto(c, "leaving")
  /\ outcome' = [outcome EXCEPT ![c] = "failure"]
  /\ UNCHANGED <<record, syncVars, contextVars, childVars, controlVars>>

(* A tool hook or an approval reaches on_child_update, which takes the     *)
(* frame lock from the child's thread and gives it back.                    *)
ChildReports(c) ==
  /\ child[c] = "running"
  /\ child' = [child EXCEPT ![c] = "reporting"]
  /\ UNCHANGED <<callVars, syncVars, contextVars, active, skipped, skipVars, controlVars>>

ChildReported(c) ==
  /\ child[c] = "reporting"
  /\ frameLock[FrameOf[c]] = NoOne
  /\ child' = [child EXCEPT ![c] = "running"]
  /\ UNCHANGED <<callVars, syncVars, contextVars, active, skipped, skipVars, controlVars>>

ChildExits(c) ==
  /\ child[c] = "running"
  /\ child' = [child EXCEPT ![c] = "exited"]
  /\ UNCHANGED <<callVars, syncVars, contextVars, active, skipped, skipVars, controlVars>>

(* The finally block of the runner: the child leaves the registry. *)
Leave(c, end) ==
  /\ active' = active \ {c}
  /\ outcome' = [outcome EXCEPT ![c] = end]
  /\ Goto(c, "leaving")
  /\ UNCHANGED <<record, syncVars, contextVars, skipped, child, skipVars, controlVars>>

(* The future has a result: an answer, an answer without the structured     *)
(* output that was asked for, or a failure.                                 *)
Collect(c) ==
  /\ pc[c] = "active"
  /\ child[c] = "exited"
  /\ \E end \in {"answer", "no_capture", "failure"} : Leave(c, end)

(* child_timeout_seconds went by: a child that has an interrupt() is asked  *)
(* to stop, and waited for again.                                           *)
Timeout(c) ==
  /\ pc[c] = "active"
  /\ child[c] # "exited"
  /\ Goto(c, "grace")
  /\ UNCHANGED <<record, outcome, syncVars, contextVars, childVars, controlVars>>

(* An interrupt() that raises ends the call without the grace period. *)
TimeoutRaises(c) ==
  /\ pc[c] = "active"
  /\ child[c] # "exited"
  /\ Leave(c, "failure")

(* The interrupted child exits within INTERRUPT_GRACE_SECONDS or is left    *)
(* behind: WorkflowTimeout either way.                                      *)
LeaveGrace(c) ==
  /\ pc[c] = "grace"
  /\ Leave(c, "failure")

(* A faulty form: how the child ended wins over a skip. *)
SkipLoses(c, end) == end

SkipWins(c, end) == IF c \in skipped THEN "skipped" ELSE end

(* The end of run() and of agent_slot(): a pending skip wins over how the   *)
(* child ended, and the slot is free.                                       *)
ConsumeSkip(c) ==
  /\ pc[c] = "leaving"
  /\ skipped' = skipped \ {c}
  /\ outcome' = [outcome EXCEPT ![c] = SkipWins(c, outcome[c])]
  /\ freeSlots' = freeSlots + 1
  /\ Goto(c, "settling")
  /\ UNCHANGED <<record, frameLock, contextVars, active, child, skipVars, controlVars>>

(* A faulty form: a child that counts is cached, with or without a result. *)
Counted == {"answer", "no_capture"}

(* Back in _agent_sync. A child that answered has its tokens counted, also  *)
(* when the structured output is missing; only an answer is cached.         *)
Cached == {"answer"}

Settle(c) ==
  /\ pc[c] = "settling"
  /\ Mark(c, CASE outcome[c] = "answer" -> "done"
               [] outcome[c] = "skipped" -> "skipped"
               [] OTHER -> "error")
  /\ IF outcome[c] \in Counted
     THEN \E t \in 0 .. MaxTokens : spent' = spent + t
     ELSE UNCHANGED spent
  /\ IF outcome[c] \in Cached THEN Put(c) ELSE UNCHANGED current
  /\ Goto(c, "returned")
  /\ UNCHANGED <<outcome, syncVars, agentCount, previous, childVars, controlVars>>

-----------------------------------------------------------------------------
(* Control. *)

(* skip_child(): the child is marked under the runner's lock and           *)
(* interrupted after it.  A child without an interrupt() is only marked.    *)
SkipChild(c) ==
  /\ c \in active
  /\ asking[c] < MaxSkips
  /\ skipped' = skipped \cup {c}
  /\ asking' = [asking EXCEPT ![c] = @ + 1]
  /\ withdrawn' = withdrawn \ {c}
  /\ UNCHANGED <<callVars, syncVars, contextVars, active, child, acknowledged, controlVars>>

SkipInterrupts(c) ==
  /\ asking[c] > 0
  /\ asking' = [asking EXCEPT ![c] = @ - 1]
  /\ acknowledged' = acknowledged \cup {c}
  /\ UNCHANGED <<callVars, syncVars, contextVars, active, skipped, child, withdrawn, controlVars>>

(* An interrupt() that raises takes back the mark, which is one for all the *)
(* requests about this child, and False is answered.                        *)
SkipFails(c) ==
  /\ asking[c] > 0
  /\ asking' = [asking EXCEPT ![c] = @ - 1]
  /\ skipped' = skipped \ {c}
  /\ withdrawn' = withdrawn \cup (skipped \cap {c})
  /\ UNCHANGED <<callVars, syncVars, contextVars, active, child, acknowledged, controlVars>>

(* The manager asks its record, which the thread's first status rewrites    *)
(* (RunManager!PublishStart): a pause or another stop may follow a stop.    *)
Pause ==
  /\ ~paused
  /\ paused' = TRUE
  /\ UNCHANGED <<callVars, syncVars, contextVars, childVars, stopEvent, late>>

Resume ==
  /\ paused
  /\ paused' = FALSE
  /\ UNCHANGED <<callVars, syncVars, contextVars, childVars, stopEvent, late>>

Stop ==
  /\ stopEvent' = TRUE
  /\ paused' = FALSE
  /\ UNCHANGED <<callVars, syncVars, contextVars, childVars, late>>

(* Paused time does not count towards the deadline. *)
DeadlinePasses ==
  /\ ~late /\ ~paused
  /\ late' = TRUE
  /\ UNCHANGED <<callVars, syncVars, contextVars, childVars, stopEvent, paused>>

-----------------------------------------------------------------------------
CallStep(c) ==
  \/ Halt(c) \/ AcquireFrameLock(c) \/ PassReserveCheck(c) \/ Admit(c) \/ Refuse(c)
  \/ ServeFromCache(c) \/ StartRecord(c)
  \/ PassFirstSlotCheck(c) \/ AcquireSlot(c) \/ PassSecondSlotCheck(c)
  \/ LaunchFails(c) \/ Register(c) \/ Submit(c) \/ SubmitFails(c)
  \/ Timeout(c) \/ TimeoutRaises(c) \/ Collect(c) \/ LeaveGrace(c)
  \/ ConsumeSkip(c) \/ Settle(c)

ChildStep(c) == ChildReports(c) \/ ChildReported(c) \/ ChildExits(c)
SkipStep(c) == SkipChild(c) \/ SkipInterrupts(c) \/ SkipFails(c)
ControlStep == Pause \/ Resume \/ Stop \/ DeadlinePasses

Next == \/ \E c \in Calls : Enter(c) \/ CallStep(c) \/ ChildStep(c) \/ SkipStep(c)
        \/ ControlStep

Spec == Init /\ [][Next]_vars

(* Threads that can run do run.  Nobody owes a call, a pause, a resume or a *)
(* stop; a child owes nothing but what it does under a lock it was given.   *)
FairSpec == /\ Spec
            /\ \A c \in Calls : /\ WF_vars(CallStep(c) /\ pc[c] # "idle")
                                /\ WF_vars(ChildReported(c))

(* Moreover every child that is left alone gives its answer. *)
DutifulSpec == FairSpec /\ \A c \in Calls : SF_vars(ChildExits(c))

-----------------------------------------------------------------------------
(* Every call is at a known place, the agent count never passes the cap of  *)
(* reserve_agent(), and no counter goes below zero.                         *)
TypeOK ==
  /\ pc \in [Calls -> Places]
  /\ record \in [Calls -> Statuses]
  /\ outcome \in [Calls -> Outcomes]
  /\ frameLock \in [Frames -> Calls \cup {NoOne}]
  /\ freeSlots \in Nat
  /\ agentCount \in 0 .. MaxAgents
  /\ spent \in Nat
  /\ previous \in [Fingerprints -> Nat] /\ current \in [Fingerprints -> Nat]
  /\ active \in SUBSET Calls /\ skipped \in SUBSET Calls
  /\ child \in [Calls -> {"none", "built", "running", "reporting", "exited"}]
  /\ asking \in [Calls -> 0 .. MaxSkips]
  /\ acknowledged \in SUBSET Calls /\ withdrawn \in SUBSET Calls
  /\ stopEvent \in BOOLEAN /\ paused \in BOOLEAN /\ late \in BOOLEAN

(* Every exit of agent_slot(), by answer, error, timeout, skip or halt,     *)
(* gives its slot back exactly once: the semaphore always accounts for the  *)
(* calls inside (context.py, agent_slot).                                   *)
SlotConservation == freeSlots + Cardinality(SlotHolders) = Slots

(* A skip that skip_child() acknowledged with True makes the call end       *)
(* "skipped", whatever the child answered and however its interrupts, its   *)
(* timeout and its answer raced, unless a later request about the same      *)
(* child failed: requests share one mark, and the one whose interrupt()     *)
(* raises takes it back.  A call whose mark was taken back, and not set     *)
(* again, is not skipped.  A child that could not be submitted is left out: *)
(* it stays registered, and a skip of it is acknowledged for nothing        *)
(* (runner.py, skip_child, _consume_skipped and submit).                    *)
SkipHonoured ==
  \A c \in Calls : pc[c] \in Ended /\ child[c] # "built" =>
    /\ c \in acknowledged \ withdrawn => record[c] = "skipped"
    /\ c \in withdrawn => record[c] # "skipped"

(* The cache a run leaves for a later resume holds exactly one result for   *)
(* each call that ended "done", whether its child answered or an earlier    *)
(* run's result was consumed, and nothing of a call that failed, lacked its *)
(* structured output, was skipped or was halted: a later resume hands each  *)
(* result to one call, so one too many or too few would reach another call  *)
(* of the same prompt (engine/cache.py; api.py, resume_cache.get and put).  *)
DoneCalls(fp) == {c \in Calls : FpOf[c] = fp /\ record[c] = "done"}
CacheCountsDoneCalls == \A fp \in Fingerprints : current[fp] = Cardinality(DoneCalls(fp))

(* A call that had not passed its last check when the run was stopped never *)
(* launches a child, whatever lock, gate or slot it was waiting for.        *)
BeforeLastCheck == {"idle", "entered", "reserving", "admitting", "lookup", "queued",
                    "acquiring", "slotted"}
StopPreventsLaunch ==
  \A c \in Calls :
    [](stopEvent /\ pc[c] \in BeforeLastCheck => [](child[c] = "none"))

(* A run that is not left paused strands no call: locks and slots are given *)
(* back on every path, so each call under way ends.  A stopped run drains   *)
(* even when it is paused again: also a call that waits at the gate, for    *)
(* the frame lock or for a slot, or whose child ignores its interrupt.      *)
EveryCallEnds ==
  (<>[](~paused \/ stopEvent)) => \A c \in Calls : (pc[c] # "idle") ~> (pc[c] \in Ended)

Pool == INSTANCE AgentPool WITH
          status <- record, running <- WithChild,
          launched <- {c \in Calls : child[c] # "none"}

(* The agent() calls of a run keep the promises of AgentPool: cap, at most  *)
(* one child a call, children for at most Slots calls at a time, final      *)
(* results.                                                                 *)
PoolSpec == Pool!Spec

-----------------------------------------------------------------------------
(* What the documentation says and the code does not do. *)

(* TECHNICAL.md:386: while paused, agents "already running can finish".     *)
RunningChildrenFinish == \A c \in Calls : (child[c] = "running") ~> (child[c] = "exited")
=============================================================================
