--------------------------- MODULE ScriptRun_proofs ---------------------------
(***************************************************************************)
(* Theorems about ScriptRun.  A halt is followed from where it is met: it  *)
(* stays in the item that met it until its frame raises it, and in the     *)
(* frame, if that is nested, until the item that waits for the frame has   *)
(* it - unless a finally clause dropped it, and then a stop is still there *)
(* to be found by the check after the script.                              *)
(***************************************************************************)
EXTENDS ScriptRun, Integers, FiniteSetTheorems, TLAPS

(* Every variable is there for every frame, item and thread. *)
DomainInv ==
  /\ DOMAIN at = Frames /\ DOMAIN status = Frames /\ DOMAIN raised = Frames
  /\ DOMAIN call = Frames /\ DOMAIN turn = Frames /\ DOMAIN caller = Nested
  /\ DOMAIN task = Frames /\ \A f \in Frames : DOMAIN task[f] = Items[f]
  /\ DOMAIN check = Frames /\ \A f \in Frames : DOMAIN check[f] = Threads(f)

(* No time is lost: what was not worked was paused, and a clock that was    *)
(* read lies in the past.                                                   *)
ClockInv ==
  /\ gate \in [paused : BOOLEAN, since : Nat, before : Nat]
  /\ clock \in Nat /\ worked \in Nat
  /\ gate.paused => gate.since <= clock
  /\ worked + PausedSeconds = clock
  /\ \A f \in Frames : \A i \in Threads(f) : check[f][i].now \in Nat /\ check[f][i].now <= clock

(* A loop is in a check only where it checks, or as it starts an item. *)
CheckInv ==
  \A f \in Frames :
    /\ check[f][0].step # "none" => Checks(f, 0) \/ turn[f] # 0
    /\ turn[f] # 0 => turn[f] \in Items[f] /\ at[f] = "awaiting" /\ task[f][turn[f]] = "ready"

Final == {"joining", "over"}
Before == {"none", "entering", "script", "calling", "collecting", "returning"}

Parts(f) == \A i \in Items[f] : task[f][i] \in Settled \cup {"idle"}

(* Outside of an await no item is under way, unless a halt ended the await  *)
(* or a finally clause left it; a call of one item has one.                 *)
FrameInv ==
  \A f \in Frames :
    /\ status[f] = "completed" => at[f] \in Final
    /\ at[f] \in Before \cup Final \cup {"awaiting", "failing"}
    /\ at[f] \in Before => Parts(f) \/ (at[f] = "returning" /\ f \in left)
    /\ status[f] = "completed" => Parts(f) \/ f \in left
    /\ at[f] = "calling" => call[f] # "await"
    /\ at[f] = "awaiting" /\ call[f] = "await" => \A i, j \in Awaited(f) : i = j
    /\ at[f] = "awaiting" \/ Left(f) = {} \/ halted # {}

(* A nested frame that runs has an item of the root for itself. *)
Runs(n) == at[n] \notin {"none", "over"}
NestInv ==
  \A n \in Nested :
    Runs(n) => /\ caller[n] \in Items[Root] /\ task[Root][caller[n]] = "nesting"
               /\ \A m \in Nested : Runs(m) /\ caller[m] = caller[n] => m = n

(* Who has a stop was stopped. *)
StopInv ==
  \A f \in Frames : /\ raised[f] = "stop" => stop
                    /\ \A i \in Items[f] : task[f][i] = "stop" => stop

(* Where a halt is. *)
Failing(f) == at[f] \in {"failing"} \cup Final /\ status[f] # "completed"
Stuck(f) == \/ at[f] = "awaiting" /\ \E i \in Items[f] : task[f][i] \in Halts
            \/ Failing(f) /\ raised[f] \in Halts
HaltInv ==
  \A h \in halted :
    /\ h.frame \in Frames /\ h.what \in Halts
    /\ h.what = "stop" => /\ stop /\ status[h.frame] # "completed"
                          /\ Checks(h.frame, 0) => check[h.frame][0].step = "none"
    /\ h.frame \in left \/ Stuck(h.frame)
    /\ left = {} /\ h.frame # Root /\ at[h.frame] = "over" => Stuck(Root) \/ Failing(Root)

IInv == /\ DomainInv /\ ClockInv /\ CheckInv /\ FrameInv /\ NestInv /\ StopInv /\ HaltInv
        /\ left \subseteq Frames /\ DeadlineCountsWork

USE FramesAssumption, ItemsAssumption, BoundsAssumption
USE DEF Frames, Threads, Settled, Halts, OnThread, Unstarted, Final, Before

-----------------------------------------------------------------------------
(* What an assignment to a nested function changes. *)
LEMMA NestedUpdate ==
  ASSUME NEW fn, NEW new, NEW f, NEW i, NEW v, new = [fn EXCEPT ![f][i] = v],
         f \in DOMAIN fn, i \in DOMAIN fn[f]
  PROVE  /\ DOMAIN new = DOMAIN fn /\ \A g \in DOMAIN fn : DOMAIN new[g] = DOMAIN fn[g]
         /\ new[f][i] = v
         /\ \A g \in DOMAIN fn : \A j \in DOMAIN fn[g] : g # f \/ j # i => new[g][j] = fn[g][j]
<1>1. new = [fn EXCEPT ![f] = [fn[f] EXCEPT ![i] = v]]
  OBVIOUS
<1> QED  BY <1>1

SetTask(f, i, s) ==
  /\ DOMAIN task' = Frames /\ \A g \in Frames : DOMAIN task'[g] = Items[g]
  /\ task'[f][i] = s
  /\ \A g \in Frames : \A j \in Items[g] : g # f \/ j # i => task'[g][j] = task[g][j]
SetCheck(f, i, c) ==
  /\ DOMAIN check' = Frames /\ \A g \in Frames : DOMAIN check'[g] = Threads(g)
  /\ check'[f][i] = c
  /\ \A g \in Frames : \A j \in Threads(g) : g # f \/ j # i => check'[g][j] = check[g][j]

LEMMA TaskUpdate ==
  ASSUME DomainInv, NEW f \in Frames, NEW i \in Items[f], NEW s, task' = [task EXCEPT ![f][i] = s]
  PROVE  SetTask(f, i, s)
  BY NestedUpdate DEF DomainInv, SetTask

LEMMA CheckUpdate ==
  ASSUME DomainInv, NEW f \in Frames, NEW i \in Threads(f), NEW c, check' = [check EXCEPT ![f][i] = c]
  PROVE  SetCheck(f, i, c)
  BY NestedUpdate DEF DomainInv, SetCheck

LEMMA EndedCheck ==
  ASSUME DomainInv, NEW f \in Frames, NEW i \in Threads(f), EndCheck(f, i)
  PROVE  SetCheck(f, i, NoCheck)
  BY CheckUpdate DEF EndCheck

-----------------------------------------------------------------------------
(* Time.  A deadline that is found exceeded was worked for. *)
LEMMA OverdueWorked ==
  ASSUME ClockInv, NEW f \in Frames, NEW i \in Threads(f), Overdue(f, i)
  PROVE  worked > Limit
<1>1. /\ check[f][i].now \in Nat /\ check[f][i].now <= clock
      /\ check[f][i].now > Limit + PausedSeconds
  BY DEF ClockInv, Overdue
<1>2. PausedSeconds \in Int
  BY DEF ClockInv, PausedSeconds
<1> QED  BY <1>1, <1>2 DEF ClockInv

TimeKept ==
  /\ UNCHANGED <<gate, clock, worked>>
  /\ \A f \in Frames : \A i \in Threads(f) : check'[f][i].now \in {0, check[f][i].now}
  /\ expired' = expired \/ (expired' = expired \cup {worked} /\ worked > Limit)

LEMMA TimeKeptIsEnough ==
  ASSUME IInv, TimeKept PROVE ClockInv' /\ DeadlineCountsWork'
  BY DEF IInv, TimeKept, ClockInv, PausedSeconds, DeadlineCountsWork

LEMMA ChecksKeepTime ==
  ASSUME IInv, UNCHANGED <<gate, clock, worked>>,
         \/ UNCHANGED check /\ UNCHANGED expired
         \/ \E f \in Frames : \E i \in Threads(f) :
              (CheckPasses(f, i) /\ UNCHANGED expired) \/ CheckHalts(f, i)
  PROVE  TimeKept
<1>1. CASE UNCHANGED check /\ UNCHANGED expired
  BY <1>1 DEF TimeKept
<1>2. ASSUME NEW f \in Frames, NEW i \in Threads(f),
             (CheckPasses(f, i) /\ UNCHANGED expired) \/ CheckHalts(f, i)
      PROVE  TimeKept
  <2>1. SetCheck(f, i, NoCheck)
    BY <1>2, EndedCheck DEF IInv, CheckPasses, CheckHalts
  <2>2. expired' = expired \/ (expired' = expired \cup {worked} /\ worked > Limit)
    BY <1>2, OverdueWorked DEF IInv, CheckHalts
  <2> QED  BY <2>1, <2>2 DEF TimeKept, SetCheck, NoCheck
<1> QED  BY <1>1, <1>2

LEMMA ClockStepsKeepTime ==
  ASSUME IInv, ClockStep PROVE ClockInv' /\ DeadlineCountsWork'
<1>1. CASE Tick
  BY <1>1 DEF IInv, Tick, ClockInv, PausedSeconds, DeadlineCountsWork, historyVars
<1>2. CASE Pause
  <2>1. gate' = [paused |-> TRUE, since |-> clock, before |-> gate.before]
    BY <1>2 DEF IInv, ClockInv, Pause
  <2>2. PausedSeconds' = PausedSeconds
    BY <1>2, <2>1 DEF IInv, ClockInv, Pause, PausedSeconds
  <2>3. UNCHANGED <<clock, worked, check, expired>>
    BY <1>2 DEF Pause, historyVars
  <2>4. ClockInv'
    BY <2>1, <2>2, <2>3 DEF IInv, ClockInv
  <2> QED  BY <2>3, <2>4 DEF IInv, DeadlineCountsWork
<1>3. CASE Resume
  BY <1>3 DEF IInv, Resume, Opened, ClockInv, PausedSeconds, DeadlineCountsWork, historyVars
<1>4. CASE Stop
  BY <1>4 DEF IInv, Stop, Opened, ClockInv, PausedSeconds, DeadlineCountsWork, historyVars
<1> QED  BY <1>1, <1>2, <1>3, <1>4 DEF ClockStep

LEMMA CheckStepsKeepTime ==
  ASSUME IInv, NEW f \in Frames, NEW i \in Threads(f), PassGate(f, i) \/ ReadClock(f, i)
  PROVE  ClockInv' /\ DeadlineCountsWork'
<1>1. CASE PassGate(f, i)
  <2>1. SetCheck(f, i, [check[f][i] EXCEPT !.step = "passed"])
    BY <1>1, CheckUpdate DEF IInv, PassGate
  <2> QED  BY <1>1, <2>1 DEF IInv, PassGate, SetCheck, clockVars, historyVars, ClockInv, PausedSeconds, DeadlineCountsWork
<1>2. CASE ReadClock(f, i)
  <2>1. SetCheck(f, i, [step |-> "read", now |-> clock])
    BY <1>2, CheckUpdate DEF IInv, ReadClock
  <2> QED  BY <1>2, <2>1 DEF IInv, ReadClock, SetCheck, clockVars, historyVars, ClockInv, PausedSeconds, DeadlineCountsWork
<1> QED  BY <1>1, <1>2

-----------------------------------------------------------------------------
(* The rest of the invariant: steps of the clock and of a check. *)
Rest == /\ DomainInv /\ CheckInv /\ FrameInv /\ NestInv /\ StopInv /\ HaltInv
        /\ left \subseteq Frames

LEMMA ClockStepsKeepRest ==
  ASSUME IInv, UNCHANGED <<frameVars, taskVars, check, left, halted>>, stop => stop'
  PROVE  Rest'
<1> USE DEF IInv, frameVars, taskVars
<1>1. DomainInv' /\ CheckInv' /\ FrameInv' /\ NestInv' /\ (left \subseteq Frames)'
  BY DEF DomainInv, CheckInv, Checks, FrameInv, Parts, Awaited, Left, NestInv, Runs
<1>2. StopInv'
  BY DEF StopInv
<1>3. HaltInv'
  BY DEF HaltInv, Checks, Stuck, Failing
<1> QED  BY <1>1, <1>2, <1>3 DEF Rest

LEMMA CheckStepsKeepRest ==
  ASSUME IInv, NEW f \in Frames, NEW i \in Threads(f), PassGate(f, i) \/ ReadClock(f, i)
  PROVE  Rest'
<1> USE DEF IInv, frameVars, taskVars, historyVars
<1>1. UNCHANGED <<stop, frameVars, taskVars, left, halted>>
  BY DEF PassGate, ReadClock
<1>2. PICK c : SetCheck(f, i, c) /\ c.step # "none"
  <2>1. CASE PassGate(f, i)
    <3> DEFINE c == [check[f][i] EXCEPT !.step = "passed"]
    <3>1. SetCheck(f, i, c)
      BY <2>1, CheckUpdate DEF PassGate
    <3>2. c.step # "none"
      BY <2>1 DEF PassGate
    <3> QED  BY <3>1, <3>2
  <2>2. CASE ReadClock(f, i)
    <3>1. SetCheck(f, i, [step |-> "read", now |-> clock])
      BY <2>2, CheckUpdate DEF ReadClock
    <3> QED  BY <3>1
  <2> QED  BY <2>1, <2>2
<1>3. i = 0 => \/ Checks(f, 0) /\ ~stop
               \/ check[f][0].step # "none"
  BY DEF PassGate, ReadClock
<1>4. DomainInv' /\ FrameInv' /\ NestInv' /\ StopInv' /\ (left \subseteq Frames)'
  BY <1>1, <1>2 DEF SetCheck, DomainInv, FrameInv, Parts, Awaited, Left, NestInv, Runs, StopInv
<1>5. CheckInv'
  BY <1>1, <1>2, <1>3 DEF SetCheck, CheckInv, Checks
<1>6. HaltInv'
  BY <1>1, <1>2, <1>3 DEF SetCheck, HaltInv, Checks, Stuck, Failing
<1> QED  BY <1>4, <1>5, <1>6 DEF Rest

-----------------------------------------------------------------------------
(* An item that settles: what it raised stays with it, or a finally clause  *)
(* of its own drops it.                                                     *)
Settling(f, i, outcome) ==
  /\ \E s \in {"cancelled", "value", "ready", "failed"} \cup Halts :
       /\ SetTask(f, i, s)
       /\ s \in Halts => s = outcome
       /\ outcome \in Halts /\ at[f] = "awaiting" => s = outcome \/ f \in left'
  /\ left' = left \/ (left' = left \cup {f} /\ at[f] = "awaiting")
  /\ \/ halted' = halted
     \/ /\ outcome \in Halts /\ at[f] = "awaiting"
        /\ halted' = halted \cup {[frame |-> f, what |-> outcome]}

LEMMA SettleIsSettling ==
  ASSUME DomainInv, NEW f \in Frames, NEW i \in Items[f], NEW outcome,
         Settle(f, i, outcome) \/ SettleItem(f, i, outcome)
  PROVE  Settling(f, i, outcome)
<1>1. CASE Settle(f, i, outcome)
  <2>1. SetTask(f, i, After(f, i, outcome))
    BY <1>1, TaskUpdate DEF Settle
  <2> QED  BY <1>1, <2>1 DEF Settle, Settling, After, Caught, Halted
<1>2. CASE /\ outcome \in Halts /\ call[f] # "await" /\ at[f] = "awaiting"
           /\ task' = [task EXCEPT ![f][i] = After(f, i, "value")]
           /\ left' = left \cup {f} /\ halted' = Halted(f, outcome)
  <2>1. SetTask(f, i, After(f, i, "value"))
    BY <1>2, TaskUpdate
  <2> QED  BY <1>2, <2>1 DEF Settling, After, Halted
<1> QED  BY <1>1, <1>2 DEF SettleItem

(* Checks that only end. *)
ChecksEnd ==
  /\ DOMAIN check' = Frames /\ \A f \in Frames : DOMAIN check'[f] = Threads(f)
  /\ \A f \in Frames : \A i \in Threads(f) : check'[f][i] \in {check[f][i], NoCheck}

LEMMA SettlingKeepsRest ==
  ASSUME IInv, NEW f \in Frames, NEW i \in Items[f], NEW outcome, Settling(f, i, outcome),
         task[f][i] \in {"ready", "started", "admitting", "running"},
         outcome = "stop" => stop,
         UNCHANGED <<stop, frameVars, caller>>, ChecksEnd,
         \/ UNCHANGED turn /\ task[f][i] # "ready"
         \/ turn' = [turn EXCEPT ![f] = 0] /\ check'[f][0].step = "none"
  PROVE  Rest'
<1> USE DEF IInv, frameVars
<1>1. PICK s \in {"cancelled", "value", "ready", "failed"} \cup Halts :
        /\ SetTask(f, i, s)
        /\ s \in Halts => s = outcome
        /\ outcome \in Halts /\ at[f] = "awaiting" => s = outcome \/ f \in left'
  BY DEF Settling
<1>2. left \subseteq left' /\ left' \subseteq left \cup {f}
  BY DEF Settling
<1>3. DomainInv' /\ (left \subseteq Frames)'
  BY <1>1, <1>2 DEF DomainInv, SetTask, ChecksEnd
<1>4. CheckInv'
  BY <1>1 DEF CheckInv, Checks, SetTask, ChecksEnd, NoCheck, DomainInv
<1>5. FrameInv'
  <2>1. /\ \A g \in Frames : Left(g)' \subseteq Left(g) /\ (Parts(g) => Parts(g)')
        /\ halted \subseteq halted'
    BY <1>1 DEF Parts, Left, SetTask, Settling
  <2>2. \A g \in Frames : Awaited(g)' \subseteq Awaited(g)
    BY <1>1 DEF Awaited, SetTask
  <2> QED  BY <1>2, <2>1, <2>2 DEF FrameInv
<1>6. NestInv' /\ StopInv'
  BY <1>1 DEF NestInv, StopInv, Runs, SetTask
<1>7. HaltInv'
  <2> SUFFICES ASSUME NEW h \in halted'
               PROVE  /\ h.frame \in Frames /\ h.what \in Halts
                      /\ h.what = "stop" => /\ stop' /\ status'[h.frame] # "completed"
                                            /\ Checks(h.frame, 0)' => check'[h.frame][0].step = "none"
                      /\ h.frame \in left' \/ Stuck(h.frame)'
                      /\ left' = {} /\ h.frame # Root /\ at'[h.frame] = "over" =>
                           Stuck(Root)' \/ Failing(Root)'
    BY DEF HaltInv
  <2>1. \A g \in Frames : (Stuck(g) => Stuck(g)') /\ (Failing(g) => Failing(g)')
    BY <1>1 DEF Stuck, Failing, SetTask
  <2>2. CASE h \in halted
    BY <1>2, <2>1, <2>2 DEF HaltInv, Checks, ChecksEnd, NoCheck
  <2>3. CASE h \notin halted
    <3>1. /\ h = [frame |-> f, what |-> outcome]
          /\ outcome \in Halts /\ at[f] = "awaiting"
      BY <2>3 DEF Settling
    <3>2. f \in left' \/ Stuck(f)'
      BY <1>1, <3>1 DEF Stuck, SetTask
    <3> QED  BY <3>1, <3>2 DEF FrameInv, Checks
  <2> QED  BY <2>2, <2>3
<1> QED  BY <1>3, <1>4, <1>5, <1>6, <1>7 DEF Rest

LEMMA ChecksEnding ==
  ASSUME DomainInv, NEW f \in Frames, NEW i \in Threads(f), EndCheck(f, i)
  PROVE  ChecksEnd /\ check'[f][i] = NoCheck
  BY EndedCheck DEF SetCheck, ChecksEnd

LEMMA ChecksKept == ASSUME DomainInv, UNCHANGED check PROVE ChecksEnd
  BY DEF DomainInv, ChecksEnd

(* A halt stays where it is when its frame and the root do. *)
LEMMA HaltsStay ==
  ASSUME HaltInv, halted' = halted, left' = left, stop' = stop,
         \A g \in Frames :
           /\ Stuck(g) => Stuck(g)'
           /\ Failing(g) => Failing(g)'
           /\ status'[g] = "completed" => status[g] = "completed"
           /\ at'[g] = "over" => at[g] = "over"
           /\ Checks(g, 0)' => check'[g][0].step = "none" \/
                               (Checks(g, 0) /\ check'[g][0] = check[g][0])
  PROVE  HaltInv'
<1> SUFFICES ASSUME NEW h \in halted
             PROVE  /\ h.frame \in Frames /\ h.what \in Halts
                    /\ h.what = "stop" => /\ stop' /\ status'[h.frame] # "completed"
                                          /\ Checks(h.frame, 0)' => check'[h.frame][0].step = "none"
                    /\ h.frame \in left' \/ Stuck(h.frame)'
                    /\ left' = {} /\ h.frame # Root /\ at'[h.frame] = "over" =>
                         Stuck(Root)' \/ Failing(Root)'
  BY DEF HaltInv
<1> QED  BY DEF HaltInv

-----------------------------------------------------------------------------
(* The script of a frame. *)
LEMMA EnterKeepsRest ==
  ASSUME IInv, NEW f \in Frames, Enter(f)
  PROVE  Rest'
<1> USE DEF IInv, KeepScript, taskVars, historyVars, Goto
<1>0. ChecksEnd /\ check'[f][0] = NoCheck
  BY ChecksEnding DEF Enter, CheckPasses, CheckHalts
<1>1. DomainInv' /\ (left \subseteq Frames)'
  BY <1>0 DEF Enter, DomainInv, ChecksEnd
<1>2. CheckInv'
  BY <1>0 DEF Enter, DomainInv, CheckInv, Checks, ChecksEnd, NoCheck, Waiting
<1>3. FrameInv'
  BY <1>0 DEF Enter, DomainInv, FrameInv, Parts, Awaited, Left
<1>4. NestInv'
  BY <1>0 DEF Enter, DomainInv, NestInv, Runs, FrameInv, Parts
<1>5. StopInv'
  BY <1>0 DEF Enter, DomainInv, StopInv
<1>6. HaltInv'
  BY <1>0 DEF Enter, DomainInv, HaltInv, FrameInv, CheckInv, Checks, Stuck, Failing, ChecksEnd, NoCheck
<1> QED  BY <1>1, <1>2, <1>3, <1>4, <1>5, <1>6 DEF Rest

(* A halt that a frame raises, or that a finally clause of it drops. *)
Raising(f, what) ==
  /\ \/ /\ at' = [at EXCEPT ![f] = "failing"] /\ left' = left
        /\ raised' = [raised EXCEPT ![f] = what]
     \/ /\ at' = [at EXCEPT ![f] = "returning"] /\ left' = left \cup {f}
        /\ raised' = raised
  /\ halted' = halted \cup {[frame |-> f, what |-> what]}

LEMMA RaisingKeepsRest ==
  ASSUME IInv, NEW f \in Frames, NEW what \in Halts, Raising(f, what), what = "stop" => stop,
         at[f] \in {"entering", "script", "calling", "collecting", "returning", "awaiting"},
         turn[f] = 0, ChecksEnd, check'[f][0].step = "none",
         UNCHANGED <<stop, status, call, taskVars>>
  PROVE  Rest'
<1> USE DEF IInv, taskVars
<1>0. status[f] # "completed"
  BY DEF FrameInv
<1>1. DomainInv' /\ (left \subseteq Frames)'
  BY DEF Raising, DomainInv, ChecksEnd
<1>2. CheckInv'
  BY DEF Raising, DomainInv, CheckInv, Checks, ChecksEnd, NoCheck
<1>3. FrameInv'
  <2> SUFFICES ASSUME NEW g \in Frames
               PROVE  /\ status'[g] = "completed" => at'[g] \in Final
                      /\ at'[g] \in Before \cup Final \cup {"awaiting", "failing"}
                      /\ at'[g] \in Before => Parts(g)' \/ (at'[g] = "returning" /\ g \in left')
                      /\ status'[g] = "completed" => Parts(g)' \/ g \in left'
                      /\ at'[g] = "calling" => call'[g] # "await"
                      /\ at'[g] = "awaiting" /\ call'[g] = "await" =>
                           \A i, j \in Awaited(g)' : i = j
                      /\ at'[g] = "awaiting" \/ Left(g)' = {} \/ halted' # {}
    BY DEF FrameInv
  <2>1. Parts(g)' = Parts(g) /\ Awaited(g)' = Awaited(g) /\ Left(g)' = Left(g)
    BY DEF Parts, Awaited, Left
  <2>2. halted' # {}
    BY DEF Raising
  <2>3. CASE g = f
    BY <1>0, <2>1, <2>2, <2>3 DEF Raising, DomainInv
  <2>4. CASE g # f
    <3>1. at'[g] = at[g] /\ (g \in left => g \in left')
      BY <2>4 DEF Raising, DomainInv
    <3> QED  BY <2>1, <2>2, <3>1 DEF FrameInv
  <2> QED  BY <2>3, <2>4
<1>4. NestInv'
  <2>1. \A n \in Nested : Runs(n)' = Runs(n)
    BY DEF Raising, Runs, DomainInv
  <2> QED  BY <2>1 DEF NestInv
<1>5. StopInv'
  BY DEF Raising, DomainInv, StopInv
<1>6. HaltInv'
  <2> SUFFICES ASSUME NEW h \in halted'
               PROVE  /\ h.frame \in Frames /\ h.what \in Halts
                      /\ h.what = "stop" => /\ stop' /\ status'[h.frame] # "completed"
                                            /\ Checks(h.frame, 0)' => check'[h.frame][0].step = "none"
                      /\ h.frame \in left' \/ Stuck(h.frame)'
                      /\ left' = {} /\ h.frame # Root /\ at'[h.frame] = "over" =>
                           Stuck(Root)' \/ Failing(Root)'
    BY DEF HaltInv
  <2>1. f \in left' \/ (Failing(f)' /\ raised'[f] \in Halts)
    BY <1>0 DEF Raising, Failing, DomainInv
  <2>2. at'[f] # "over"
    BY DEF Raising, DomainInv
  <2>3. CASE h.frame = f
    <3>1. h.what \in Halts /\ (h.what = "stop" => stop)
      BY <2>3 DEF Raising, HaltInv
    <3> QED  BY <1>0, <2>1, <2>2, <2>3, <3>1 DEF Stuck
  <2>4. CASE h.frame # f
    <3>1. h \in halted
      BY <2>4 DEF Raising
    <3>2. at'[h.frame] = at[h.frame] /\ raised'[h.frame] = raised[h.frame]
      BY <2>4, <3>1 DEF Raising, DomainInv, HaltInv
    <3>3. Stuck(h.frame)' = Stuck(h.frame) /\ Checks(h.frame, 0)' = Checks(h.frame, 0)
      BY <3>2 DEF Stuck, Failing, Checks
    <3>4. left \subseteq left'
      BY DEF Raising
    <3>5. Stuck(Root) \/ Failing(Root) => Stuck(Root)' \/ Failing(Root)' \/ left' # {}
      <4>1. CASE f = Root
        BY <2>1, <4>1
      <4>2. CASE f # Root
        BY <4>2 DEF Raising, DomainInv, Stuck, Failing
      <4> QED  BY <4>1, <4>2
    <3>6. h.frame \in Frames /\ check'[h.frame][0] \in {check[h.frame][0], NoCheck}
      BY <3>1 DEF HaltInv, ChecksEnd
    <3> QED  BY <3>1, <3>2, <3>3, <3>4, <3>5, <3>6 DEF HaltInv, NoCheck
  <2> QED  BY <2>3, <2>4
<1> QED  BY <1>1, <1>2, <1>3, <1>4, <1>5, <1>6 DEF Rest

LEMMA LoopHaltsKeepsRest ==
  ASSUME IInv, NEW f \in Frames, LoopHalts(f)
  PROVE  Rest'
<1>1. ChecksEnd /\ check'[f][0] = NoCheck
  BY ChecksEnding DEF IInv, LoopHalts, CheckHalts
<1>2. at[f] \in {"entering", "calling", "collecting", "returning"}
  BY DEF IInv, LoopHalts, CheckHalts, StopFound, Overdue, CheckInv, Checks
<1>3. Raising(f, Halt)
  BY DEF LoopHalts, Raise, Leave, Halt, Halted, Goto, Raising
<1> QED  BY <1>1, <1>2, <1>3, RaisingKeepsRest DEF LoopHalts, Halt, KeepScript, NoCheck

LEMMA CallKeepsRest ==
  ASSUME IInv, NEW f \in Frames, NEW how \in CallForms, Call(f, how)
  PROVE  Rest'
<1> USE DEF IInv, KeepScript, taskVars, historyVars, Goto
<1>0. ChecksEnd
  BY ChecksKept DEF Call
<1>1. DomainInv' /\ (left \subseteq Frames)'
  BY <1>0 DEF Call, DomainInv, ChecksEnd
<1>2. CheckInv'
  BY <1>0 DEF Call, DomainInv, CheckInv, Checks, ChecksEnd, NoCheck, Waiting
<1>3. FrameInv'
  BY <1>0 DEF Call, DomainInv, FrameInv, Parts, Awaited, Left
<1>4. NestInv'
  BY <1>0 DEF Call, DomainInv, NestInv, Runs, FrameInv, Parts
<1>5. StopInv'
  BY <1>0 DEF Call, DomainInv, StopInv
<1>6. HaltInv'
  BY <1>0 DEF Call, DomainInv, HaltInv, FrameInv, CheckInv, Checks, Stuck, Failing, ChecksEnd, NoCheck
<1> QED  BY <1>1, <1>2, <1>3, <1>4, <1>5, <1>6 DEF Rest

LEMMA GatherKeepsRest ==
  ASSUME IInv, NEW f \in Frames, Gather(f)
  PROVE  Rest'
<1> USE DEF IInv, KeepScript, taskVars, historyVars, Goto
<1>0. ChecksEnd /\ check'[f][0] = NoCheck
  BY ChecksEnding DEF Gather, CheckPasses, CheckHalts
<1>1. DomainInv' /\ (left \subseteq Frames)'
  BY <1>0 DEF Gather, DomainInv, ChecksEnd
<1>2. CheckInv'
  BY <1>0 DEF Gather, DomainInv, CheckInv, Checks, ChecksEnd, NoCheck, Waiting
<1>3. FrameInv'
  BY <1>0 DEF Gather, DomainInv, FrameInv, Parts, Awaited, Left
<1>4. NestInv'
  BY <1>0 DEF Gather, DomainInv, NestInv, Runs, FrameInv, Parts
<1>5. StopInv'
  BY <1>0 DEF Gather, DomainInv, StopInv
<1>6. HaltInv'
  BY <1>0 DEF Gather, DomainInv, HaltInv, FrameInv, CheckInv, Checks, Stuck, Failing, ChecksEnd, NoCheck
<1> QED  BY <1>1, <1>2, <1>3, <1>4, <1>5, <1>6 DEF Rest

LEMMA CollectKeepsRest ==
  ASSUME IInv, NEW f \in Frames, Collect(f)
  PROVE  Rest'
<1> USE DEF IInv, KeepScript, taskVars, historyVars, Goto
<1>0. ChecksEnd
  BY ChecksKept DEF Collect
<1>1. DomainInv' /\ (left \subseteq Frames)'
  BY <1>0 DEF Collect, Waiting, AllSettled, Awaited, DomainInv, ChecksEnd
<1>2. CheckInv'
  BY <1>0 DEF Collect, Waiting, AllSettled, Awaited, DomainInv, CheckInv, Checks, ChecksEnd, NoCheck, Waiting
<1>3. FrameInv'
  BY <1>0 DEF Collect, Waiting, AllSettled, Awaited, DomainInv, FrameInv, Parts, Awaited, Left
<1>4. NestInv'
  BY <1>0 DEF Collect, Waiting, AllSettled, Awaited, DomainInv, NestInv, Runs, FrameInv, Parts
<1>5. StopInv'
  BY <1>0 DEF Collect, Waiting, AllSettled, Awaited, DomainInv, StopInv
<1>6. HaltInv'
  BY <1>0 DEF Collect, Waiting, AllSettled, Awaited, DomainInv, HaltInv, FrameInv, CheckInv, Checks, Stuck, Failing, ChecksEnd, NoCheck
<1> QED  BY <1>1, <1>2, <1>3, <1>4, <1>5, <1>6 DEF Rest

LEMMA CollectedKeepsRest ==
  ASSUME IInv, NEW f \in Frames, Collected(f)
  PROVE  Rest'
<1> USE DEF IInv, KeepScript, taskVars, historyVars, Goto
<1>0. ChecksEnd /\ check'[f][0] = NoCheck
  BY ChecksEnding DEF Collected, CheckPasses, CheckHalts
<1>1. DomainInv' /\ (left \subseteq Frames)'
  BY <1>0 DEF Collected, DomainInv, ChecksEnd
<1>2. CheckInv'
  BY <1>0 DEF Collected, DomainInv, CheckInv, Checks, ChecksEnd, NoCheck, Waiting
<1>3. FrameInv'
  BY <1>0 DEF Collected, DomainInv, FrameInv, Parts, Awaited, Left
<1>4. NestInv'
  BY <1>0 DEF Collected, DomainInv, NestInv, Runs, FrameInv, Parts
<1>5. StopInv'
  BY <1>0 DEF Collected, DomainInv, StopInv
<1>6. HaltInv'
  BY <1>0 DEF Collected, DomainInv, HaltInv, FrameInv, CheckInv, Checks, Stuck, Failing, ChecksEnd, NoCheck
<1> QED  BY <1>1, <1>2, <1>3, <1>4, <1>5, <1>6 DEF Rest

LEMMA ErrorKeepsRest ==
  ASSUME IInv, NEW f \in Frames, Raise(f, "error"),
         \/ at[f] = "script"
         \/ at[f] = "awaiting" /\ \A i \in Items[f] : task[f][i] \notin Halts \cup OnThread,
         turn[f] = 0, UNCHANGED <<stop, status, call, taskVars, check>>
  PROVE  Rest'
<1> USE DEF IInv, taskVars, Raise, Goto, Halted
<1>0. status[f] # "completed"
  BY DEF FrameInv
<1>1. DomainInv' /\ (left \subseteq Frames)'
  BY DEF DomainInv
<1>2. CheckInv'
  BY DEF DomainInv, CheckInv, Checks
<1>3. FrameInv'
  <2>1. Left(f) = {}
    BY DEF FrameInv, Parts, Left
  <2> QED  BY <1>0, <2>1 DEF DomainInv, FrameInv, Parts, Awaited, Left
<1>4. NestInv'
  BY DEF DomainInv, NestInv, Runs
<1>5. StopInv'
  BY DEF DomainInv, StopInv
<1>6. HaltInv'
  <2>1. \A g \in Frames :
           /\ Stuck(g) => Stuck(g)'
           /\ Failing(g) => Failing(g)'
           /\ status'[g] = "completed" => status[g] = "completed"
           /\ at'[g] = "over" => at[g] = "over"
           /\ Checks(g, 0)' => check'[g][0].step = "none" \/
                               (Checks(g, 0) /\ check'[g][0] = check[g][0])
    BY <1>0 DEF DomainInv, Stuck, Failing, Checks
  <2>2. halted' = halted /\ left' = left
    OBVIOUS
  <2> QED  BY <2>1, <2>2, HaltsStay
<1> QED  BY <1>1, <1>2, <1>3, <1>4, <1>5, <1>6 DEF Rest

LEMMA AwaitRaisesKeepsRest ==
  ASSUME IInv, NEW f \in Frames, AwaitRaises(f)
  PROVE  Rest'
<1>1. PICK i \in Awaited(f) :
         \/ call[f] = "await" /\ task[f][i] = "failed" /\ Raise(f, "error")
         \/ task[f][i] \in Halts /\ (Raise(f, task[f][i]) \/ Leave(f, task[f][i]))
  BY DEF AwaitRaises
<1>2. /\ at[f] = "awaiting" /\ turn[f] = 0
      /\ UNCHANGED <<stop, status, call, taskVars, check>>
  BY DEF AwaitRaises, Waiting, KeepScript
<1>3. check[f][0].step = "none" /\ ChecksEnd
  BY <1>2, ChecksKept DEF IInv, CheckInv, Checks
<1>4. CASE call[f] = "await" /\ task[f][i] = "failed" /\ Raise(f, "error")
  <2>1. \A j \in Items[f] : task[f][j] \notin Halts \cup OnThread
    BY <1>1, <1>2, <1>4 DEF IInv, FrameInv, Awaited
  <2> QED  BY <1>2, <1>4, <2>1, ErrorKeepsRest
<1>5. CASE task[f][i] \in Halts /\ (Raise(f, task[f][i]) \/ Leave(f, task[f][i]))
  <2>1. Raising(f, task[f][i])
    BY <1>5 DEF Raise, Leave, Halted, Goto, Raising
  <2>2. task[f][i] = "stop" => stop
    BY <1>1 DEF IInv, StopInv, Awaited
  <2> QED  BY <1>2, <1>3, <1>5, <2>1, <2>2, RaisingKeepsRest
<1> QED  BY <1>1, <1>4, <1>5

LEMMA ScriptEndsKeepsRest ==
  ASSUME IInv, NEW f \in Frames, ScriptEnds(f)
  PROVE  Rest'
<1>1. /\ at[f] = "script" /\ turn[f] = 0 /\ check[f][0].step = "none"
      /\ UNCHANGED <<stop, status, call, taskVars, check>>
  BY DEF ScriptEnds, KeepScript, IInv, CheckInv, Checks
<1>2. ChecksEnd
  BY <1>1, ChecksKept DEF IInv
<1>3. CASE Goto(f, "returning") /\ UNCHANGED <<raised, left, halted>>
  <2> USE <1>1, <1>3 DEF IInv, Goto, taskVars
  <2>1. DomainInv' /\ CheckInv' /\ FrameInv' /\ (left \subseteq Frames)'
    BY DEF DomainInv, CheckInv, Checks, FrameInv, Parts, Awaited, Left
  <2>2. NestInv' /\ StopInv'
    BY DEF DomainInv, NestInv, Runs, StopInv
  <2>3. HaltInv'
    BY DEF DomainInv, HaltInv, Checks, Stuck, Failing
  <2> QED  BY <2>1, <2>2, <2>3 DEF Rest
<1>4. CASE Raise(f, "error")
  BY <1>1, <1>4, ErrorKeepsRest
<1>5. CASE Raise(f, "limit") \/ Leave(f, "limit")
  <2>1. Raising(f, "limit")
    BY <1>5 DEF Raise, Leave, Halted, Goto, Raising
  <2> QED  BY <1>1, <1>2, <2>1, RaisingKeepsRest
<1> QED  BY <1>3, <1>4, <1>5 DEF ScriptEnds

LEMMA CompleteKeepsRest ==
  ASSUME IInv, NEW f \in Frames, Complete(f)
  PROVE  Rest'
<1> USE DEF IInv, KeepScript, taskVars, historyVars, Goto
<1>0. ChecksEnd /\ check'[f][0] = NoCheck
  BY ChecksEnding DEF Complete, CheckPasses, CheckHalts
<1>1. DomainInv' /\ (left \subseteq Frames)'
  BY <1>0 DEF Complete, End, CheckPasses, DomainInv, ChecksEnd
<1>2. CheckInv'
  BY <1>0 DEF Complete, End, CheckPasses, DomainInv, CheckInv, Checks, ChecksEnd, NoCheck, Waiting
<1>3. FrameInv'
  BY <1>0 DEF Complete, End, CheckPasses, DomainInv, FrameInv, Parts, Awaited, Left
<1>4. NestInv'
  BY <1>0 DEF Complete, End, CheckPasses, DomainInv, NestInv, Runs, FrameInv, Parts
<1>5. StopInv'
  BY <1>0 DEF Complete, End, CheckPasses, DomainInv, StopInv
<1>6. HaltInv'
  BY <1>0 DEF Complete, End, CheckPasses, DomainInv, HaltInv, FrameInv, CheckInv, Checks, Stuck, Failing, ChecksEnd, NoCheck
<1> QED  BY <1>1, <1>2, <1>3, <1>4, <1>5, <1>6 DEF Rest

LEMMA FailKeepsRest ==
  ASSUME IInv, NEW f \in Frames, Fail(f)
  PROVE  Rest'
<1> USE DEF IInv, KeepScript, taskVars, historyVars, Goto
<1>0. ChecksEnd
  BY ChecksKept DEF Fail
<1>1. DomainInv' /\ (left \subseteq Frames)'
  BY <1>0 DEF Fail, End, DomainInv, ChecksEnd
<1>2. CheckInv'
  BY <1>0 DEF Fail, End, DomainInv, CheckInv, Checks, ChecksEnd, NoCheck, Waiting
<1>3. FrameInv'
  BY <1>0 DEF Fail, End, DomainInv, FrameInv, Parts, Awaited, Left
<1>4. NestInv'
  BY <1>0 DEF Fail, End, DomainInv, NestInv, Runs, FrameInv, Parts
<1>5. StopInv'
  BY <1>0 DEF Fail, End, DomainInv, StopInv
<1>6. HaltInv'
  BY <1>0 DEF Fail, End, DomainInv, HaltInv, FrameInv, CheckInv, Checks, Stuck, Failing, ChecksEnd, NoCheck
<1> QED  BY <1>1, <1>2, <1>3, <1>4, <1>5, <1>6 DEF Rest

LEMMA RunEndsKeepsRest ==
  ASSUME IInv, RunEnds PROVE Rest'
<1> USE DEF IInv, RunEnds, KeepScript, taskVars, historyVars, Goto
<1>1. DomainInv' /\ CheckInv' /\ FrameInv' /\ (left \subseteq Frames)'
  BY DEF DomainInv, CheckInv, Checks, FrameInv, Parts, Awaited, Left
<1>2. NestInv' /\ StopInv'
  BY DEF DomainInv, NestInv, Runs, StopInv
<1>3. HaltInv'
  BY DEF DomainInv, HaltInv, Checks, Stuck, Failing
<1> QED  BY <1>1, <1>2, <1>3 DEF Rest

-----------------------------------------------------------------------------
(* Items that go on. *)
LEMMA TakeTurnKeepsRest ==
  ASSUME IInv, NEW f \in Frames, NEW i \in Items[f], TakeTurn(f, i)
  PROVE  Rest'
<1> USE DEF IInv, TakeTurn, Waiting, KeepScript, frameVars, historyVars
<1>1. SetCheck(f, 0, [check[f][0] EXCEPT !.step = "passed"])
  BY CheckUpdate
<1>2. DomainInv' /\ FrameInv' /\ (left \subseteq Frames)'
  BY <1>1 DEF SetCheck, DomainInv, FrameInv, Parts, Awaited, Left
<1>3. CheckInv'
  BY <1>1 DEF SetCheck, DomainInv, CheckInv, Checks
<1>4. NestInv' /\ StopInv'
  BY DEF NestInv, Runs, StopInv
<1>5. HaltInv'
  BY <1>1 DEF SetCheck, HaltInv, Checks, Stuck, Failing
<1> QED  BY <1>2, <1>3, <1>4, <1>5 DEF Rest

(* An item that is not settled goes to another thread, or comes from one. *)
LEMMA GoingOnKeepsRest ==
  ASSUME IInv, NEW f \in Frames, NEW i \in Items[f],
         NEW s \in {"started", "admitting", "running"}, task' = [task EXCEPT ![f][i] = s],
         task[f][i] \in {"ready", "started", "admitting"},
         at[f] = "awaiting" \/ task[f][i] = "admitting",
         \/ turn' = turn /\ task[f][i] # "ready"
         \/ turn' = [turn EXCEPT ![f] = 0] /\ check'[f][0].step = "none",
         ChecksEnd, UNCHANGED <<stop, frameVars, caller, left, halted>>
  PROVE  Rest'
<1> USE DEF IInv, frameVars
<1>1. SetTask(f, i, s)
  BY TaskUpdate
<1>2. DomainInv' /\ (left \subseteq Frames)'
  BY <1>1 DEF DomainInv, SetTask, ChecksEnd
<1>3. CheckInv'
  BY <1>1 DEF CheckInv, Checks, SetTask, ChecksEnd, NoCheck, DomainInv
<1>4. FrameInv'
  <2>1. /\ at[f] \in {"awaiting", "returning", "failing"} \cup Final /\ ~Parts(f)
        /\ at[f] = "awaiting" \/ halted # {}
    BY DEF FrameInv, Parts, Left
  <2>2. \A g \in Frames : g # f => Parts(g)' = Parts(g) /\ Awaited(g)' = Awaited(g) /\ Left(g)' = Left(g)
    BY <1>1 DEF Parts, Awaited, Left, SetTask
  <2>3. Awaited(f)' = Awaited(f)
    BY <1>1 DEF Awaited, SetTask
  <2> QED  BY <2>1, <2>2, <2>3 DEF FrameInv
<1>5. NestInv' /\ StopInv'
  BY <1>1 DEF NestInv, StopInv, Runs, SetTask
<1>6. HaltInv'
  <2>1. \A g \in Frames : /\ Stuck(g) => Stuck(g)'
                          /\ Failing(g) => Failing(g)'
    BY <1>1 DEF Stuck, Failing, SetTask
  <2>2. \A g \in Frames : check'[g][0].step = "none" \/ check'[g][0] = check[g][0]
    BY DEF ChecksEnd, NoCheck
  <2>3. \A g \in Frames :
           /\ Stuck(g) => Stuck(g)'
           /\ Failing(g) => Failing(g)'
           /\ status'[g] = "completed" => status[g] = "completed"
           /\ at'[g] = "over" => at[g] = "over"
           /\ Checks(g, 0)' => check'[g][0].step = "none" \/
                               (Checks(g, 0) /\ check'[g][0] = check[g][0])
    <3> TAKE g \in Frames
    <3>2. at' = at /\ status' = status
      OBVIOUS
    <3> QED  BY <2>1, <2>2, <3>2 DEF Checks, Stuck, Failing
  <2> QED  BY <2>3, HaltsStay
<1> QED  BY <1>2, <1>3, <1>4, <1>5, <1>6 DEF Rest

LEMMA CallWorkflowKeepsRest ==
  ASSUME IInv, NEW i \in Items[Root], NEW n \in Nested, CallWorkflow(i, n)
  PROVE  Rest'
<1> USE DEF IInv, CallWorkflow, Started, KeepScript, historyVars
<1>1. SetTask(Root, i, "nesting")
  BY TaskUpdate
<1>2. DomainInv' /\ (left \subseteq Frames)'
  BY <1>1 DEF DomainInv, SetTask
<1>3. CheckInv'
  BY <1>1 DEF CheckInv, Checks, SetTask, DomainInv
<1>4. FrameInv'
  BY <1>1 DEF FrameInv, Parts, Awaited, Left, SetTask, DomainInv
<1>5. NestInv'
  BY <1>1 DEF NestInv, Runs, SetTask, DomainInv
<1>6. StopInv'
  BY <1>1 DEF StopInv, SetTask
<1>7. HaltInv'
  <2>1. \A g \in Frames : /\ Stuck(g) => Stuck(g)'
                          /\ Failing(g) => Failing(g)'
    BY <1>1 DEF Stuck, Failing, SetTask, DomainInv
  <2>2. check[n][0].step = "none"
    BY DEF CheckInv, Checks
  <2>3. \A g \in Frames : g # n => at'[g] = at[g] /\ status'[g] = status[g]
    BY DEF DomainInv
  <2>4. at'[n] = "entering" /\ status'[n] = "running"
    BY DEF DomainInv
  <2>5. \A g \in Frames :
           /\ Stuck(g) => Stuck(g)'
           /\ Failing(g) => Failing(g)'
           /\ status'[g] = "completed" => status[g] = "completed"
           /\ at'[g] = "over" => at[g] = "over"
           /\ Checks(g, 0)' => check'[g][0].step = "none" \/
                               (Checks(g, 0) /\ check'[g][0] = check[g][0])
    <3> TAKE g \in Frames
    <3>2. check' = check
      OBVIOUS
    <3> QED  BY <2>1, <2>2, <2>3, <2>4, <3>2 DEF Checks, Stuck, Failing
  <2> QED  BY <2>5, HaltsStay
<1> QED  BY <1>2, <1>3, <1>4, <1>5, <1>6, <1>7 DEF Rest

(* A nested frame ends; the item that waited for it has its halt. *)
LEMMA NestedEndsKeepsRest ==
  ASSUME IInv, NEW n \in Nested, NestedEnds(n)
  PROVE  Rest'
<1> DEFINE i == caller[n]
           outcome == IF status[n] = "completed" THEN "value" ELSE raised[n]
<1> USE DEF IInv
<1>1. /\ at[n] = "joining" /\ n \in Frames /\ Root \in Frames /\ n # Root
      /\ at' = [at EXCEPT ![n] = "over"]
      /\ UNCHANGED <<stop, status, raised, call, turn, caller, check>>
  BY DEF NestedEnds, Goto, KeepScript
<1>2. /\ i \in Items[Root] /\ task[Root][i] = "nesting"
      /\ \A m \in Nested : Runs(m) /\ caller[m] = i => m = n
  BY <1>1 DEF NestInv, Runs
<1>3. Settling(Root, i, outcome)
  BY <1>1, <1>2, SettleIsSettling DEF NestedEnds
<1>4. PICK s \in {"cancelled", "value", "ready", "failed"} \cup Halts :
        /\ SetTask(Root, i, s)
        /\ s \in Halts => s = outcome
        /\ outcome \in Halts /\ at[Root] = "awaiting" => s = outcome \/ Root \in left'
  BY <1>3 DEF Settling
<1>5. left \subseteq left' /\ left' \subseteq left \cup {Root}
  BY <1>3 DEF Settling
<1>6. outcome = "stop" => stop
  BY <1>1 DEF StopInv
<1> HIDE DEF i, outcome
<1>7. at'[n] = "over" /\ \A g \in Frames : g # n => at'[g] = at[g]
  BY <1>1 DEF DomainInv
<1>8. DomainInv' /\ (left \subseteq Frames)'
  BY <1>1, <1>4, <1>5 DEF DomainInv, SetTask
<1>9. CheckInv'
  BY <1>1, <1>2, <1>4, <1>7 DEF CheckInv, Checks, SetTask
<1>10. FrameInv'
  <2>1. /\ \A g \in Frames : Left(g)' \subseteq Left(g) /\ (Parts(g) => Parts(g)')
        /\ halted \subseteq halted'
    <3>1. \A g \in Frames : Left(g)' \subseteq Left(g)
      BY <1>4 DEF Left, SetTask
    <3>2. \A g \in Frames : Parts(g) => Parts(g)'
      BY <1>2, <1>4 DEF Parts, SetTask
    <3>3. halted \subseteq halted'
      BY <1>3 DEF Settling
    <3> QED  BY <3>1, <3>2, <3>3
  <2>2. \A g \in Frames : Awaited(g)' \subseteq Awaited(g)
    BY <1>2, <1>4 DEF Awaited, SetTask
  <2>3. \A g \in Frames : at'[g] = at[g] \/ (g = n /\ at'[g] = "over")
    BY <1>7
  <2> QED  BY <1>1, <1>5, <2>1, <2>2, <2>3 DEF FrameInv
<1>11. NestInv' /\ StopInv'
  BY <1>1, <1>2, <1>4, <1>6, <1>7 DEF NestInv, StopInv, Runs, SetTask, i
<1>12. HaltInv'
  <2> SUFFICES ASSUME NEW h \in halted'
               PROVE  /\ h.frame \in Frames /\ h.what \in Halts
                      /\ h.what = "stop" => /\ stop' /\ status'[h.frame] # "completed"
                                            /\ Checks(h.frame, 0)' => check'[h.frame][0].step = "none"
                      /\ h.frame \in left' \/ Stuck(h.frame)'
                      /\ left' = {} /\ h.frame # Root /\ at'[h.frame] = "over" =>
                           Stuck(Root)' \/ Failing(Root)'
    BY DEF HaltInv
  <2>1. \A g \in Frames : (Stuck(g) => Stuck(g)') /\ (Failing(g) => Failing(g)')
    BY <1>1, <1>2, <1>4, <1>7 DEF Stuck, Failing, SetTask
  <2>2. outcome \in Halts /\ left' = {} => Stuck(Root)' \/ Failing(Root)'
    <3>1. CASE at[Root] = "awaiting"
      BY <1>1, <1>2, <1>4, <1>7, <3>1 DEF Stuck, SetTask
    <3>2. CASE at[Root] # "awaiting" /\ left = {}
      <4>1. ~Parts(Root) /\ Left(Root) # {}
        BY <1>2 DEF Parts, Left
      <4>2. at[Root] \in {"failing", "joining", "over"} /\ status[Root] # "completed"
        BY <1>1, <3>2, <4>1 DEF FrameInv
      <4> QED  BY <1>1, <1>7, <4>2 DEF Failing
    <3> QED  BY <1>5, <3>1, <3>2
  <2>3. CASE h \in halted /\ h.frame = n
    <3>1. h.what \in Halts /\ (h.what = "stop" => stop /\ status[n] # "completed")
      BY <2>3 DEF HaltInv
    <3>2. n \in left \/ (Stuck(n) /\ outcome \in Halts)
      BY <1>1, <2>3 DEF HaltInv, Stuck, Failing, outcome
    <3>3. ~Checks(n, 0)'
      BY <1>7 DEF Checks
    <3> QED  BY <1>1, <1>5, <2>1, <2>2, <2>3, <3>1, <3>2, <3>3
  <2>4. CASE h \in halted /\ h.frame # n
    <3>1. h.frame \in Frames /\ at'[h.frame] = at[h.frame]
      BY <1>7, <2>4 DEF HaltInv
    <3> QED  BY <1>1, <1>5, <2>1, <2>4, <3>1 DEF HaltInv, Checks
  <2>5. CASE h \notin halted
    <3>1. /\ h = [frame |-> Root, what |-> outcome]
          /\ outcome \in Halts /\ at[Root] = "awaiting"
      BY <1>3, <2>5 DEF Settling
    <3>2. Root \in left' \/ Stuck(Root)'
      BY <1>1, <1>2, <1>4, <1>7, <3>1 DEF Stuck, SetTask
    <3>3. ~Checks(Root, 0)' /\ status[Root] # "completed"
      BY <1>1, <1>7, <3>1 DEF Checks, FrameInv
    <3> QED  BY <1>1, <1>6, <3>1, <3>2, <3>3
  <2> QED  BY <2>3, <2>4, <2>5
<1> QED  BY <1>8, <1>9, <1>10, <1>11, <1>12 DEF Rest

-----------------------------------------------------------------------------
(* The invariant. *)
LEMMA InitHasIInv == ASSUME Init PROVE IInv
<1> USE DEF Init
<1>1. DomainInv
  BY DEF DomainInv
<1>2. ClockInv
  BY DEF ClockInv, PausedSeconds, NoCheck
<1>3. CheckInv
  BY DEF CheckInv, NoCheck
<1>4. FrameInv
  BY DEF FrameInv, Parts, Awaited, Left
<1>5. NestInv /\ StopInv /\ HaltInv
  BY DEF NestInv, Runs, StopInv, HaltInv
<1>6. DeadlineCountsWork
  BY DEF DeadlineCountsWork
<1> QED  BY <1>1, <1>2, <1>3, <1>4, <1>5, <1>6 DEF IInv

(* What the steps of a frame and of its items do to time. *)
LEMMA ScriptStepsKeepTime ==
  ASSUME IInv, NEW f \in Frames, ScriptStep(f)
  PROVE  TimeKept
<1>1. 0 \in Threads(f) /\ UNCHANGED <<gate, clock, worked>>
  BY DEF ScriptStep, Enter, LoopHalts, Gather, Collect, Collected, AwaitRaises, ScriptEnds,
         Complete, Fail, End, Call, KeepScript, clockVars
<1>2. \/ UNCHANGED <<check, expired>>
      \/ CheckPasses(f, 0) /\ UNCHANGED expired
      \/ CheckHalts(f, 0)
  BY DEF ScriptStep, Enter, LoopHalts, Gather, Collect, Collected, AwaitRaises, ScriptEnds,
         Complete, Fail, End, Call, historyVars
<1> QED  BY <1>1, <1>2, ChecksKeepTime

LEMMA ItemStepsKeepTime ==
  ASSUME IInv, NEW f \in Frames, NEW i \in Items[f], ItemStep(f, i)
  PROVE  TimeKept
<1>1. 0 \in Threads(f) /\ i \in Threads(f) /\ UNCHANGED <<gate, clock, worked>>
  BY DEF ItemStep, TakeTurn, StartItem, ItemHalts, Compute, CallAgent, AdmissionHalts, Admit,
         AgentEnds, NestTooDeep, KeepScript, clockVars
<1>2. CASE TakeTurn(f, i)
  <2>1. SetCheck(f, 0, [check[f][0] EXCEPT !.step = "passed"])
    BY <1>1, <1>2, CheckUpdate DEF IInv, TakeTurn
  <2>2. [check[f][0] EXCEPT !.step = "passed"].now \in {0, check[f][0].now}
    BY <1>1 DEF IInv, ClockInv
  <2> QED  BY <1>1, <1>2, <2>1, <2>2 DEF TakeTurn, historyVars, TimeKept, SetCheck
<1>3. CASE ~TakeTurn(f, i)
  <2>1. \/ UNCHANGED <<check, expired>>
        \/ \E j \in {0, i} : (CheckPasses(f, j) /\ UNCHANGED expired) \/ CheckHalts(f, j)
    BY <1>3 DEF ItemStep, StartItem, ItemHalts, Compute, CallAgent, AdmissionHalts, Admit,
                AgentEnds, NestTooDeep, historyVars
  <2> QED  BY <1>1, <2>1, ChecksKeepTime
<1> QED  BY <1>2, <1>3

LEMMA ScriptStepsKeepRest ==
  ASSUME IInv, NEW f \in Frames, ScriptStep(f)
  PROVE  Rest'
  BY FormsAssumption, EnterKeepsRest, LoopHaltsKeepsRest, GatherKeepsRest, CollectKeepsRest,
     CollectedKeepsRest, AwaitRaisesKeepsRest, ScriptEndsKeepsRest, CompleteKeepsRest,
     FailKeepsRest, CallKeepsRest DEF ScriptStep

LEMMA ItemStepsKeepRest ==
  ASSUME IInv, NEW f \in Frames, NEW i \in Items[f], ItemStep(f, i)
  PROVE  Rest'
<1> USE DEF KeepScript, frameVars
<1>1. DomainInv /\ 0 \in Threads(f) /\ i \in Threads(f) /\ i # 0
  BY DEF IInv
<1>2. turn[f] = i => at[f] = "awaiting" /\ task[f][i] = "ready"
  BY <1>1 DEF IInv, CheckInv
<1>3. check' = check => ChecksEnd
  BY <1>1, ChecksKept
<1>4. \A j \in {0, i} : EndCheck(f, j) => ChecksEnd /\ check'[f][j].step = "none"
  BY <1>1, ChecksEnding DEF NoCheck
<1>5. \A outcome : Settle(f, i, outcome) \/ SettleItem(f, i, outcome) => Settling(f, i, outcome)
  BY <1>1, SettleIsSettling
<1>6. CASE TakeTurn(f, i)
  BY <1>6, TakeTurnKeepsRest
<1>7. CASE StartItem(f, i)
  <2>1. ChecksEnd /\ check'[f][0].step = "none"
    BY <1>4, <1>7 DEF StartItem, CheckPasses
  <2> QED  BY <1>2, <1>7, <2>1, GoingOnKeepsRest DEF StartItem, historyVars
<1>8. CASE CallAgent(f, i)
  BY <1>3, <1>8, GoingOnKeepsRest DEF CallAgent, Started, historyVars
<1>9. CASE Admit(f, i)
  <2>1. ChecksEnd
    BY <1>4, <1>9 DEF Admit, CheckPasses
  <2>2. CASE SettleItem(f, i, "limit")
    <3>1. Settling(f, i, "limit")
      BY <1>5, <2>2
    <3> QED  BY <1>9, <2>1, <3>1, SettlingKeepsRest DEF Admit
  <2>3. CASE task' = [task EXCEPT ![f][i] = "running"] /\ UNCHANGED <<left, halted>>
    BY <1>9, <2>1, <2>3, GoingOnKeepsRest DEF Admit
  <2> QED  BY <1>9, <2>2, <2>3 DEF Admit
<1>10. CASE ItemHalts(f, i)
  <2>1. Settling(f, i, Halt) /\ task[f][i] = "ready"
    BY <1>2, <1>5, <1>10 DEF ItemHalts
  <2>2. ChecksEnd /\ check'[f][0].step = "none"
    <3>1. CASE CheckHalts(f, 0)
      BY <1>4, <3>1 DEF CheckHalts
    <3>2. CASE Waiting(f) /\ check' = check
      BY <1>1, <1>3, <3>2 DEF IInv, CheckInv, Checks, Waiting
    <3> QED  BY <1>10, <3>1, <3>2 DEF ItemHalts
  <2> QED  BY <1>10, <2>1, <2>2, SettlingKeepsRest DEF ItemHalts, Halt
<1>11. CASE Compute(f, i)
  <2>1. PICK outcome \in {"value", "error", "limit"} : SettleItem(f, i, outcome)
    BY <1>11 DEF Compute
  <2>2. Settling(f, i, outcome)
    BY <1>5, <2>1
  <2> QED  BY <1>3, <1>11, <2>2, SettlingKeepsRest DEF Compute, Started
<1>12. CASE AdmissionHalts(f, i)
  <2>1. Settling(f, i, Halt) /\ ChecksEnd
    BY <1>4, <1>5, <1>12 DEF AdmissionHalts, CheckHalts
  <2> QED  BY <1>12, <2>1, SettlingKeepsRest DEF AdmissionHalts, Halt
<1>13. CASE AgentEnds(f, i)
  <2>1. PICK outcome \in {"value", "error", Halt} : Settling(f, i, outcome)
    BY <1>5, <1>13 DEF AgentEnds
  <2> QED  BY <1>3, <1>13, <2>1, SettlingKeepsRest DEF AgentEnds, Halt
<1>14. CASE NestTooDeep(f, i)
  <2>1. Settling(f, i, "error")
    BY <1>5, <1>14 DEF NestTooDeep
  <2> QED  BY <1>3, <1>14, <2>1, SettlingKeepsRest DEF NestTooDeep, Started
<1> QED  BY <1>6, <1>7, <1>8, <1>9, <1>10, <1>11, <1>12, <1>13, <1>14 DEF ItemStep

LEMMA NextKeepsIInv ==
  ASSUME IInv, [Next]_vars
  PROVE  IInv'
<1>1. SUFFICES ClockInv' /\ DeadlineCountsWork' /\ Rest'
  BY DEF IInv, Rest
<1>2. CASE UNCHANGED vars
  <2>1. TimeKept
    BY <1>2, ChecksKeepTime DEF vars, clockVars, historyVars
  <2>2. Rest'
    BY <1>2, ClockStepsKeepRest DEF vars, historyVars
  <2> QED  BY <2>1, <2>2, TimeKeptIsEnough
<1>3. CASE ClockStep
  <2>1. Rest'
    BY <1>3, ClockStepsKeepRest DEF ClockStep, Tick, Pause, Resume, Stop, historyVars
  <2> QED  BY <1>3, <2>1, ClockStepsKeepTime
<1>4. CASE RunEnds
  <2>1. TimeKept
    BY <1>4, ChecksKeepTime DEF RunEnds, KeepScript, clockVars, historyVars
  <2> QED  BY <1>4, <2>1, TimeKeptIsEnough, RunEndsKeepsRest
<1>5. ASSUME NEW f \in Frames, ScriptStep(f)
      PROVE  ClockInv' /\ DeadlineCountsWork' /\ Rest'
  BY <1>5, ScriptStepsKeepTime, TimeKeptIsEnough, ScriptStepsKeepRest
<1>6. ASSUME NEW f \in Frames, CheckStep(f)
      PROVE  ClockInv' /\ DeadlineCountsWork' /\ Rest'
  BY <1>6, CheckStepsKeepTime, CheckStepsKeepRest DEF CheckStep
<1>7. ASSUME NEW f \in Frames, NEW i \in Items[f], ItemStep(f, i)
      PROVE  ClockInv' /\ DeadlineCountsWork' /\ Rest'
  BY <1>7, ItemStepsKeepTime, TimeKeptIsEnough, ItemStepsKeepRest
<1>8. ASSUME NEW n \in Nested, NestedEnds(n)
      PROVE  ClockInv' /\ DeadlineCountsWork' /\ Rest'
  <2>1. TimeKept
    BY <1>8, ChecksKeepTime DEF NestedEnds, KeepScript, clockVars
  <2> QED  BY <1>8, <2>1, TimeKeptIsEnough, NestedEndsKeepsRest
<1>9. ASSUME NEW n \in Nested, NEW i \in Items[Root], CallWorkflow(i, n)
      PROVE  ClockInv' /\ DeadlineCountsWork' /\ Rest'
  <2>1. TimeKept
    BY <1>9, ChecksKeepTime DEF CallWorkflow, KeepScript, clockVars, historyVars
  <2> QED  BY <1>9, <2>1, TimeKeptIsEnough, CallWorkflowKeepsRest
<1> QED  BY <1>2, <1>3, <1>4, <1>5, <1>6, <1>7, <1>8, <1>9 DEF Next

THEOREM Inductive == Spec => []IInv
<1>1. Init => IInv
  BY InitHasIInv
<1>2. IInv /\ [Next]_vars => IInv'
  BY NextKeepsIInv
<1> QED  BY <1>1, <1>2, PTL DEF Spec

-----------------------------------------------------------------------------
(* A halt that a script or an item meets - a stop, the deadline, a limit of *)
(* agents, tokens or loop turns - ends the script it is met in, and the run *)
(* unless a finally clause drops it: no item that becomes None, no except   *)
(* clause and no thread swallows it (api.py:623-662, 703-717;               *)
(* runtime.py:171-188; sandbox.py:313-332).                                 *)
THEOREM HaltsEndRuns == Spec => []HaltEndsTheRun
<1>1. ASSUME IInv PROVE HaltEndsTheRun
  <2> USE <1>1 DEF IInv
  <2>1. ASSUME NEW h \in halted, h.what = "stop" \/ h.frame \notin left
        PROVE  status[h.frame] # "completed"
    BY <2>1 DEF HaltInv, Stuck, Failing, FrameInv
  <2>2. ASSUME NEW h \in halted, left = {}
        PROVE  status[Root] # "completed"
    <3>1. h.frame \in Frames /\ Stuck(h.frame)
      BY <2>2 DEF HaltInv
    <3>2. CASE h.frame = Root
      BY <3>1, <3>2 DEF Stuck, Failing, FrameInv
    <3>3. CASE h.frame # Root /\ at[h.frame] = "over"
      BY <2>2, <3>3 DEF HaltInv, Stuck, Failing, FrameInv
    <3>4. CASE h.frame # Root /\ at[h.frame] # "over"
      <4>1. Runs(h.frame) /\ h.frame \in Nested
        BY <3>1, <3>4 DEF Runs, Stuck, Failing
      <4>2. ~Parts(Root)
        BY <4>1 DEF NestInv, Parts
      <4> QED  BY <2>2, <4>2 DEF FrameInv
    <3> QED  BY <3>2, <3>3, <3>4
  <2> QED  BY <2>1, <2>2 DEF HaltEndsTheRun
<1> QED  BY <1>1, Inductive, PTL

(* A script that completes had awaited its items and nested scripts to      *)
(* their end, and a run that completes leaves no agent() call and no nested *)
(* script behind, of its own or of a nested script, whether or not anything *)
(* waits for their threads: a thread that is not awaited has a halt before  *)
(* it (api.py:576, 662, 681, 703-717; runtime.py:101-102;                   *)
(* manager.py:554-602).                                                     *)
THEOREM PartsEnd == Spec => []PartsEndFirst
<1>1. ASSUME IInv, HaltEndsTheRun PROVE PartsEndFirst
  <2> USE <1>1 DEF IInv
  <2>1. ASSUME NEW f \in Frames, status[f] = "completed", f \notin left,
               NEW i \in Awaited(f)
        PROVE  task[f][i] \in Settled \cup {"idle"}
    BY <2>1 DEF FrameInv, Parts, Awaited
  <2>2. ASSUME status[Root] = "completed", left = {}
        PROVE  /\ \A f \in Frames : Left(f) = {}
               /\ \A n \in Nested : at[n] \in {"none", "over"}
    <3>1. halted = {}
      BY <2>2 DEF HaltEndsTheRun
    <3>2. Parts(Root)
      BY <2>2 DEF FrameInv
    <3>3. \A n \in Nested : at[n] \in {"none", "over"}
      BY <3>2 DEF NestInv, Runs, Parts
    <3>4. ASSUME NEW f \in Frames PROVE Left(f) = {}
      <4>1. CASE f = Root
        BY <3>2, <4>1 DEF Parts, Left
      <4>2. CASE f # Root
        BY <3>1, <3>3, <4>2 DEF FrameInv
      <4> QED  BY <4>1, <4>2
    <3> QED  BY <3>3, <3>4
  <2> QED  BY <2>1, <2>2 DEF PartsEndFirst
<1> QED  BY <1>1, Inductive, HaltsEndRuns, PTL

(* A deadline is found exceeded only when the run worked longer than its    *)
(* limit, whenever a pause begins or ends between the gate and the two      *)
(* readings of time (context.py:36-40, 169-178).                            *)
THEOREM PausesDoNotCount == Spec => []DeadlineCountsWork
<1>1. IInv => DeadlineCountsWork
  BY DEF IInv
<1> QED  BY <1>1, Inductive, PTL

-----------------------------------------------------------------------------
(* The types.  What they need beyond the invariant above is where an item   *)
(* may be when its script is over, and that every child pays for an         *)
(* admission of its own: those that still run have not paid.                *)
Statuses == {"none", "running", "completed", "stopped", "error"}
Ended == {"completed", "stopped", "error"}

TimeTypes ==
  /\ stop \in BOOLEAN /\ clock <= MaxClock /\ pauses \in 0 .. MaxPauses
  /\ ~gate.paused => gate.since = 0
  /\ expired \subseteq 0 .. MaxClock

FrameTypes ==
  /\ at \in [Frames -> Places] /\ status \in [Frames -> Statuses]
  /\ raised \in [Frames -> {"nothing", "error"} \cup Halts]
  /\ call \in [Frames -> CallForms \cup {"none"}] /\ calls \in [Frames -> 0 .. MaxCalls]
  /\ \A f \in Frames : status[f] \in Ended <=> at[f] \in Final
  /\ halted \subseteq [frame : Frames, what : Halts]

Placed == \A f \in Frames : at[f] \in Final => \A i \in Items[f] : task[f][i] \notin Unstarted

ItemTypes ==
  /\ caller \in [Nested -> {0} \cup Items[Root]]
  /\ DOMAIN stage = Frames /\ \A f \in Frames : DOMAIN stage[f] = Items[f]
  /\ \A f \in Frames : \A i \in Items[f] : task[f][i] \in TaskStates /\ stage[f][i] \in 1 .. Stages
  /\ Placed

Running == {p \in Frames \X UNION {Items[f] : f \in Frames} :
              p[2] \in Items[p[1]] /\ task[p[1]][p[2]] = "running"}

Spending ==
  /\ admitted \in 0 .. MaxAgents /\ spent \in Nat
  /\ IsFiniteSet(Running) /\ spent + Cardinality(Running) <= admitted

Types == TimeTypes /\ FrameTypes /\ ItemTypes /\ Spending

USE StagesAssumption
USE DEF Statuses, Ended, Places, TaskStates, CallForms

(* What a step of one item does to the types of the items. *)
StepItem(f, i, s) ==
  /\ SetTask(f, i, s)
  /\ s \in TaskStates /\ (s \in Unstarted => at[f] = "awaiting")

LEMMA ItemStepsKeepTypes ==
  ASSUME IInv, ItemTypes, NEW f \in Frames, NEW i \in Items[f], NEW s, StepItem(f, i, s),
         \/ stage' = stage
         \/ stage' = [stage EXCEPT ![f][i] = @ + 1] /\ stage[f][i] < Stages,
         \A g \in Frames : at'[g] \in Final => at[g] \in Final,
         caller' \in [Nested -> {0} \cup Items[Root]]
  PROVE  ItemTypes'
<1>1. /\ DOMAIN stage' = Frames /\ \A g \in Frames : DOMAIN stage'[g] = Items[g]
      /\ \A g \in Frames : \A j \in Items[g] : stage'[g][j] \in 1 .. Stages
  <2>1. CASE stage' = stage
    BY <2>1 DEF ItemTypes
  <2>2. CASE stage' = [stage EXCEPT ![f][i] = stage[f][i] + 1] /\ stage[f][i] < Stages
    <3>1. /\ DOMAIN stage' = DOMAIN stage /\ \A g \in DOMAIN stage : DOMAIN stage'[g] = DOMAIN stage[g]
          /\ stage'[f][i] = stage[f][i] + 1
          /\ \A g \in DOMAIN stage : \A j \in DOMAIN stage[g] : g # f \/ j # i => stage'[g][j] = stage[g][j]
      BY <2>2, NestedUpdate DEF ItemTypes
    <3>2. stage[f][i] + 1 \in 1 .. Stages
      BY <2>2 DEF ItemTypes
    <3> QED  BY <3>1, <3>2 DEF ItemTypes
  <2> QED  BY <2>1, <2>2
<1>2. \A g \in Frames : \A j \in Items[g] : task'[g][j] \in TaskStates
  BY DEF ItemTypes, StepItem, SetTask
<1>3. Placed'
  BY DEF ItemTypes, Placed, StepItem, SetTask
<1> QED  BY <1>1, <1>2, <1>3 DEF ItemTypes

(* Its state is then never "running", but for an admission. *)
Outcomes == {"cancelled", "value", "ready", "failed"} \cup Halts

LEMMA SettlingTypes ==
  ASSUME IInv, FrameTypes, NEW f \in Frames, NEW i \in Items[f], NEW outcome,
         Settle(f, i, outcome) \/ SettleItem(f, i, outcome)
  PROVE  /\ \E s \in Outcomes : StepItem(f, i, s)
         /\ \/ stage' = stage
            \/ stage' = [stage EXCEPT ![f][i] = @ + 1] /\ stage[f][i] < Stages
         /\ (halted \subseteq [frame : Frames, what : Halts])'
<1>1. \A what : After(f, i, what) \in Outcomes /\ (After(f, i, what) = "ready" =>
                   at[f] = "awaiting" /\ stage[f][i] < Stages)
  BY DEF After, Caught, Outcomes
<1>2. \A what : Halted(f, what) \subseteq [frame : Frames, what : Halts]
  BY DEF FrameTypes, Halted
<1>3. PICK what : /\ task' = [task EXCEPT ![f][i] = After(f, i, what)]
                  /\ stage' = IF After(f, i, what) = "ready" THEN [stage EXCEPT ![f][i] = @ + 1] ELSE stage
                  /\ halted' \in {halted, Halted(f, outcome)}
  BY DEF Settle, SettleItem
<1>4. SetTask(f, i, After(f, i, what))
  BY <1>3, TaskUpdate DEF IInv
<1>5. StepItem(f, i, After(f, i, what))
  BY <1>1, <1>4 DEF StepItem, Outcomes
<1> QED  BY <1>1, <1>2, <1>3, <1>5 DEF FrameTypes

-----------------------------------------------------------------------------
(* The items that run. *)
LEMMA RunningSame ==
  ASSUME \A g \in Frames : \A j \in Items[g] : task'[g][j] = "running" <=> task[g][j] = "running"
  PROVE  Running' = Running
<1>1. \A p \in Frames \X UNION {Items[g] : g \in Frames} :
         p[2] \in Items[p[1]] => (task'[p[1]][p[2]] = "running" <=> task[p[1]][p[2]] = "running")
  OBVIOUS
<1> QED  BY <1>1 DEF Running

LEMMA RunningAdds ==
  ASSUME NEW f \in Frames, NEW i \in Items[f], SetTask(f, i, "running"), task[f][i] # "running"
  PROVE  Running' = Running \cup {<<f, i>>} /\ <<f, i>> \notin Running
<1>1. <<f, i>> \in Frames \X UNION {Items[g] : g \in Frames}
  OBVIOUS
<1>2. \A p \in Frames \X UNION {Items[g] : g \in Frames} : p = <<f, i>> \/ p[1] # f \/ p[2] # i
  OBVIOUS
<1> QED  BY <1>1, <1>2 DEF Running, SetTask

LEMMA RunningDrops ==
  ASSUME NEW f \in Frames, NEW i \in Items[f], NEW s, SetTask(f, i, s), s # "running"
  PROVE  Running' = Running \ {<<f, i>>}
<1>1. \A p \in Frames \X UNION {Items[g] : g \in Frames} : p = <<f, i>> \/ p[1] # f \/ p[2] # i
  OBVIOUS
<1> QED  BY <1>1 DEF Running, SetTask

LEMMA SpendingSame ==
  ASSUME Spending, UNCHANGED agentVars,
         \A g \in Frames : \A j \in Items[g] : task'[g][j] = "running" <=> task[g][j] = "running"
  PROVE  Spending'
  BY RunningSame DEF Spending, agentVars

LEMMA SpendingDropped ==
  ASSUME Spending, NEW f \in Frames, NEW i \in Items[f], NEW s, SetTask(f, i, s), s # "running",
         admitted' = admitted,
         spent' = spent \/ (task[f][i] = "running" /\ spent' = spent + 1)
  PROVE  Spending'
<1>1. Running' = Running \ {<<f, i>>}
  BY RunningDrops
<1>2. CASE <<f, i>> \in Running
  <2>1. IsFiniteSet(Running') /\ Cardinality(Running') = Cardinality(Running) - 1
    BY <1>1, <1>2, FS_RemoveElement DEF Spending
  <2>2. Cardinality(Running) \in Nat
    BY FS_CardinalityType DEF Spending
  <2> QED  BY <2>1, <2>2 DEF Spending
<1>3. CASE <<f, i>> \notin Running
  <2>1. Running' = Running
    BY <1>1, <1>3
  <2>2. task[f][i] # "running"
    BY <1>3 DEF Running
  <2> QED  BY <2>1, <2>2 DEF Spending
<1> QED  BY <1>2, <1>3

-----------------------------------------------------------------------------
(* The types after each step: time. *)
LEMMA ClockStepsKeepTimeTypes ==
  ASSUME IInv, TimeTypes, ClockStep PROVE TimeTypes'
<1>1. clock \in Nat /\ gate \in [paused : BOOLEAN, since : Nat, before : Nat]
  BY DEF IInv, ClockInv
<1>2. CASE Tick
  BY <1>1, <1>2 DEF Tick, TimeTypes, historyVars
<1>3. CASE Pause
  BY <1>1, <1>3 DEF Pause, TimeTypes, historyVars
<1>4. CASE Resume \/ Stop
  <2>1. gate' = Opened /\ stop' \in {stop, TRUE} /\ UNCHANGED <<clock, pauses, historyVars>>
    BY <1>4 DEF Resume, Stop
  <2>2. gate'.since = 0
    BY <2>1 DEF Opened
  <2> QED  BY <2>1, <2>2 DEF TimeTypes, historyVars
<1> QED  BY <1>2, <1>3, <1>4 DEF ClockStep

LEMMA OtherStepsKeepTimeTypes ==
  ASSUME IInv, TimeTypes, TimeKept, UNCHANGED <<stop, pauses>> PROVE TimeTypes'
<1>1. worked \in 0 .. MaxClock
  BY DEF IInv, ClockInv, PausedSeconds, TimeTypes
<1> QED  BY <1>1 DEF TimeKept, TimeTypes

LEMMA CheckStepsKeepTypes ==
  ASSUME IInv, Types, NEW f \in Frames, NEW i \in Threads(f), PassGate(f, i) \/ ReadClock(f, i)
  PROVE  Types'
<1>1. UNCHANGED <<stop, clockVars, frameVars, taskVars, agentVars, historyVars>>
  BY DEF PassGate, ReadClock
<1>2. TimeTypes' /\ FrameTypes' /\ ItemTypes'
  BY <1>1 DEF Types, TimeTypes, FrameTypes, ItemTypes, Placed, clockVars, frameVars, taskVars, historyVars
<1>3. Spending'
  BY <1>1, SpendingSame DEF Types, taskVars
<1> QED  BY <1>2, <1>3 DEF Types

(* The script of a frame. *)
LEMMA ScriptStepsKeepFrameTypes ==
  ASSUME IInv, FrameTypes, NEW f \in Frames, ScriptStep(f)
  PROVE  FrameTypes'
<1> USE DEF Goto
<1>1. \A what : Halted(f, what) \subseteq [frame : Frames, what : Halts]
  BY DEF FrameTypes, Halted
<1>2. Halt \in Halts
  BY DEF Halt
<1>3. at[f] \notin Final => status[f] \notin Ended
  BY DEF FrameTypes
<1>4. CASE Enter(f) \/ Gather(f) \/ Collect(f) \/ Collected(f)
  <2>1. /\ \E place \in Places \ Final : at' = [at EXCEPT ![f] = place]
        /\ at[f] \notin Final /\ UNCHANGED <<status, raised, call, calls, halted>>
    BY <1>4 DEF Enter, Gather, Collect, Waiting, Collected, historyVars
  <2> QED  BY <1>3, <2>1 DEF FrameTypes
<1>5. CASE \E how \in Forms[f] : Call(f, how)
  <2>1. PICK how \in CallForms : Call(f, how)
    BY <1>5, FormsAssumption
  <2>2. \E place \in Places \ Final : at' = [at EXCEPT ![f] = place]
    BY <2>1 DEF Call
  <2>3. calls[f] + 1 \in 0 .. MaxCalls
    BY <2>1 DEF Call, FrameTypes
  <2>4. calls' \in [Frames -> 0 .. MaxCalls] /\ call' \in [Frames -> CallForms \cup {"none"}]
    BY <2>1, <2>3 DEF Call, FrameTypes
  <2> QED  BY <1>3, <2>1, <2>2, <2>4 DEF Call, FrameTypes, historyVars
<1>6. CASE LoopHalts(f) \/ AwaitRaises(f) \/ ScriptEnds(f)
  <2>1. at[f] \notin Final
    BY <1>6 DEF LoopHalts, CheckHalts, StopFound, Overdue, Checks, IInv, CheckInv, AwaitRaises,
                Waiting, ScriptEnds
  <2>2. UNCHANGED <<status, call, calls>>
    BY <1>6 DEF LoopHalts, AwaitRaises, ScriptEnds
  <2>3. \/ at' = [at EXCEPT ![f] = "returning"] /\ UNCHANGED <<raised, halted>>
        \/ \E what \in Halts \cup {"error"} : Raise(f, what) \/ Leave(f, what)
    BY <1>2, <1>6 DEF LoopHalts, AwaitRaises, ScriptEnds
  <2>4. /\ \E place \in Places \ Final : at' = [at EXCEPT ![f] = place]
        /\ raised' \in [Frames -> {"nothing", "error"} \cup Halts]
        /\ halted' \subseteq [frame : Frames, what : Halts]
    BY <1>1, <2>3 DEF Raise, Leave, FrameTypes
  <2> QED  BY <1>3, <2>1, <2>2, <2>4 DEF FrameTypes
<1>7. CASE Complete(f) \/ Fail(f)
  <2>1. \E how \in Ended : End(f, how)
    BY <1>7 DEF Complete, Fail
  <2> QED  BY <2>1 DEF End, FrameTypes, historyVars
<1> QED  BY <1>4, <1>5, <1>6, <1>7 DEF ScriptStep

LEMMA ScriptStepsKeepItemTypes ==
  ASSUME IInv, ItemTypes, Spending, NEW f \in Frames, ScriptStep(f)
  PROVE  ItemTypes' /\ Spending'
<1> USE DEF KeepScript, Goto
<1>0. UNCHANGED agentVars
  BY DEF ScriptStep, Enter, LoopHalts, Gather, Collect, Collected, AwaitRaises, ScriptEnds,
         Complete, Fail, End, Call
<1>1. CASE \/ Enter(f) \/ LoopHalts(f) \/ Collect(f) \/ Collected(f) \/ AwaitRaises(f)
           \/ ScriptEnds(f)
  <2>1. UNCHANGED taskVars /\ \E place \in Places \ Final : at' = [at EXCEPT ![f] = place]
    BY <1>1 DEF Enter, LoopHalts, Collect, Collected, AwaitRaises, ScriptEnds, Raise, Leave
  <2>2. \A g \in Frames : at'[g] \in Final => at[g] \in Final
    BY <2>1 DEF IInv, DomainInv
  <2>3. ItemTypes'
    BY <2>1, <2>2 DEF ItemTypes, Placed, taskVars
  <2> QED  BY <1>0, <2>1, <2>3, SpendingSame DEF taskVars
<1>2. CASE Gather(f)
  <2>1. /\ task' = [task EXCEPT ![f] = [i \in Items[f] |-> "ready"]] /\ UNCHANGED <<stage, caller>>
        /\ at[f] = "calling" /\ at' = [at EXCEPT ![f] = "awaiting"]
    BY <1>2 DEF Gather
  <2>2. ItemTypes'
    BY <2>1 DEF ItemTypes, Placed, IInv, DomainInv
  <2>3. Parts(f)
    BY <2>1 DEF IInv, FrameInv
  <2>4. \A g \in Frames : \A j \in Items[g] : task'[g][j] = "running" <=> task[g][j] = "running"
    BY <2>1, <2>3 DEF Parts, IInv, DomainInv
  <2> QED  BY <1>0, <2>2, <2>4, SpendingSame
<1>3. CASE \E how \in Forms[f] : Call(f, how)
  <2>1. PICK how \in CallForms : Call(f, how)
    BY <1>3, FormsAssumption
  <2>2. PICK one \in Items[f] : task' = [task EXCEPT ![f] =
           [i \in Items[f] |-> IF how = "await" /\ i = one THEN "started" ELSE "idle"]]
    BY <2>1 DEF Call
  <2>3. /\ stage' = [stage EXCEPT ![f] = [i \in Items[f] |-> 1]] /\ caller' = caller
        /\ at[f] = "script" /\ \E place \in Places \ Final : at' = [at EXCEPT ![f] = place]
    BY <2>1 DEF Call
  <2>4. \A g \in Frames : at'[g] \in Final => at[g] \in Final /\ g # f
    BY <2>3 DEF IInv, DomainInv
  <2>5. /\ DOMAIN stage' = Frames /\ \A g \in Frames : DOMAIN stage'[g] = Items[g]
        /\ \A g \in Frames : \A i \in Items[g] : stage'[g][i] \in 1 .. Stages
    BY <2>3 DEF ItemTypes
  <2>6. \A g \in Frames : \A i \in Items[g] :
           /\ task'[g][i] \in TaskStates
           /\ g # f => task'[g][i] = task[g][i]
           /\ g = f => task'[g][i] # "running"
    BY <2>2 DEF ItemTypes, IInv, DomainInv
  <2>7. ItemTypes'
    BY <2>3, <2>4, <2>5, <2>6 DEF ItemTypes, Placed
  <2>8. Parts(f)
    BY <2>3 DEF IInv, FrameInv
  <2>9. \A g \in Frames : \A j \in Items[g] : task'[g][j] = "running" <=> task[g][j] = "running"
    BY <2>6, <2>8 DEF Parts
  <2> QED  BY <1>0, <2>7, <2>9, SpendingSame
<1>4. CASE Complete(f) \/ Fail(f)
  <2>1. /\ at' = [at EXCEPT ![f] = "joining"] /\ UNCHANGED <<stage, caller>>
        /\ task' = [task EXCEPT ![f] =
             [i \in Items[f] |-> IF @[i] \in Unstarted THEN "cancelled" ELSE @[i]]]
    BY <1>4 DEF Complete, Fail, End
  <2>2. \A g \in Frames : \A i \in Items[g] :
           task'[g][i] = IF g = f /\ task[g][i] \in Unstarted THEN "cancelled" ELSE task[g][i]
    BY <2>1 DEF IInv, DomainInv
  <2>3. \A g \in Frames : at'[g] \in Final => at[g] \in Final \/ g = f
    BY <2>1 DEF IInv, DomainInv
  <2>4. Placed'
    BY <2>2, <2>3 DEF ItemTypes, Placed
  <2>5. \A g \in Frames : \A i \in Items[g] : task'[g][i] \in TaskStates
    BY <2>2 DEF ItemTypes
  <2>6. ItemTypes'
    BY <2>1, <2>4, <2>5 DEF ItemTypes
  <2> QED  BY <1>0, <2>2, <2>6, SpendingSame
<1> QED  BY <1>1, <1>2, <1>3, <1>4 DEF ScriptStep

(* Items, and nested scripts. *)
LEMMA ItemStepsKeepTypesOfAll ==
  ASSUME IInv, FrameTypes, ItemTypes, Spending, NEW f \in Frames, NEW i \in Items[f], ItemStep(f, i)
  PROVE  FrameTypes' /\ ItemTypes' /\ Spending'
<1> USE DEF KeepScript
<1>1. UNCHANGED <<frameVars, caller>>
  BY DEF ItemStep, TakeTurn, StartItem, ItemHalts, Compute, CallAgent, AdmissionHalts, Admit,
         AgentEnds, NestTooDeep
<1>2. /\ \A g \in Frames : at'[g] \in Final => at[g] \in Final
      /\ caller' \in [Nested -> {0} \cup Items[Root]]
      /\ (halted \subseteq [frame : Frames, what : Halts])' => FrameTypes'
  BY <1>1 DEF FrameTypes, ItemTypes, frameVars
<1>3. ASSUME NEW outcome, Settle(f, i, outcome) \/ SettleItem(f, i, outcome),
             admitted' = admitted,
             spent' = spent \/ (task[f][i] = "running" /\ spent' = spent + 1)
      PROVE  FrameTypes' /\ ItemTypes' /\ Spending'
  <2>1. /\ \E s \in Outcomes : StepItem(f, i, s)
        /\ \/ stage' = stage
           \/ stage' = [stage EXCEPT ![f][i] = @ + 1] /\ stage[f][i] < Stages
        /\ (halted \subseteq [frame : Frames, what : Halts])'
    BY <1>3, SettlingTypes
  <2>2. PICK s \in Outcomes : StepItem(f, i, s)
    BY <2>1
  <2>3. ItemTypes'
    BY <1>2, <2>1, <2>2, ItemStepsKeepTypes
  <2>4. SetTask(f, i, s) /\ s # "running"
    BY <2>2 DEF StepItem, Outcomes
  <2>5. Spending'
    BY <1>3, <2>4, SpendingDropped
  <2> QED  BY <1>2, <2>1, <2>3, <2>5
<1>4. ASSUME NEW s \in {"started", "admitting", "running"}, task' = [task EXCEPT ![f][i] = s],
             s = "started" => at[f] = "awaiting", UNCHANGED <<stage, halted>>
      PROVE  FrameTypes' /\ ItemTypes' /\ SetTask(f, i, s)
  <2>1. SetTask(f, i, s)
    BY <1>4, TaskUpdate DEF IInv
  <2>2. StepItem(f, i, s)
    BY <1>4, <2>1 DEF StepItem
  <2>3. ItemTypes'
    BY <1>2, <1>4, <2>2, ItemStepsKeepTypes
  <2>4. (halted \subseteq [frame : Frames, what : Halts])'
    BY <1>4 DEF FrameTypes
  <2> QED  BY <1>2, <2>1, <2>3, <2>4
<1>5. turn[f] = i => at[f] = "awaiting" /\ task[f][i] = "ready"
  BY DEF IInv, CheckInv
<1>6. CASE TakeTurn(f, i)
  <2>1. UNCHANGED <<task, stage, halted, agentVars>>
    BY <1>6 DEF TakeTurn, historyVars
  <2>2. ItemTypes'
    BY <1>2, <2>1 DEF ItemTypes, Placed
  <2>3. (halted \subseteq [frame : Frames, what : Halts])'
    BY <2>1 DEF FrameTypes
  <2> QED  BY <1>2, <2>1, <2>2, <2>3, SpendingSame
<1>7. CASE StartItem(f, i)
  <2>1. /\ task' = [task EXCEPT ![f][i] = "started"] /\ UNCHANGED <<stage, halted, agentVars>>
        /\ at[f] = "awaiting"
    BY <1>5, <1>7 DEF StartItem, historyVars
  <2>2. FrameTypes' /\ ItemTypes' /\ SetTask(f, i, "started")
    BY <1>4, <2>1
  <2> QED  BY <2>1, <2>2, SpendingDropped DEF agentVars
<1>8. CASE CallAgent(f, i)
  <2>1. /\ task' = [task EXCEPT ![f][i] = "admitting"] /\ UNCHANGED <<stage, halted, agentVars>>
    BY <1>8 DEF CallAgent, historyVars
  <2>2. FrameTypes' /\ ItemTypes' /\ SetTask(f, i, "admitting")
    BY <1>4, <2>1
  <2> QED  BY <2>1, <2>2, SpendingDropped DEF agentVars
<1>9. CASE Admit(f, i) /\ AtLimit
  <2>1. SettleItem(f, i, "limit") /\ UNCHANGED <<admitted, spent>>
    BY <1>9 DEF Admit
  <2> QED  BY <1>3, <2>1
<1>10. CASE Admit(f, i) /\ ~AtLimit
  <2>1. /\ task[f][i] = "admitting" /\ task' = [task EXCEPT ![f][i] = "running"]
        /\ UNCHANGED <<stage, halted, spent>> /\ admitted' = admitted + 1 /\ ~AtLimit
    BY <1>10 DEF Admit
  <2>2. FrameTypes' /\ ItemTypes' /\ SetTask(f, i, "running")
    BY <1>4, <2>1
  <2>3. Running' = Running \cup {<<f, i>>} /\ <<f, i>> \notin Running
    BY <2>1, <2>2, RunningAdds
  <2>4. IsFiniteSet(Running') /\ Cardinality(Running') = Cardinality(Running) + 1
    BY <2>3, FS_AddElement DEF Spending
  <2>5. Cardinality(Running) \in Nat
    BY FS_CardinalityType DEF Spending
  <2>6. admitted < MaxAgents
    BY <2>1 DEF AtLimit, Spending
  <2>7. Spending'
    BY <2>1, <2>4, <2>5, <2>6 DEF Spending
  <2> QED  BY <2>2, <2>7
<1>11. CASE ItemHalts(f, i) \/ Compute(f, i) \/ AdmissionHalts(f, i) \/ NestTooDeep(f, i)
  <2>1. /\ \E outcome : Settle(f, i, outcome) \/ SettleItem(f, i, outcome)
        /\ UNCHANGED <<admitted, spent>>
    BY <1>11 DEF ItemHalts, Compute, AdmissionHalts, NestTooDeep, agentVars
  <2> QED  BY <1>3, <2>1
<1>12. CASE AgentEnds(f, i)
  <2>1. /\ \E outcome : Settle(f, i, outcome) \/ SettleItem(f, i, outcome)
        /\ task[f][i] = "running" /\ admitted' = admitted
        /\ spent' = spent \/ spent' = spent + 1
    BY <1>12 DEF AgentEnds
  <2> QED  BY <1>3, <2>1
<1> QED  BY <1>6, <1>7, <1>8, <1>9, <1>10, <1>11, <1>12 DEF ItemStep

LEMMA CallWorkflowKeepsTypes ==
  ASSUME IInv, FrameTypes, ItemTypes, Spending, NEW i \in Items[Root], NEW n \in Nested,
         CallWorkflow(i, n)
  PROVE  FrameTypes' /\ ItemTypes' /\ Spending'
<1> USE DEF KeepScript
<1>1. /\ task' = [task EXCEPT ![Root][i] = "nesting"] /\ stage' = stage
      /\ caller' = [caller EXCEPT ![n] = i]
      /\ at' = [at EXCEPT ![n] = "entering"] /\ status' = [status EXCEPT ![n] = "running"]
      /\ UNCHANGED <<raised, call, calls, halted, agentVars>> /\ n \in Frames /\ Root \in Frames
  BY DEF CallWorkflow, historyVars
<1>2. FrameTypes'
  BY <1>1 DEF FrameTypes
<1>3. SetTask(Root, i, "nesting")
  BY <1>1, TaskUpdate DEF IInv
<1>4. StepItem(Root, i, "nesting")
  BY <1>3 DEF StepItem
<1>5. /\ \A g \in Frames : at'[g] \in Final => at[g] \in Final
      /\ caller' \in [Nested -> {0} \cup Items[Root]]
  BY <1>1 DEF FrameTypes, ItemTypes
<1>6. ItemTypes'
  BY <1>1, <1>4, <1>5, ItemStepsKeepTypes
<1>7. Spending'
  BY <1>1, <1>3, SpendingDropped DEF agentVars
<1> QED  BY <1>2, <1>6, <1>7

LEMMA NestedEndsKeepsTypes ==
  ASSUME IInv, FrameTypes, ItemTypes, Spending, NEW n \in Nested, NestedEnds(n)
  PROVE  FrameTypes' /\ ItemTypes' /\ Spending'
<1> DEFINE outcome == IF status[n] = "completed" THEN "value" ELSE raised[n]
<1>1. /\ at[n] = "joining" /\ at' = [at EXCEPT ![n] = "over"]
      /\ SettleItem(Root, caller[n], outcome)
      /\ UNCHANGED <<status, raised, call, calls, caller, agentVars>> /\ Root \in Frames
  BY DEF NestedEnds, Goto, KeepScript
<1>2. caller[n] \in Items[Root] /\ task[Root][caller[n]] = "nesting"
  BY <1>1 DEF IInv, NestInv, Runs
<1>3. /\ \E s \in Outcomes : StepItem(Root, caller[n], s)
      /\ \/ stage' = stage
         \/ stage' = [stage EXCEPT ![Root][caller[n]] = @ + 1] /\ stage[Root][caller[n]] < Stages
      /\ (halted \subseteq [frame : Frames, what : Halts])'
  BY <1>1, <1>2, SettlingTypes
<1>4. PICK s \in Outcomes : StepItem(Root, caller[n], s)
  BY <1>3
<1>5. FrameTypes'
  BY <1>1, <1>3 DEF FrameTypes
<1>6. /\ \A g \in Frames : at'[g] \in Final => at[g] \in Final
      /\ caller' \in [Nested -> {0} \cup Items[Root]]
  BY <1>1 DEF FrameTypes, ItemTypes
<1>7. ItemTypes'
  BY <1>1, <1>2, <1>3, <1>4, <1>6, ItemStepsKeepTypes
<1>8. SetTask(Root, caller[n], s) /\ s # "running"
  BY <1>4 DEF StepItem, Outcomes
<1>9. Spending'
  BY <1>1, <1>2, <1>8, SpendingDropped DEF agentVars
<1> QED  BY <1>5, <1>7, <1>9

LEMMA RunEndsKeepsTypes ==
  ASSUME IInv, FrameTypes, ItemTypes, Spending, RunEnds
  PROVE  FrameTypes' /\ ItemTypes' /\ Spending'
<1>1. /\ at[Root] = "joining" /\ at' = [at EXCEPT ![Root] = "over"]
      /\ UNCHANGED <<status, raised, call, calls, caller, task, stage, halted, agentVars>>
  BY DEF RunEnds, Goto, KeepScript, taskVars, historyVars
<1>2. FrameTypes' /\ ItemTypes'
  BY <1>1 DEF FrameTypes, ItemTypes, Placed
<1> QED  BY <1>1, <1>2, SpendingSame

-----------------------------------------------------------------------------
LEMMA InitHasTypes == ASSUME Init PROVE Types
<1> USE DEF Init
<1>1. TimeTypes
  <2>1. MaxClock \in Nat /\ MaxPauses \in Nat
    OBVIOUS
  <2>2. gate.since = 0 /\ stop \in BOOLEAN
    OBVIOUS
  <2> QED  BY <2>1, <2>2 DEF TimeTypes
<1>5. FrameTypes
  <2>1. /\ at \in [Frames -> Places] /\ status \in [Frames -> Statuses]
        /\ \A f \in Frames : status[f] \in Ended <=> at[f] \in Final
    OBVIOUS
  <2>2. /\ raised \in [Frames -> {"nothing", "error"} \cup Halts]
        /\ call \in [Frames -> CallForms \cup {"none"}] /\ calls \in [Frames -> 0 .. MaxCalls]
        /\ halted \subseteq [frame : Frames, what : Halts]
    OBVIOUS
  <2> QED  BY <2>1, <2>2 DEF FrameTypes
<1>2. ItemTypes
  BY DEF ItemTypes, Placed
<1>3. Running = {}
  BY DEF Running
<1>4. Spending
  BY <1>3, FS_EmptySet DEF Spending
<1> QED  BY <1>1, <1>2, <1>4, <1>5 DEF Types

LEMMA NextKeepsTypes ==
  ASSUME IInv, Types, [Next]_vars
  PROVE  Types'
<1> USE DEF Types
<1>1. CASE UNCHANGED vars
  <2>1. TimeTypes' /\ FrameTypes' /\ ItemTypes'
    BY <1>1 DEF vars, TimeTypes, FrameTypes, ItemTypes, Placed, clockVars, frameVars, taskVars, historyVars
  <2> QED  BY <1>1, <2>1, SpendingSame DEF vars, taskVars
<1>2. CASE ClockStep
  <2>1. UNCHANGED <<frameVars, taskVars, agentVars, left, halted>>
    BY <1>2 DEF ClockStep, Tick, Pause, Resume, Stop, historyVars
  <2>2. FrameTypes' /\ ItemTypes'
    BY <2>1 DEF FrameTypes, ItemTypes, Placed, frameVars, taskVars
  <2> QED  BY <1>2, <2>1, <2>2, ClockStepsKeepTimeTypes, SpendingSame DEF taskVars
<1>3. CASE RunEnds
  <2>1. TimeKept /\ UNCHANGED <<stop, pauses>>
    BY <1>3, ChecksKeepTime DEF RunEnds, KeepScript, clockVars, historyVars
  <2> QED  BY <1>3, <2>1, OtherStepsKeepTimeTypes, RunEndsKeepsTypes
<1>4. ASSUME NEW f \in Frames, ScriptStep(f) PROVE Types'
  <2>1. TimeKept /\ UNCHANGED <<stop, pauses>>
    BY <1>4, ScriptStepsKeepTime
       DEF ScriptStep, Enter, LoopHalts, Gather, Collect, Collected, AwaitRaises, ScriptEnds,
           Complete, Fail, End, Call, KeepScript, clockVars
  <2> QED  BY <1>4, <2>1, OtherStepsKeepTimeTypes, ScriptStepsKeepFrameTypes, ScriptStepsKeepItemTypes
<1>5. ASSUME NEW f \in Frames, CheckStep(f) PROVE Types'
  BY <1>5, CheckStepsKeepTypes DEF CheckStep
<1>6. ASSUME NEW f \in Frames, NEW i \in Items[f], ItemStep(f, i) PROVE Types'
  <2>1. TimeKept /\ UNCHANGED <<stop, pauses>>
    BY <1>6, ItemStepsKeepTime
       DEF ItemStep, TakeTurn, StartItem, ItemHalts, Compute, CallAgent, AdmissionHalts, Admit,
           AgentEnds, NestTooDeep, KeepScript, clockVars
  <2> QED  BY <1>6, <2>1, OtherStepsKeepTimeTypes, ItemStepsKeepTypesOfAll
<1>7. ASSUME NEW n \in Nested, NestedEnds(n) PROVE Types'
  <2>1. TimeKept /\ UNCHANGED <<stop, pauses>>
    BY <1>7, ChecksKeepTime DEF NestedEnds, KeepScript, clockVars
  <2> QED  BY <1>7, <2>1, OtherStepsKeepTimeTypes, NestedEndsKeepsTypes
<1>8. ASSUME NEW n \in Nested, NEW i \in Items[Root], CallWorkflow(i, n) PROVE Types'
  <2>1. TimeKept /\ UNCHANGED <<stop, pauses>>
    BY <1>8, ChecksKeepTime DEF CallWorkflow, KeepScript, clockVars, historyVars
  <2> QED  BY <1>8, <2>1, OtherStepsKeepTimeTypes, CallWorkflowKeepsTypes
<1> QED  BY <1>1, <1>2, <1>3, <1>4, <1>5, <1>6, <1>7, <1>8 DEF Next

(* The variables of a run and of its nested scripts hold what frames and    *)
(* threads can hold: no more agent() calls than the cap are admitted, only  *)
(* admitted calls have spent, the clock is the time worked and the time     *)
(* paused, and no item of a script that is over waits for a turn            *)
(* (context.py:36-40, 98-178; runtime.py:101-188).                          *)
THEOREM TypeCorrect == Spec => []TypeOK
<1>1. ASSUME IInv, Types PROVE TypeOK
  <2> USE <1>1 DEF Types
  <2>1. /\ gate \in [paused : BOOLEAN, since : 0 .. MaxClock, before : 0 .. MaxClock]
        /\ clock \in 0 .. MaxClock /\ worked \in 0 .. MaxClock
        /\ worked + PausedSeconds = clock
    BY DEF IInv, ClockInv, PausedSeconds, TimeTypes
  <2>2. \A f \in Frames : turn[f] # 0 => turn[f] \in Items[f] /\ at[f] = "awaiting"
    BY DEF IInv, CheckInv
  <2>3. ASSUME NEW f \in Frames, NEW i \in Items[f], task[f][i] \in Unstarted
        PROVE  at[f] \in {"awaiting", "returning", "failing"}
    BY <2>3 DEF IInv, FrameInv, Parts, ItemTypes, Placed
  <2>4. spent \in 0 .. admitted
    <3>1. Cardinality(Running) \in Nat
      BY FS_CardinalityType DEF Spending
    <3> QED  BY <3>1 DEF Spending
  <2> QED  BY <2>1, <2>2, <2>3, <2>4 DEF TypeOK, TimeTypes, FrameTypes, ItemTypes, Spending, IInv
<1>2. Init => Types
  BY InitHasTypes
<1>3. IInv /\ Types /\ [Next]_vars => Types'
  BY NextKeepsTypes
<1> QED  BY <1>1, <1>2, <1>3, Inductive, PTL DEF Spec

=============================================================================
