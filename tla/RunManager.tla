----------------------------- MODULE RunManager -----------------------------
(***************************************************************************)
(* The life of workflow runs in run/manager.py: launch, the run's thread   *)
(* from its first published status to the completion notification, the     *)
(* controls (stop, pause, resume, restart, resume-from), the record file   *)
(* each of them rewrites, and what a crash of the process leaves of it.    *)
(*                                                                         *)
(* ManagedRun.lock makes an update of a record and its save one step for   *)
(* the other threads; what a thread reads before it takes the lock (the    *)
(* gate, the stop event, the status) is a step of its own.  A save may     *)
(* raise, before or after it replaced the file (store.save_run writes the  *)
(* record, then bumps the version).  The script is AgentExecution's        *)
(* subject: here it works, halts, fails or returns.                        *)
(***************************************************************************)
EXTENDS Naturals

CONSTANTS Runs,         \* run ids
          NoRun,        \* no predecessor
          MaxWork,      \* bound on the results one run caches
          MaxFailures,  \* bound on the saves that raise and the loads that fail
          MaxCrashes    \* bound on the crashes of the process

ASSUME RunsAssumption == NoRun \notin Runs
ASSUME BoundsAssumption == MaxWork \in Nat /\ MaxFailures \in Nat /\ MaxCrashes \in Nat

VARIABLES
  mem,         \* status of each run's record in _runs, "none" when it has no ManagedRun
  disk,        \* status in each run's record file, "none" when there is no file
  work,        \* results in each run's ResumeCache.current
  diskWork,    \* results in the agentCache of each record file
  inherited,   \* results each run loaded from the run it resumes
  launch,      \* how far start_from_params is with each run
  from,        \* the run each run resumes
  replaces,    \* the run each run restarts
  thread,      \* where each run's thread is
  chosen,      \* the status each run's thread worked out and is about to publish
  stopEvent,   \* runs whose stop event is set
  gateClosed,  \* runs whose pause gate is closed
  notified,    \* the status each run's completion notification announced
  restart,     \* the restart request the control listener is handling
  failures,    \* saves that raised, and loads that failed
  crashes      \* crashes so far

recordVars  == <<mem, disk, work, diskWork, inherited>>
launchVars  == <<launch, from, replaces>>
threadVars  == <<thread, chosen, notified>>
controlVars == <<stopEvent, gateClosed, restart>>
faultVars   == <<failures, crashes>>
vars == <<recordVars, launchVars, threadVars, controlVars, faultVars>>

Active   == {"queued", "running", "paused", "stopping"}
Terminal == {"completed", "failed", "stopped"}
Statuses == {"none"} \cup Active \cup Terminal
Launches == {"none", "cleared", "inserted", "started", "failed"}
Threads  == {"none", "starting", "publishing", "script", "returned", "completing", "raised",
             "failing", "finalizing", "notifying", "done", "dead"}
Over     == {"done", "dead"}
Idle     == [at |-> "idle", of |-> NoRun]

Fresh(n) == launch[n] = "none" /\ mem[n] = "none" /\ disk[n] = "none"
Known(r) == disk[r] # "none"

Init ==
  /\ mem = [r \in Runs |-> "none"]
  /\ disk = [r \in Runs |-> "none"]
  /\ work = [r \in Runs |-> 0]
  /\ diskWork = [r \in Runs |-> 0]
  /\ inherited = [r \in Runs |-> 0]
  /\ launch = [r \in Runs |-> "none"]
  /\ from = [r \in Runs |-> NoRun]
  /\ replaces = [r \in Runs |-> NoRun]
  /\ thread = [r \in Runs |-> "none"]
  /\ chosen = [r \in Runs |-> "none"]
  /\ stopEvent = {} /\ gateClosed = {}
  /\ notified = [r \in Runs |-> "none"]
  /\ restart = Idle
  /\ failures = 0 /\ crashes = 0

Goto(r, place) == thread' = [thread EXCEPT ![r] = place]
Choose(r, status) == chosen' = [chosen EXCEPT ![r] = status]
Become(r, status) == mem' = [mem EXCEPT ![r] = status]

-----------------------------------------------------------------------------
(* store.save_run(): the record as it is in memory replaces the file. The   *)
(* agentCache enters the record with its final status, also after a halt.   *)

(* A faulty form: only a completed run's cache is saved. *)
CacheOfCompleted(r, status) == IF status = "completed" THEN work[r] ELSE 0

CacheOf(r, status) == IF status \in Terminal THEN work[r] ELSE 0

Written(r) == /\ disk' = [disk EXCEPT ![r] = mem'[r]]
              /\ diskWork' = [diskWork EXCEPT ![r] = CacheOf(r, mem'[r])]

Saved(r) == Written(r) /\ UNCHANGED failures

SaveRaised(r) == /\ failures < MaxFailures
                 /\ failures' = failures + 1
                 /\ Written(r) \/ UNCHANGED <<disk, diskWork>>

-----------------------------------------------------------------------------
(* start_from_params() *)

Clear(n, resumed, restarted) ==
  /\ Fresh(n)
  /\ launch' = [launch EXCEPT ![n] = "cleared"]
  /\ from' = [from EXCEPT ![n] = resumed]
  /\ replaces' = [replaces EXCEPT ![n] = restarted]
  /\ UNCHANGED <<recordVars, threadVars, stopEvent, gateClosed, faultVars>>

LaunchFresh(n) == Clear(n, NoRun, NoRun) /\ UNCHANGED restart

(* _active_resume_run() looks before the launch approval, which may take    *)
(* minutes; only then is the record of the resumed run read.                *)
Resumable(r) == mem[r] \notin Active

LaunchResumed(n, r) ==
  /\ Known(r)
  /\ Resumable(r)
  /\ Clear(n, r, NoRun)
  /\ UNCHANGED restart

(* The record file of the resumed run is read, the run enters _runs.  A     *)
(* record that cannot be read is None to load_run(), an empty cache.        *)
Inherit(n, results) == inherited' = [inherited EXCEPT ![n] = results]

Insert(n) ==
  /\ launch[n] = "cleared"
  /\ launch' = [launch EXCEPT ![n] = "inserted"]
  /\ \/ from[n] = NoRun /\ Inherit(n, 0) /\ UNCHANGED failures
     \/ from[n] # NoRun /\ Inherit(n, diskWork[from[n]]) /\ UNCHANGED failures
     \/ /\ from[n] # NoRun /\ failures < MaxFailures
        /\ Inherit(n, 0)
        /\ failures' = failures + 1
  /\ Become(n, "queued")
  /\ UNCHANGED <<disk, work, diskWork, from, replaces, threadVars, controlVars, crashes>>

(* The first save, then the thread. A save that raises leaves a queued run  *)
(* without a thread in _runs.                                               *)
SaveAndStart(n) ==
  /\ launch[n] = "inserted"
  /\ UNCHANGED mem
  /\ \/ /\ Saved(n)
        /\ launch' = [launch EXCEPT ![n] = "started"]
        /\ Goto(n, "starting")
     \/ /\ SaveRaised(n)
        /\ launch' = [launch EXCEPT ![n] = "failed"]
        /\ UNCHANGED thread
  /\ UNCHANGED <<work, inherited, from, replaces, chosen, notified, controlVars, crashes>>

-----------------------------------------------------------------------------
(* _run_thread() *)

(* The child runner is built and the gate is read, without the lock. *)
ReadGate(r) ==
  /\ thread[r] = "starting"
  /\ \/ /\ Choose(r, IF r \in gateClosed THEN "paused" ELSE "running")
        /\ Goto(r, "publishing")
     \/ Goto(r, "raised") /\ UNCHANGED chosen
  /\ UNCHANGED <<recordVars, launchVars, notified, controlVars, faultVars>>

(* An update under the lock: the thread goes on, or to where the exception  *)
(* of a failed save takes it.                                               *)
Publish(r, at, next, onError) ==
  /\ thread[r] = at
  /\ Become(r, chosen[r])
  /\ Choose(r, "none")
  /\ \/ Saved(r) /\ Goto(r, next)
     \/ SaveRaised(r) /\ Goto(r, onError)
  /\ UNCHANGED <<work, inherited, launchVars, notified, controlVars, crashes>>

PublishStart(r) == Publish(r, "publishing", "script", "raised")

(* An agent() call ends "done". *)
Work(r) ==
  /\ thread[r] = "script"
  /\ work[r] < MaxWork
  /\ work' = [work EXCEPT ![r] = @ + 1]
  /\ UNCHANGED <<mem, disk, diskWork, inherited, launchVars, threadVars, controlVars, faultVars>>

(* on_update: the record is saved as it is; notify() swallows the failure.  *)
(* Also a child left behind by its call reports, whenever it likes.         *)
Progress(r) ==
  /\ thread[r] \notin {"none", "starting", "publishing"}
  /\ UNCHANGED mem
  /\ Saved(r) \/ SaveRaised(r)
  /\ UNCHANGED <<work, inherited, launchVars, threadVars, controlVars, crashes>>

(* A faulty form: a stop does not open the gate. *)
StopSeenIfOpen(r) == r \in stopEvent /\ r \notin gateClosed

(* check_runtime() raises once the stop event is set: PauseGate.wait() does *)
(* not wait for a stopped run.                                              *)
StopSeen(r) == r \in stopEvent

ScriptHalts(r) ==
  /\ thread[r] = "script"
  /\ StopSeen(r)
  /\ Goto(r, "raised")
  /\ UNCHANGED <<recordVars, launchVars, chosen, notified, controlVars, faultVars>>

(* An exception of the script, a limit or the deadline. *)
ScriptFails(r) ==
  /\ thread[r] = "script"
  /\ Goto(r, "raised")
  /\ UNCHANGED <<recordVars, launchVars, chosen, notified, controlVars, faultVars>>

(* The last check_runtime() passed. *)
ScriptReturns(r) ==
  /\ thread[r] = "script"
  /\ r \notin stopEvent /\ r \notin gateClosed
  /\ Goto(r, "returned")
  /\ UNCHANGED <<recordVars, launchVars, chosen, notified, controlVars, faultVars>>

(* The stop event is read, the final status is published later. Before it,  *)
(* the snapshot of the transcripts may raise.                               *)
VerdictOfReturn(r) == IF r \in stopEvent THEN "stopped" ELSE "completed"

DecideReturned(r) ==
  /\ thread[r] = "returned"
  /\ \/ Choose(r, VerdictOfReturn(r)) /\ Goto(r, "completing")
     \/ Goto(r, "raised") /\ UNCHANGED chosen
  /\ UNCHANGED <<recordVars, launchVars, notified, controlVars, faultVars>>

PublishReturned(r) == Publish(r, "completing", "finalizing", "raised")

(* A faulty form: a raise becomes a status that is no outcome of a run. *)
VerdictError(r) == IF r \in stopEvent THEN "stopped" ELSE "error"

VerdictOfRaise(r) == IF r \in stopEvent THEN "stopped" ELSE "failed"

DecideRaised(r) ==
  /\ thread[r] = "raised"
  /\ Choose(r, VerdictOfRaise(r))
  /\ Goto(r, "failing")
  /\ UNCHANGED <<recordVars, launchVars, notified, controlVars, faultVars>>

(* A save that raises here still runs the finally block. *)
PublishRaised(r) == Publish(r, "failing", "finalizing", "finalizing")

(* A faulty form: the last save's failure is swallowed. *)
AfterSwallowedSave == "notifying"

(* _finalize_completion_artifacts(): the last save of the thread. If it     *)
(* raises nothing is announced.                                             *)
AfterLostSave == "dead"

Finalize(r) ==
  /\ thread[r] = "finalizing"
  /\ UNCHANGED mem
  /\ \/ Saved(r) /\ Goto(r, "notifying")
     \/ SaveRaised(r) /\ Goto(r, AfterLostSave)
  /\ UNCHANGED <<work, inherited, launchVars, chosen, notified, controlVars, crashes>>

NotifyCompletion(r) ==
  /\ thread[r] = "notifying"
  /\ notified' = [notified EXCEPT ![r] = mem[r]]
  /\ Goto(r, "done")
  /\ UNCHANGED <<recordVars, launchVars, chosen, controlVars, faultVars>>

-----------------------------------------------------------------------------
(* Controls, from the host's task_stop and from the control listener. *)

Stoppable(r) == mem[r] \in {"queued", "running", "paused"}

StopUnderLock(r) ==
  /\ stopEvent' = stopEvent \cup {r}
  /\ gateClosed' = gateClosed \ {r}
  /\ Become(r, "stopping")

(* stop() and stop_task(). The save may raise after the event is set. *)
Stop(r) ==
  /\ Known(r)
  /\ Stoppable(r)
  /\ StopUnderLock(r)
  /\ Saved(r) \/ SaveRaised(r)
  /\ UNCHANGED <<work, inherited, launchVars, threadVars, restart, crashes>>

(* stop() of a run that is only a file. *)
StopUnmanaged(r) ==
  /\ mem[r] = "none"
  /\ disk[r] \in {"queued", "running", "paused"}
  /\ disk' = [disk EXCEPT ![r] = "stopped"]
  /\ UNCHANGED <<mem, work, diskWork, inherited, launchVars, threadVars, controlVars, faultVars>>

Pause(r) ==
  /\ Known(r)
  /\ mem[r] \in {"queued", "running"}
  /\ gateClosed' = gateClosed \cup {r}
  /\ Become(r, "paused")
  /\ Saved(r) \/ SaveRaised(r)
  /\ UNCHANGED <<work, inherited, launchVars, threadVars, stopEvent, restart, crashes>>

(* A faulty form: a run that was told to stop is resumed. *)
HeldOrStopping(r) == mem[r] \in {"paused", "stopping"}

Held(r) == mem[r] = "paused"

Resume(r) ==
  /\ Held(r)
  /\ gateClosed' = gateClosed \ {r}
  /\ Become(r, "running")
  /\ Saved(r) \/ SaveRaised(r)
  /\ UNCHANGED <<work, inherited, launchVars, threadVars, stopEvent, restart, crashes>>

(* restart(), in the control listener's thread: look at the status, stop    *)
(* the run, wait for its thread five seconds, look again, launch.  Of a run *)
(* that is only a file nothing is asked: it is launched again at once.      *)
Handling(place, r) == restart' = [at |-> place, of |-> r]

RestartLooks(r) ==
  /\ restart = Idle
  /\ Known(r)
  /\ Handling(IF mem[r] \in Active THEN "stopping" ELSE "launching", r)
  /\ UNCHANGED <<recordVars, launchVars, threadVars, stopEvent, gateClosed, faultVars>>

RestartStops(r) ==
  /\ restart = [at |-> "stopping", of |-> r]
  /\ IF Stoppable(r)
     THEN /\ StopUnderLock(r)
          /\ \/ Saved(r) /\ Handling("waiting", r)
             \/ SaveRaised(r) /\ restart' = Idle
     ELSE /\ Handling("waiting", r)
          /\ UNCHANGED <<stopEvent, gateClosed, mem, disk, diskWork, failures>>
  /\ UNCHANGED <<work, inherited, launchVars, threadVars, crashes>>

(* A faulty form: the restart does not look again after the wait. *)
LaunchAnyway(r) == TRUE

(* The thread ended, the five seconds are over, or there is no thread yet. *)
StoppedInTime(r) == mem[r] \in Terminal

RestartWaited(r) ==
  /\ restart = [at |-> "waiting", of |-> r]
  /\ IF StoppedInTime(r) THEN Handling("launching", r) ELSE restart' = Idle
  /\ UNCHANGED <<recordVars, launchVars, threadVars, stopEvent, gateClosed, faultVars>>

RestartLaunches(n) ==
  /\ restart.at = "launching"
  /\ Clear(n, NoRun, restart.of)
  /\ restart' = Idle

(* The process ends and another one starts on the same state directory:     *)
(* only the files are left.                                                 *)
Crash ==
  /\ crashes < MaxCrashes
  /\ crashes' = crashes + 1
  /\ mem' = [r \in Runs |-> "none"]
  /\ launch' = [r \in Runs |-> "none"]
  /\ from' = [r \in Runs |-> NoRun]
  /\ replaces' = [r \in Runs |-> NoRun]
  /\ thread' = [r \in Runs |-> "none"]
  /\ chosen' = [r \in Runs |-> "none"]
  /\ stopEvent' = {} /\ gateClosed' = {}
  /\ restart' = Idle
  /\ UNCHANGED <<disk, work, diskWork, inherited, notified, failures>>

-----------------------------------------------------------------------------
LaunchStep(n) ==
  \/ LaunchFresh(n) \/ (\E r \in Runs : LaunchResumed(n, r))
  \/ Insert(n) \/ SaveAndStart(n)

ThreadStep(r) ==
  \/ ReadGate(r) \/ PublishStart(r) \/ ScriptHalts(r)
  \/ DecideReturned(r) \/ PublishReturned(r) \/ DecideRaised(r) \/ PublishRaised(r)
  \/ Finalize(r) \/ NotifyCompletion(r)

ScriptStep(r) == Work(r) \/ Progress(r) \/ ScriptFails(r) \/ ScriptReturns(r)

ControlStep(r) ==
  \/ Stop(r) \/ StopUnmanaged(r) \/ Pause(r) \/ Resume(r)
  \/ RestartLooks(r) \/ RestartStops(r) \/ RestartWaited(r) \/ RestartLaunches(r)

Next == \/ \E r \in Runs : LaunchStep(r) \/ ThreadStep(r) \/ ScriptStep(r) \/ ControlStep(r)
        \/ Crash

Spec == Init /\ [][Next]_vars

(* A run's thread runs.  What the script does on its own is not owed, only  *)
(* that it halts once it is stopped (AgentExecution!EveryCallEnds).         *)
FairSpec == Spec /\ \A r \in Runs : WF_vars(ThreadStep(r))

-----------------------------------------------------------------------------
(* Records and files only ever hold the statuses the manager, the TUI and   *)
(* restart() know.                                                          *)
TypeOK ==
  /\ mem \in [Runs -> Statuses] /\ disk \in [Runs -> Statuses]
  /\ work \in [Runs -> 0 .. MaxWork]
  /\ diskWork \in [Runs -> 0 .. MaxWork] /\ inherited \in [Runs -> 0 .. MaxWork]
  /\ launch \in [Runs -> Launches]
  /\ from \in [Runs -> Runs \cup {NoRun}] /\ replaces \in [Runs -> Runs \cup {NoRun}]
  /\ thread \in [Runs -> Threads]
  /\ chosen \in [Runs -> Statuses]
  /\ stopEvent \in SUBSET Runs /\ gateClosed \in SUBSET Runs
  /\ notified \in [Runs -> Statuses]
  /\ restart \in [at : {"idle", "stopping", "waiting", "launching"}, of : Runs \cup {NoRun}]
  /\ failures \in 0 .. MaxFailures /\ crashes \in 0 .. MaxCrashes

(* What a completion notification announced is in the record file: the      *)
(* final status and every cached result, whatever saves raised on the way,  *)
(* whatever a late child or control did since, and after a crash too        *)
(* (manager.py, the finally block of _run_thread).                          *)
AnnouncedIsPersisted ==
  \A r \in Runs : notified[r] # "none" =>
    /\ notified[r] \in Terminal
    /\ disk[r] = notified[r]
    /\ diskWork[r] = work[r]

(* A restart or a resume never runs beside the run it follows: the status   *)
(* looked at before the wait or the launch approval is still good when the  *)
(* new run enters _runs, and ever after (manager.py, restart and            *)
(* _active_resume_run).                                                     *)
SuccessorsFollowDeadRuns ==
  \A n, r \in Runs : launch[n] # "none" /\ r \in {from[n], replaces[n]} => mem[r] \notin Active

(* A run that resumes an announced run starts with every result that run    *)
(* cached, stopped and failed ones included, unless its record cannot be    *)
(* read (manager.py, the agentCache of both terminal updates).              *)
ResumeInheritsWork ==
  [][\A n, r \in Runs : Insert(n) /\ from[n] = r /\ notified[r] # "none" /\ failures' = failures
                          => inherited'[n] = work[r]]_vars

(* A final status stays: no control, late progress report or second look at *)
(* the stop event rewrites it.  The one exception is a save that raised     *)
(* under a terminal update, which turns the run into a failed or stopped    *)
(* one.                                                                     *)
VerdictIsFinal ==
  [][\A r \in Runs : mem[r] \in Terminal /\ mem'[r] # mem[r] =>
       \/ mem'[r] = "none"
       \/ failures > 0 /\ thread[r] = "failing" /\ mem'[r] \in {"failed", "stopped"}]_vars

(* A stop always ends the run's thread, also when it raced the startup, a   *)
(* pause, a restart or a failing save.                                      *)
StopEndsRun ==
  \A r \in Runs : (r \in stopEvent /\ thread[r] # "none") ~> (thread[r] \in Over \cup {"none"})

-----------------------------------------------------------------------------
(* What a run is to those who read its record, file and notification. *)
Predecessor ==
  [r \in Runs |-> IF mem[r] = "none" THEN NoRun
                  ELSE IF from[r] # NoRun THEN from[r] ELSE replaces[r]]
Begun  == {r \in Runs : thread[r] \notin {"none", "starting", "publishing"}}
Unsure == {r \in Runs : thread[r] \in {"raised", "failing"} /\ mem[r] \in Terminal}

Lifecycle == INSTANCE RunLifecycle WITH
  status <- mem, saved <- disk, kept <- diskWork, results <- work, announced <- notified,
  predecessor <- Predecessor, begun <- Begun, unsure <- Unsure

(* The manager's threads, controls, saves and crashes keep the promises of  *)
(* RunLifecycle: one launch, one begin, one end, and what was announced     *)
(* stays in the file, whatever they interleave with (manager.py,            *)
(* start_from_params to the finally block of _run_thread).                  *)
LifecycleSpec == Lifecycle!Spec

-----------------------------------------------------------------------------
(* What the messages say and the code does not do. *)

(* manager.py:303: stop_task() answers "Successfully stopped task": a run   *)
(* whose stop was accepted does not complete.                               *)
StoppedRunsDoNotComplete == \A r \in stopEvent : mem[r] # "completed"

(* manager.py:451: "Paused <run>; running agents may finish.": a run held   *)
(* by its pause gate says so in its record, which is what resume() goes by. *)
PausedRunsArePaused ==
  \A r \in gateClosed \ stopEvent : mem[r] \in Active => mem[r] = "paused"
=============================================================================
