----------------------------- MODULE ControlQueue -----------------------------
(***************************************************************************)
(* The control requests of the dashboard, from storage/control.py and      *)
(* _handle_control_request of run/manager.py: a client in another process  *)
(* writes a request file for the process that owns a run and waits for the *)
(* response file; the owner's listener handles, answers and removes the    *)
(* requests, one at a time.                                                *)
(*                                                                         *)
(* A request's name is random and a pass of the listener goes by name:     *)
(* requests are numbers in the order of their names, and are made in any   *)
(* order.  A process is a number too, its control owner: the next one has  *)
(* another, and other directories.  Runs are RunManager's subject: here    *)
(* they have a status, which controls and their own thread change as       *)
(* RunStatus says, and every save succeeds.                                *)
(*                                                                         *)
(* Init, Next and Spec are QueueInit, QueueNext and QueueSpec here, so that *)
(* a module can extend this one beside another specification.              *)
(***************************************************************************)
EXTENDS RunStatus, Naturals, FiniteSets, FiniteSetsExt

CONSTANTS Requests,   \* request ids, in the order of their names
          Nothing,    \* no file, no run
          MaxFaults,  \* bound on the reads, writes and removals of files that fail
          MaxCrashes  \* bound on the crashes of the owning process

Actions   == {"stop", "pause", "resume", "restart"}
Responses == {"ok", "refused", "failed", "expired"}
Asked     == [run : Runs, action : Actions, expected : Statuses, owner : Nat]

ASSUME RequestsAssumption == Requests \subseteq Nat
ASSUME NothingAssumption ==
  Nothing \notin Requests /\ Nothing \notin Responses /\ Nothing \notin Asked
ASSUME BoundsAssumption == MaxFaults \in Nat /\ MaxCrashes \in Nat

VARIABLES
  process,    \* the control owner of the living process
  owner,      \* the controlOwner of each record
  listed,     \* the status the dashboard shows of each run
  request,    \* what each request asks
  queued,     \* requests that have a file
  expired,    \* requests found more than fifteen seconds old
  response,   \* the answer in each response file
  at,         \* where the listener is
  batch,      \* the rest of its pass
  now,        \* the request it handles
  answer,     \* the answer it is about to write
  faults,     \* failures of the file system
  carried,    \* history: how often each request was carried out
  botched     \* history: requests whose answer or removal failed

runVars      == <<status, owner, begun>>
clientVars   == <<listed, request>>
fileVars     == <<queued, response>>
listenerVars == <<at, batch, now, answer>>
historyVars  == <<carried, botched>>
queueVars    == <<process, runVars, clientVars, fileVars, expired, listenerVars, faults,
                  historyVars>>

QueueInit ==
  /\ process = 0
  /\ status = [r \in Runs |-> "none"]
  /\ owner = [r \in Runs |-> 0]
  /\ begun = {}
  /\ listed = [r \in Runs |-> "none"]
  /\ request = [q \in Requests |-> Nothing]
  /\ queued = {} /\ expired = {}
  /\ response = [q \in Requests |-> Nothing]
  /\ at = "asleep" /\ batch = {} /\ now = Nothing /\ answer = Nothing
  /\ faults = 0
  /\ carried = [q \in Requests |-> 0]
  /\ botched = {}

Fault == faults < MaxFaults /\ faults' = faults + 1

-----------------------------------------------------------------------------
(* Runs, from their launch to their end; a stop_task of the host is the one *)
(* control that does not come through the queue.                            *)

Managed(r) == status[r] # "none" /\ owner[r] = process

LaunchRun(r) ==
  /\ Launched(r)
  /\ owner' = [owner EXCEPT ![r] = process]

RunMoves(r) ==
  /\ Managed(r)
  /\ Begins(r) \/ Ends(r) \/ Moved(r, Stoppable, "stopping")
  /\ UNCHANGED owner

RunStep ==
  /\ \E r \in Runs : LaunchRun(r) \/ RunMoves(r)
  /\ UNCHANGED <<process, clientVars, fileVars, expired, listenerVars, faults,
                 historyVars>>

-----------------------------------------------------------------------------
(* ControlClient.request(), for a run in the dashboard.  The client waits a *)
(* second and a half for the response, removes it if it came, and changes   *)
(* nothing else: when it gives up the request stays, and the user may make  *)
(* another.                                                                 *)

(* The dashboard reads the records now and then: what it shows may be old.  *)
Show ==
  /\ listed # status
  /\ listed' = status
  /\ UNCHANGED <<process, runVars, request, fileVars, expired, listenerVars, faults,
                 historyVars>>

(* One key pauses and resumes. *)
Offered(r) == {"stop", "restart", IF listed[r] = "paused" THEN "resume" ELSE "pause"}

Submit(q, r, action) ==
  /\ request[q] = Nothing /\ listed[r] # "none"
  /\ action \in Offered(r)
  /\ request' = [request EXCEPT ![q] = [run |-> r, action |-> action, expected |-> listed[r],
                                        owner |-> owner[r]]]
  /\ queued' = queued \cup {q}
  /\ UNCHANGED <<process, runVars, listed, response, expired, listenerVars, faults,
                 historyVars>>

-----------------------------------------------------------------------------
(* ControlListener.process_once() *)

Mine == {q \in queued : request[q].owner = process}
Goto(place) == at' = place

Wake ==
  /\ at = "asleep" /\ Mine # {}
  /\ batch' = Mine
  /\ Goto("passing")
  /\ UNCHANGED <<process, runVars, clientVars, fileVars, expired, now, answer, faults,
                 historyVars>>

(* A faulty form: the listener keeps its request when a pass ends. *)
AsleepHolding == at' = "asleep" /\ batch' = {} /\ answer' = Nothing /\ UNCHANGED now

Asleep == at' = "asleep" /\ batch' = {} /\ now' = Nothing /\ answer' = Nothing
NextRequest(rest) == IF rest = {} THEN Asleep
                     ELSE at' = "passing" /\ batch' = rest /\ now' = Nothing /\ answer' = Nothing

(* A file that cannot be read is passed over. *)
Skip ==
  /\ at = "passing"
  /\ Fault
  /\ NextRequest(batch \ {Min(batch)})
  /\ UNCHANGED <<process, runVars, clientVars, fileVars, expired, historyVars>>

Respond(a) == Goto("answering") /\ answer' = a
AsExpected(q) == owner[request[q].run] = process /\ status[request[q].run] = request[q].expected

(* The next request: its time, its run's record, the owner, the status.     *)
(* Without the lock that the action takes.                                  *)
Look ==
  LET q == Min(batch) IN
  /\ at = "passing"
  /\ now' = q /\ batch' = batch \ {q}
  /\ \/ /\ expired' = expired \cup {q}
        /\ Respond("expired")
     \/ /\ q \notin expired /\ ~AsExpected(q)
        /\ Respond("refused")
        /\ UNCHANGED expired
     \/ /\ q \notin expired /\ AsExpected(q)
        /\ Goto("acting")
        /\ UNCHANGED <<expired, answer>>
  /\ UNCHANGED <<process, runVars, clientVars, fileVars, faults, historyVars>>

CarryOut(q) == carried' = [carried EXCEPT ![q] = @ + 1]

(* A faulty form: a control that did nothing is answered "ok". *)
ChangeUnchecked(r, from, to) ==
  /\ IF status[r] \in from THEN Become(r, to) /\ CarryOut(now) ELSE UNCHANGED <<status, carried>>
  /\ Respond("ok")

(* stop(), pause() and resume(), each under the run's lock. *)
Change(r, from, to) ==
  IF status[r] \in from
  THEN Become(r, to) /\ CarryOut(now) /\ Respond("ok")
  ELSE Respond("refused") /\ UNCHANGED <<status, carried>>

ActOf(action, from, to) ==
  /\ at = "acting" /\ request[now].action = action
  /\ Change(request[now].run, from, to)
  /\ UNCHANGED <<process, owner, begun, clientVars, fileVars, expired, batch, now, faults,
                 botched>>

ActStop   == ActOf("stop", Stoppable, "stopping")
ActPause  == ActOf("pause", Pausable, "paused")
ActResume == ActOf("resume", Held, "running")

(* restart() stops an active run first. *)
RestartStops ==
  LET r == request[now].run IN
  /\ at = "acting" /\ request[now].action = "restart"
  /\ IF status[r] \in Stoppable THEN Become(r, "stopping") ELSE UNCHANGED status
  /\ Goto(IF status[r] \in Active THEN "waiting" ELSE "launching")
  /\ UNCHANGED <<process, owner, begun, clientVars, fileVars, expired, batch, now, answer,
                 faults, historyVars>>

(* A faulty form: a restart waits without a limit. *)
RestartWaitsOn ==
  /\ at = "waiting"
  /\ status[request[now].run] \in Terminal
  /\ Goto("launching")
  /\ UNCHANGED <<process, runVars, clientVars, fileVars, expired, batch, now, answer, faults,
                 historyVars>>

(* The thread ended, or five seconds are over; then it raises unless the    *)
(* run ended.                                                               *)
RestartWaited ==
  /\ at = "waiting"
  /\ IF status[request[now].run] \in Terminal
     THEN Goto("launching") /\ UNCHANGED answer
     ELSE Respond("failed")
  /\ UNCHANGED <<process, runVars, clientVars, fileVars, expired, batch, now, faults,
                 historyVars>>

(* The new run is as good as any other launched: it is not followed. *)
RestartLaunches ==
  /\ at = "launching"
  /\ CarryOut(now)
  /\ Respond("ok")
  /\ UNCHANGED <<process, runVars, clientVars, fileVars, expired, batch, now, faults, botched>>

(* The script is gone, or the launch raises before the run is there. *)
RestartFails ==
  /\ at = "launching"
  /\ Respond("failed")
  /\ UNCHANGED <<process, runVars, clientVars, fileVars, expired, batch, now, faults,
                 historyVars>>

(* A faulty form: a request that was answered is not removed. *)
AnswerOnly ==
  /\ at = "answering"
  /\ response' = [response EXCEPT ![now] = answer]
  /\ NextRequest(batch)
  /\ UNCHANGED <<process, runVars, clientVars, queued, expired, faults, historyVars>>

(* The answer replaces an earlier one.  A write that raises ends the pass   *)
(* and leaves the request.                                                  *)
Answer ==
  /\ at = "answering"
  /\ \/ /\ response' = [response EXCEPT ![now] = answer]
        /\ Goto("removing")
        /\ UNCHANGED <<batch, now, answer, faults, botched>>
     \/ /\ Fault
        /\ Asleep
        /\ botched' = botched \cup {now}
        /\ UNCHANGED response
  /\ UNCHANGED <<process, runVars, clientVars, queued, expired, carried>>

(* A request that cannot be removed is handled again in the next pass. *)
RemoveRequest ==
  /\ at = "removing"
  /\ \/ /\ queued' = queued \ {now} /\ expired' = expired \ {now}
        /\ UNCHANGED <<faults, botched>>
     \/ /\ Fault /\ botched' = botched \cup {now}
        /\ UNCHANGED <<queued, expired>>
  /\ NextRequest(batch)
  /\ UNCHANGED <<process, runVars, clientVars, response, carried>>

-----------------------------------------------------------------------------
(* The owning process ends; another starts.  Files stay, clients too. *)
Crash ==
  /\ process < MaxCrashes
  /\ process' = process + 1
  /\ Asleep
  /\ UNCHANGED <<runVars, clientVars, fileVars, expired, faults, historyVars>>

ListenerStep ==
  \/ Wake \/ Look \/ ActStop \/ ActPause \/ ActResume
  \/ RestartStops \/ RestartWaited \/ RestartLaunches \/ RestartFails \/ Answer \/ RemoveRequest

ClientStep ==
  \/ Show
  \/ \E q \in Requests, r \in Runs, action \in Actions : Submit(q, r, action)

QueueNext == RunStep \/ ClientStep \/ ListenerStep \/ Skip \/ Crash

(* The listener's thread runs. *)
QueueSpec == QueueInit /\ [][QueueNext]_queueVars /\ WF_queueVars(ListenerStep)

-----------------------------------------------------------------------------
(* Properties. *)

ListenerPlaces == {"asleep", "passing", "acting", "waiting", "launching", "answering", "removing"}
Busy == ListenerPlaces \ {"asleep", "passing"}

(* The variables hold what the files and the listener can hold; it has a    *)
(* request of its own process exactly while it handles one.                 *)
QueueTypeOK ==
  /\ process \in 0 .. MaxCrashes
  /\ status \in [Runs -> Statuses] /\ owner \in [Runs -> 0 .. MaxCrashes]
  /\ begun \in SUBSET Runs
  /\ listed \in [Runs -> Statuses]
  /\ request \in [Requests -> Asked \cup {Nothing}]
  /\ queued \in SUBSET Requests /\ expired \in SUBSET Requests
  /\ response \in [Requests -> Responses \cup {Nothing}]
  /\ at \in ListenerPlaces /\ batch \in SUBSET Requests
  /\ now \in Requests \cup {Nothing} /\ answer \in Responses \cup {Nothing}
  /\ faults \in 0 .. MaxFaults
  /\ carried \in [Requests -> Nat] /\ botched \in SUBSET Requests
  /\ at \in Busy => now \in Requests
  /\ at \in {"answering", "removing"} => answer \in Responses
  /\ at = "passing" => batch # {}
  /\ batch \subseteq Mine /\ (now \in Requests => now \in Mine \ batch)

(* What a client reads is what happened to the run: "ok" only if it was     *)
(* carried out, and a refusal or an expiry only if it was not, unless the   *)
(* answer or the removal of the request failed and it was handled again     *)
(* (control.py:105-139; manager.py:427-470).                                *)
AnswersAreTrue ==
  \A q \in Requests :
    /\ response[q] = "ok" => carried[q] > 0
    /\ response[q] \in {"refused", "expired"} /\ q \notin botched => carried[q] = 0

(* A request is carried out once, however often the listener's passes meet  *)
(* it, unless its answer or removal failed and it is handled again; a stop  *)
(* then at most twice, and only when the thread's first status was written  *)
(* over the first one (control.py:108-141; manager.py:341-366).             *)
CarriedOutOnce ==
  \A q \in Requests :
    carried[q] > 1 =>
      /\ q \in botched
      /\ request[q].action = "stop" => carried[q] = 2 /\ request[q].run \in begun

(* A request to a process that lives and listens does not stay: no earlier  *)
(* name, waiting restart or failing file keeps it (control.py:105-147).     *)
RequestsAreConsumed ==
  \A q \in Requests : q \in Mine ~> q \notin Mine
=============================================================================
