------------------------- MODULE RunManager_proofs -------------------------
(***************************************************************************)
(* Theorems about RunManager for every set of runs, whatever saves raise   *)
(* and however often the process crashes, checked with TLAPS.              *)
(***************************************************************************)
EXTENDS RunManager, TLAPS

(* How far the launch and the thread of a run are, and what its record says. *)
PhaseInv ==
  \A r \in Runs :
    /\ thread[r] = "none" <=> launch[r] # "started"
    /\ launch[r] \in {"none", "cleared"} => mem[r] = "none"
    /\ launch[r] \in {"cleared", "inserted"} => disk[r] = "none"
    /\ launch[r] = "inserted" => mem[r] = "queued"
    /\ launch[r] = "failed" => mem[r] \in Active
    /\ thread[r] # "none" => disk[r] # "none"
    /\ thread[r] \in {"starting", "publishing", "script", "returned", "completing"}
         => mem[r] \in Active
    /\ thread[r] \in {"raised", "failing"} => mem[r] \in Active \/ (mem[r] \in Terminal /\ failures > 0)
    /\ thread[r] \in {"finalizing", "notifying", "done", "dead"} => mem[r] \in Terminal
    /\ thread[r] = "publishing" => chosen[r] \in {"paused", "running"}
    /\ thread[r] = "completing" => chosen[r] \in {"stopped", "completed"}
    /\ thread[r] = "failing" => chosen[r] \in {"stopped", "failed"}

(* From the last save on, the file says what the record says; it says what  *)
(* was announced also when a crash has taken the record away.               *)
FileInv ==
  \A r \in Runs :
    /\ thread[r] = "notifying" => disk[r] = mem[r] /\ diskWork[r] = work[r]
    /\ notified[r] # "none" =>
         /\ notified[r] \in Terminal
         /\ disk[r] = notified[r] /\ diskWork[r] = work[r]
         /\ (thread[r] = "done" /\ mem[r] = notified[r]) \/ launch[r] = "none"

(* The run a restart is about has a file, and is over before the launch. *)
RestartInv ==
  /\ restart.at # "idle" => restart.of \in Runs /\ disk[restart.of] # "none"
  /\ restart.at = "launching" => mem[restart.of] \notin Active

(* So has the run another one follows. *)
SuccessorInv ==
  \A n, r \in Runs : launch[n] # "none" /\ r \in {from[n], replaces[n]}
                       => mem[r] \notin Active /\ disk[r] # "none"

IInv == TypeOK /\ PhaseInv /\ FileInv /\ RestartInv /\ SuccessorInv

(* The variable groups, the updates that only have a name, and the sets of *)
(* names are expanded in every proof.                                       *)
USE DEF recordVars, launchVars, threadVars, controlVars, faultVars, vars,
        Goto, Choose, Become, Inherit, Active, Terminal, Statuses, Launches, Threads

-----------------------------------------------------------------------------
(* No run, no file, no request. *)
LEMMA InitInv == Init => IInv
<1> SUFFICES ASSUME Init PROVE IInv
  OBVIOUS
<1>1. TypeOK
  BY BoundsAssumption DEF Init, TypeOK, Idle, BoundsAssumption
<1>2. PhaseInv /\ FileInv /\ RestartInv /\ SuccessorInv
  BY DEF Init, PhaseInv, FileInv, RestartInv, SuccessorInv, Idle
<1>3. QED
  BY <1>1, <1>2 DEF IInv

(* Every action keeps the types; the only arithmetic is under its bound.    *)
LEMMA NextTypeOK == TypeOK /\ [Next]_vars => TypeOK'
<1> SUFFICES ASSUME TypeOK, [Next]_vars PROVE TypeOK'
  OBVIOUS
<1> USE BoundsAssumption DEF TypeOK, BoundsAssumption
<1>1. ASSUME NEW c \in Runs, LaunchFresh(c) PROVE TypeOK'
  BY <1>1 DEF LaunchFresh, Clear, Fresh
<1>2. ASSUME NEW c \in Runs, NEW p \in Runs, LaunchResumed(c, p) PROVE TypeOK'
  BY <1>2 DEF LaunchResumed, Clear, Fresh, Known, Resumable
<1>3. ASSUME NEW c \in Runs, Insert(c) PROVE TypeOK'
  BY <1>3 DEF Insert
<1>4. ASSUME NEW c \in Runs, SaveAndStart(c) PROVE TypeOK'
  BY <1>4 DEF SaveAndStart, Saved, SaveRaised, Written, CacheOf
<1>5. ASSUME NEW c \in Runs, ReadGate(c) PROVE TypeOK'
  BY <1>5 DEF ReadGate
<1>6. ASSUME NEW c \in Runs, PublishStart(c) PROVE TypeOK'
  BY <1>6 DEF PublishStart, Publish, Saved, SaveRaised, Written, CacheOf
<1>7. ASSUME NEW c \in Runs, ScriptHalts(c) PROVE TypeOK'
  BY <1>7 DEF ScriptHalts
<1>8. ASSUME NEW c \in Runs, DecideReturned(c) PROVE TypeOK'
  BY <1>8 DEF DecideReturned, VerdictOfReturn
<1>9. ASSUME NEW c \in Runs, PublishReturned(c) PROVE TypeOK'
  BY <1>9 DEF PublishReturned, Publish, Saved, SaveRaised, Written, CacheOf
<1>10. ASSUME NEW c \in Runs, DecideRaised(c) PROVE TypeOK'
  BY <1>10 DEF DecideRaised, VerdictOfRaise
<1>11. ASSUME NEW c \in Runs, PublishRaised(c) PROVE TypeOK'
  BY <1>11 DEF PublishRaised, Publish, Saved, SaveRaised, Written, CacheOf
<1>12. ASSUME NEW c \in Runs, Finalize(c) PROVE TypeOK'
  BY <1>12 DEF Finalize, AfterLostSave, Saved, SaveRaised, Written, CacheOf
<1>13. ASSUME NEW c \in Runs, NotifyCompletion(c) PROVE TypeOK'
  BY <1>13 DEF NotifyCompletion
<1>14. ASSUME NEW c \in Runs, Work(c) PROVE TypeOK'
  BY <1>14 DEF Work
<1>15. ASSUME NEW c \in Runs, Progress(c) PROVE TypeOK'
  BY <1>15 DEF Progress, Saved, SaveRaised, Written, CacheOf
<1>16. ASSUME NEW c \in Runs, ScriptFails(c) PROVE TypeOK'
  BY <1>16 DEF ScriptFails
<1>17. ASSUME NEW c \in Runs, ScriptReturns(c) PROVE TypeOK'
  BY <1>17 DEF ScriptReturns
<1>18. ASSUME NEW c \in Runs, Stop(c) PROVE TypeOK'
  BY <1>18 DEF Stop, StopUnderLock, Known, Stoppable, Saved, SaveRaised, Written, CacheOf
<1>19. ASSUME NEW c \in Runs, StopUnmanaged(c) PROVE TypeOK'
  BY <1>19 DEF StopUnmanaged
<1>20. ASSUME NEW c \in Runs, Pause(c) PROVE TypeOK'
  BY <1>20 DEF Pause, Known, Saved, SaveRaised, Written, CacheOf
<1>21. ASSUME NEW c \in Runs, Resume(c) PROVE TypeOK'
  BY <1>21 DEF Resume, Held, Saved, SaveRaised, Written, CacheOf
<1>22. ASSUME NEW c \in Runs, RestartLooks(c) PROVE TypeOK'
  BY <1>22 DEF RestartLooks, Known, Idle, Handling
<1>23. ASSUME NEW c \in Runs, RestartStops(c) PROVE TypeOK'
  BY <1>23 DEF RestartStops, StopUnderLock, Stoppable, Idle, Handling, Saved, SaveRaised, Written, CacheOf
<1>24. ASSUME NEW c \in Runs, RestartWaited(c) PROVE TypeOK'
  BY <1>24 DEF RestartWaited, StoppedInTime, Idle, Handling
<1>25. ASSUME NEW c \in Runs, RestartLaunches(c) PROVE TypeOK'
  BY <1>25 DEF RestartLaunches, Clear, Fresh, Idle
<1>26. CASE Crash
  BY <1>26 DEF Crash, Idle
<1>27. CASE UNCHANGED vars
  BY <1>27
<1>q. QED
  BY <1>1, <1>2, <1>3, <1>4, <1>5, <1>6, <1>7, <1>8, <1>9, <1>10, <1>11, <1>12, <1>13,
     <1>14, <1>15, <1>16, <1>17, <1>18, <1>19, <1>20, <1>21, <1>22, <1>23, <1>24, <1>25, <1>26,
     <1>27
     DEF Next, LaunchStep, ThreadStep, ScriptStep, ControlStep

(* Each action moves one run along its launch or its thread and brings the  *)
(* record along; controls keep an active record active.                     *)
LEMMA NextPhase == TypeOK /\ PhaseInv /\ FileInv /\ RestartInv /\ [Next]_vars => PhaseInv'
<1> SUFFICES ASSUME TypeOK, PhaseInv, FileInv, RestartInv, [Next]_vars PROVE PhaseInv'
  OBVIOUS
<1> USE BoundsAssumption DEF TypeOK, PhaseInv, BoundsAssumption
<1>1. ASSUME NEW c \in Runs, LaunchFresh(c) PROVE PhaseInv'
  BY <1>1 DEF LaunchFresh, Clear, Fresh
<1>2. ASSUME NEW c \in Runs, NEW p \in Runs, LaunchResumed(c, p) PROVE PhaseInv'
  BY <1>2 DEF LaunchResumed, Clear, Fresh, Known, Resumable
<1>3. ASSUME NEW c \in Runs, Insert(c) PROVE PhaseInv'
  BY <1>3 DEF Insert
<1>4. ASSUME NEW c \in Runs, SaveAndStart(c) PROVE PhaseInv'
  BY <1>4 DEF SaveAndStart, Saved, SaveRaised, Written, CacheOf
<1>5. ASSUME NEW c \in Runs, ReadGate(c) PROVE PhaseInv'
  BY <1>5 DEF ReadGate
<1>6. ASSUME NEW c \in Runs, PublishStart(c) PROVE PhaseInv'
  BY <1>6 DEF PublishStart, Publish, Saved, SaveRaised, Written, CacheOf
<1>7. ASSUME NEW c \in Runs, ScriptHalts(c) PROVE PhaseInv'
  BY <1>7 DEF ScriptHalts
<1>8. ASSUME NEW c \in Runs, DecideReturned(c) PROVE PhaseInv'
  BY <1>8 DEF DecideReturned, VerdictOfReturn
<1>9. ASSUME NEW c \in Runs, PublishReturned(c) PROVE PhaseInv'
  BY <1>9 DEF PublishReturned, Publish, Saved, SaveRaised, Written, CacheOf
<1>10. ASSUME NEW c \in Runs, DecideRaised(c) PROVE PhaseInv'
  BY <1>10 DEF DecideRaised, VerdictOfRaise
<1>11. ASSUME NEW c \in Runs, PublishRaised(c) PROVE PhaseInv'
  BY <1>11 DEF PublishRaised, Publish, Saved, SaveRaised, Written, CacheOf
<1>12. ASSUME NEW c \in Runs, Finalize(c) PROVE PhaseInv'
  BY <1>12 DEF Finalize, AfterLostSave, Saved, SaveRaised, Written, CacheOf
<1>13. ASSUME NEW c \in Runs, NotifyCompletion(c) PROVE PhaseInv'
  BY <1>13 DEF NotifyCompletion
<1>14. ASSUME NEW c \in Runs, Work(c) PROVE PhaseInv'
  BY <1>14 DEF Work
<1>15. ASSUME NEW c \in Runs, Progress(c) PROVE PhaseInv'
  BY <1>15 DEF Progress, Saved, SaveRaised, Written, CacheOf
<1>16. ASSUME NEW c \in Runs, ScriptFails(c) PROVE PhaseInv'
  BY <1>16 DEF ScriptFails
<1>17. ASSUME NEW c \in Runs, ScriptReturns(c) PROVE PhaseInv'
  BY <1>17 DEF ScriptReturns
<1>18. ASSUME NEW c \in Runs, Stop(c) PROVE PhaseInv'
  BY <1>18 DEF Stop, StopUnderLock, Known, Stoppable, Saved, SaveRaised, Written, CacheOf
<1>19. ASSUME NEW c \in Runs, StopUnmanaged(c) PROVE PhaseInv'
  BY <1>19 DEF StopUnmanaged
<1>20. ASSUME NEW c \in Runs, Pause(c) PROVE PhaseInv'
  BY <1>20 DEF Pause, Known, Saved, SaveRaised, Written, CacheOf
<1>21. ASSUME NEW c \in Runs, Resume(c) PROVE PhaseInv'
  BY <1>21 DEF Resume, Held, Saved, SaveRaised, Written, CacheOf
<1>22. ASSUME NEW c \in Runs, RestartLooks(c) PROVE PhaseInv'
  BY <1>22 DEF RestartLooks, Known, Idle, Handling
<1>23. ASSUME NEW c \in Runs, RestartStops(c) PROVE PhaseInv'
  <2>1. disk[c] # "none"
    BY <1>23 DEF RestartStops, RestartInv
  <2>2. CASE Stoppable(c)
    BY <1>23, <2>1, <2>2 DEF RestartStops, StopUnderLock, Stoppable, Idle, Handling, Saved, SaveRaised, Written, CacheOf
  <2>3. CASE ~Stoppable(c)
    BY <1>23, <2>3 DEF RestartStops
  <2>4. QED
    BY <2>2, <2>3
<1>24. ASSUME NEW c \in Runs, RestartWaited(c) PROVE PhaseInv'
  BY <1>24 DEF RestartWaited, StoppedInTime, Idle, Handling
<1>25. ASSUME NEW c \in Runs, RestartLaunches(c) PROVE PhaseInv'
  BY <1>25 DEF RestartLaunches, Clear, Fresh, Idle
<1>26. CASE Crash
  BY <1>26 DEF Crash, Idle
<1>27. CASE UNCHANGED vars
  BY <1>27
<1>q. QED
  BY <1>1, <1>2, <1>3, <1>4, <1>5, <1>6, <1>7, <1>8, <1>9, <1>10, <1>11, <1>12, <1>13,
     <1>14, <1>15, <1>16, <1>17, <1>18, <1>19, <1>20, <1>21, <1>22, <1>23, <1>24, <1>25, <1>26,
     <1>27
     DEF Next, LaunchStep, ThreadStep, ScriptStep, ControlStep

(* A final record is not changed by a control, and saving it again changes  *)
(* nothing.                                                                 *)
LEMMA NextFile == TypeOK /\ PhaseInv /\ FileInv /\ RestartInv /\ [Next]_vars => FileInv'
<1> SUFFICES ASSUME TypeOK, PhaseInv, FileInv, RestartInv, [Next]_vars PROVE FileInv'
  OBVIOUS
<1> USE DEF TypeOK, PhaseInv, FileInv
<1>1. ASSUME NEW c \in Runs, LaunchFresh(c) PROVE FileInv'
  BY <1>1 DEF LaunchFresh, Clear, Fresh
<1>2. ASSUME NEW c \in Runs, NEW p \in Runs, LaunchResumed(c, p) PROVE FileInv'
  BY <1>2 DEF LaunchResumed, Clear, Fresh, Known, Resumable
<1>3. ASSUME NEW c \in Runs, Insert(c) PROVE FileInv'
  BY <1>3 DEF Insert
<1>4. ASSUME NEW c \in Runs, SaveAndStart(c) PROVE FileInv'
  BY <1>4 DEF SaveAndStart, Saved, SaveRaised, Written, CacheOf
<1>5. ASSUME NEW c \in Runs, ReadGate(c) PROVE FileInv'
  BY <1>5 DEF ReadGate
<1>6. ASSUME NEW c \in Runs, PublishStart(c) PROVE FileInv'
  BY <1>6 DEF PublishStart, Publish, Saved, SaveRaised, Written, CacheOf
<1>7. ASSUME NEW c \in Runs, ScriptHalts(c) PROVE FileInv'
  BY <1>7 DEF ScriptHalts
<1>8. ASSUME NEW c \in Runs, DecideReturned(c) PROVE FileInv'
  BY <1>8 DEF DecideReturned, VerdictOfReturn
<1>9. ASSUME NEW c \in Runs, PublishReturned(c) PROVE FileInv'
  BY <1>9 DEF PublishReturned, Publish, Saved, SaveRaised, Written, CacheOf
<1>10. ASSUME NEW c \in Runs, DecideRaised(c) PROVE FileInv'
  BY <1>10 DEF DecideRaised, VerdictOfRaise
<1>11. ASSUME NEW c \in Runs, PublishRaised(c) PROVE FileInv'
  BY <1>11 DEF PublishRaised, Publish, Saved, SaveRaised, Written, CacheOf
<1>12. ASSUME NEW c \in Runs, Finalize(c) PROVE FileInv'
  BY <1>12 DEF Finalize, AfterLostSave, Saved, SaveRaised, Written, CacheOf
<1>13. ASSUME NEW c \in Runs, NotifyCompletion(c) PROVE FileInv'
  BY <1>13 DEF NotifyCompletion
<1>14. ASSUME NEW c \in Runs, Work(c) PROVE FileInv'
  BY <1>14 DEF Work
<1>15. ASSUME NEW c \in Runs, Progress(c) PROVE FileInv'
  BY <1>15 DEF Progress, Saved, SaveRaised, Written, CacheOf
<1>16. ASSUME NEW c \in Runs, ScriptFails(c) PROVE FileInv'
  BY <1>16 DEF ScriptFails
<1>17. ASSUME NEW c \in Runs, ScriptReturns(c) PROVE FileInv'
  BY <1>17 DEF ScriptReturns
<1>18. ASSUME NEW c \in Runs, Stop(c) PROVE FileInv'
  BY <1>18 DEF Stop, StopUnderLock, Known, Stoppable, Saved, SaveRaised, Written, CacheOf
<1>19. ASSUME NEW c \in Runs, StopUnmanaged(c) PROVE FileInv'
  BY <1>19 DEF StopUnmanaged
<1>20. ASSUME NEW c \in Runs, Pause(c) PROVE FileInv'
  BY <1>20 DEF Pause, Known, Saved, SaveRaised, Written, CacheOf
<1>21. ASSUME NEW c \in Runs, Resume(c) PROVE FileInv'
  BY <1>21 DEF Resume, Held, Saved, SaveRaised, Written, CacheOf
<1>22. ASSUME NEW c \in Runs, RestartLooks(c) PROVE FileInv'
  BY <1>22 DEF RestartLooks, Known, Idle, Handling
<1>23. ASSUME NEW c \in Runs, RestartStops(c) PROVE FileInv'
  BY <1>23 DEF RestartStops, StopUnderLock, Stoppable, Idle, Handling, Saved, SaveRaised, Written, CacheOf
<1>24. ASSUME NEW c \in Runs, RestartWaited(c) PROVE FileInv'
  BY <1>24 DEF RestartWaited, StoppedInTime, Idle, Handling
<1>25. ASSUME NEW c \in Runs, RestartLaunches(c) PROVE FileInv'
  BY <1>25 DEF RestartLaunches, Clear, Fresh, Idle
<1>26. CASE Crash
  BY <1>26 DEF Crash, Idle
<1>27. CASE UNCHANGED vars
  BY <1>27
<1>q. QED
  BY <1>1, <1>2, <1>3, <1>4, <1>5, <1>6, <1>7, <1>8, <1>9, <1>10, <1>11, <1>12, <1>13,
     <1>14, <1>15, <1>16, <1>17, <1>18, <1>19, <1>20, <1>21, <1>22, <1>23, <1>24, <1>25, <1>26,
     <1>27
     DEF Next, LaunchStep, ThreadStep, ScriptStep, ControlStep

(* restart() goes on to the launch only after it saw a final status; a file *)
(* is never removed.                                                        *)
LEMMA NextRestart == TypeOK /\ PhaseInv /\ RestartInv /\ [Next]_vars => RestartInv'
<1> SUFFICES ASSUME TypeOK, PhaseInv, RestartInv, [Next]_vars PROVE RestartInv'
  OBVIOUS
<1> USE DEF TypeOK, PhaseInv, RestartInv
<1>1. ASSUME NEW c \in Runs, LaunchFresh(c) PROVE RestartInv'
  BY <1>1 DEF LaunchFresh, Clear, Fresh
<1>2. ASSUME NEW c \in Runs, NEW p \in Runs, LaunchResumed(c, p) PROVE RestartInv'
  BY <1>2 DEF LaunchResumed, Clear, Fresh, Known, Resumable
<1>3. ASSUME NEW c \in Runs, Insert(c) PROVE RestartInv'
  BY <1>3 DEF Insert
<1>4. ASSUME NEW c \in Runs, SaveAndStart(c) PROVE RestartInv'
  BY <1>4 DEF SaveAndStart, Saved, SaveRaised, Written, CacheOf
<1>5. ASSUME NEW c \in Runs, ReadGate(c) PROVE RestartInv'
  BY <1>5 DEF ReadGate
<1>6. ASSUME NEW c \in Runs, PublishStart(c) PROVE RestartInv'
  BY <1>6 DEF PublishStart, Publish, Saved, SaveRaised, Written, CacheOf
<1>7. ASSUME NEW c \in Runs, ScriptHalts(c) PROVE RestartInv'
  BY <1>7 DEF ScriptHalts
<1>8. ASSUME NEW c \in Runs, DecideReturned(c) PROVE RestartInv'
  BY <1>8 DEF DecideReturned, VerdictOfReturn
<1>9. ASSUME NEW c \in Runs, PublishReturned(c) PROVE RestartInv'
  BY <1>9 DEF PublishReturned, Publish, Saved, SaveRaised, Written, CacheOf
<1>10. ASSUME NEW c \in Runs, DecideRaised(c) PROVE RestartInv'
  BY <1>10 DEF DecideRaised, VerdictOfRaise
<1>11. ASSUME NEW c \in Runs, PublishRaised(c) PROVE RestartInv'
  BY <1>11 DEF PublishRaised, Publish, Saved, SaveRaised, Written, CacheOf
<1>12. ASSUME NEW c \in Runs, Finalize(c) PROVE RestartInv'
  BY <1>12 DEF Finalize, AfterLostSave, Saved, SaveRaised, Written, CacheOf
<1>13. ASSUME NEW c \in Runs, NotifyCompletion(c) PROVE RestartInv'
  BY <1>13 DEF NotifyCompletion
<1>14. ASSUME NEW c \in Runs, Work(c) PROVE RestartInv'
  BY <1>14 DEF Work
<1>15. ASSUME NEW c \in Runs, Progress(c) PROVE RestartInv'
  BY <1>15 DEF Progress, Saved, SaveRaised, Written, CacheOf
<1>16. ASSUME NEW c \in Runs, ScriptFails(c) PROVE RestartInv'
  BY <1>16 DEF ScriptFails
<1>17. ASSUME NEW c \in Runs, ScriptReturns(c) PROVE RestartInv'
  BY <1>17 DEF ScriptReturns
<1>18. ASSUME NEW c \in Runs, Stop(c) PROVE RestartInv'
  BY <1>18 DEF Stop, StopUnderLock, Known, Stoppable, Saved, SaveRaised, Written, CacheOf
<1>19. ASSUME NEW c \in Runs, StopUnmanaged(c) PROVE RestartInv'
  BY <1>19 DEF StopUnmanaged
<1>20. ASSUME NEW c \in Runs, Pause(c) PROVE RestartInv'
  BY <1>20 DEF Pause, Known, Saved, SaveRaised, Written, CacheOf
<1>21. ASSUME NEW c \in Runs, Resume(c) PROVE RestartInv'
  BY <1>21 DEF Resume, Held, Saved, SaveRaised, Written, CacheOf
<1>22. ASSUME NEW c \in Runs, RestartLooks(c) PROVE RestartInv'
  BY <1>22 DEF RestartLooks, Known, Idle, Handling
<1>23. ASSUME NEW c \in Runs, RestartStops(c) PROVE RestartInv'
  BY <1>23 DEF RestartStops, StopUnderLock, Stoppable, Idle, Handling, Saved, SaveRaised, Written, CacheOf
<1>24. ASSUME NEW c \in Runs, RestartWaited(c) PROVE RestartInv'
  BY <1>24 DEF RestartWaited, StoppedInTime, Idle, Handling
<1>25. ASSUME NEW c \in Runs, RestartLaunches(c) PROVE RestartInv'
  BY <1>25 DEF RestartLaunches, Clear, Fresh, Idle
<1>26. CASE Crash
  BY <1>26 DEF Crash, Idle
<1>27. CASE UNCHANGED vars
  BY <1>27
<1>q. QED
  BY <1>1, <1>2, <1>3, <1>4, <1>5, <1>6, <1>7, <1>8, <1>9, <1>10, <1>11, <1>12, <1>13,
     <1>14, <1>15, <1>16, <1>17, <1>18, <1>19, <1>20, <1>21, <1>22, <1>23, <1>24, <1>25, <1>26,
     <1>27
     DEF Next, LaunchStep, ThreadStep, ScriptStep, ControlStep

(* A run with a file is past its insertion, the only step that makes a run  *)
(* active that was not.                                                     *)
LEMMA NextSuccessor ==
  TypeOK /\ PhaseInv /\ RestartInv /\ SuccessorInv /\ [Next]_vars => SuccessorInv'
<1> SUFFICES ASSUME TypeOK, PhaseInv, RestartInv, SuccessorInv, [Next]_vars PROVE SuccessorInv'
  OBVIOUS
<1> USE RunsAssumption DEF RunsAssumption, TypeOK, PhaseInv, SuccessorInv
<1>1. ASSUME NEW c \in Runs, LaunchFresh(c) PROVE SuccessorInv'
  BY <1>1 DEF LaunchFresh, Clear, Fresh
<1>2. ASSUME NEW c \in Runs, NEW p \in Runs, LaunchResumed(c, p) PROVE SuccessorInv'
  BY <1>2 DEF LaunchResumed, Clear, Fresh, Known, Resumable
<1>3. ASSUME NEW c \in Runs, Insert(c) PROVE SuccessorInv'
  BY <1>3 DEF Insert
<1>4. ASSUME NEW c \in Runs, SaveAndStart(c) PROVE SuccessorInv'
  BY <1>4 DEF SaveAndStart, Saved, SaveRaised, Written, CacheOf
<1>5. ASSUME NEW c \in Runs, ReadGate(c) PROVE SuccessorInv'
  BY <1>5 DEF ReadGate
<1>6. ASSUME NEW c \in Runs, PublishStart(c) PROVE SuccessorInv'
  BY <1>6 DEF PublishStart, Publish, Saved, SaveRaised, Written, CacheOf
<1>7. ASSUME NEW c \in Runs, ScriptHalts(c) PROVE SuccessorInv'
  BY <1>7 DEF ScriptHalts
<1>8. ASSUME NEW c \in Runs, DecideReturned(c) PROVE SuccessorInv'
  BY <1>8 DEF DecideReturned, VerdictOfReturn
<1>9. ASSUME NEW c \in Runs, PublishReturned(c) PROVE SuccessorInv'
  BY <1>9 DEF PublishReturned, Publish, Saved, SaveRaised, Written, CacheOf
<1>10. ASSUME NEW c \in Runs, DecideRaised(c) PROVE SuccessorInv'
  BY <1>10 DEF DecideRaised, VerdictOfRaise
<1>11. ASSUME NEW c \in Runs, PublishRaised(c) PROVE SuccessorInv'
  BY <1>11 DEF PublishRaised, Publish, Saved, SaveRaised, Written, CacheOf
<1>12. ASSUME NEW c \in Runs, Finalize(c) PROVE SuccessorInv'
  BY <1>12 DEF Finalize, AfterLostSave, Saved, SaveRaised, Written, CacheOf
<1>13. ASSUME NEW c \in Runs, NotifyCompletion(c) PROVE SuccessorInv'
  BY <1>13 DEF NotifyCompletion
<1>14. ASSUME NEW c \in Runs, Work(c) PROVE SuccessorInv'
  BY <1>14 DEF Work
<1>15. ASSUME NEW c \in Runs, Progress(c) PROVE SuccessorInv'
  BY <1>15 DEF Progress, Saved, SaveRaised, Written, CacheOf
<1>16. ASSUME NEW c \in Runs, ScriptFails(c) PROVE SuccessorInv'
  BY <1>16 DEF ScriptFails
<1>17. ASSUME NEW c \in Runs, ScriptReturns(c) PROVE SuccessorInv'
  BY <1>17 DEF ScriptReturns
<1>18. ASSUME NEW c \in Runs, Stop(c) PROVE SuccessorInv'
  BY <1>18 DEF Stop, StopUnderLock, Known, Stoppable, Saved, SaveRaised, Written, CacheOf
<1>19. ASSUME NEW c \in Runs, StopUnmanaged(c) PROVE SuccessorInv'
  BY <1>19 DEF StopUnmanaged
<1>20. ASSUME NEW c \in Runs, Pause(c) PROVE SuccessorInv'
  BY <1>20 DEF Pause, Known, Saved, SaveRaised, Written, CacheOf
<1>21. ASSUME NEW c \in Runs, Resume(c) PROVE SuccessorInv'
  BY <1>21 DEF Resume, Held, Saved, SaveRaised, Written, CacheOf
<1>22. ASSUME NEW c \in Runs, RestartLooks(c) PROVE SuccessorInv'
  BY <1>22 DEF RestartLooks, Known, Idle, Handling
<1>23. ASSUME NEW c \in Runs, RestartStops(c) PROVE SuccessorInv'
  BY <1>23 DEF RestartStops, StopUnderLock, Stoppable, Idle, Handling, Saved, SaveRaised, Written, CacheOf
<1>24. ASSUME NEW c \in Runs, RestartWaited(c) PROVE SuccessorInv'
  BY <1>24 DEF RestartWaited, StoppedInTime, Idle, Handling
<1>25. ASSUME NEW c \in Runs, RestartLaunches(c) PROVE SuccessorInv'
  <2>1. restart.of \in Runs /\ disk[restart.of] # "none" /\ mem[restart.of] \notin Active
    BY <1>25 DEF RestartLaunches, RestartInv
  <2>2. QED
    BY <1>25, <2>1 DEF RestartLaunches, Clear, Fresh, Idle
<1>26. CASE Crash
  BY <1>26 DEF Crash, Idle
<1>27. CASE UNCHANGED vars
  BY <1>27
<1>q. QED
  BY <1>1, <1>2, <1>3, <1>4, <1>5, <1>6, <1>7, <1>8, <1>9, <1>10, <1>11, <1>12, <1>13,
     <1>14, <1>15, <1>16, <1>17, <1>18, <1>19, <1>20, <1>21, <1>22, <1>23, <1>24, <1>25, <1>26,
     <1>27
     DEF Next, LaunchStep, ThreadStep, ScriptStep, ControlStep

-----------------------------------------------------------------------------
(* The inductive invariant, and what follows from it. *)

(* Every reachable state of the manager satisfies the inductive invariant. *)
THEOREM Invariance == Spec => []IInv
<1>1. IInv /\ [Next]_vars => IInv'
  BY NextTypeOK, NextPhase, NextFile, NextRestart, NextSuccessor DEF IInv
<1>2. QED
  BY InitInv, <1>1, PTL DEF Spec

(* The records and the files hold known statuses in every reachable state. *)
THEOREM TypeCorrect == Spec => []TypeOK
<1>1. IInv => TypeOK
  BY DEF IInv
<1>2. QED
  BY <1>1, Invariance, PTL

(* A completion notification tells what the record file holds, for good:    *)
(* the final status and all the cached results.                             *)
THEOREM AnnouncementsArePersisted == Spec => []AnnouncedIsPersisted
<1>1. IInv => AnnouncedIsPersisted
  BY DEF IInv, FileInv, AnnouncedIsPersisted
<1>2. QED
  BY <1>1, Invariance, PTL

(* A restart waits out, and a resume is refused beside, the run it follows. *)
THEOREM SuccessorsWait == Spec => []SuccessorsFollowDeadRuns
<1>1. IInv => SuccessorsFollowDeadRuns
  BY DEF IInv, SuccessorInv, SuccessorsFollowDeadRuns
<1>2. QED
  BY <1>1, Invariance, PTL

(* Resuming an announced run whose record can be read loses none of the     *)
(* results it cached.                                                       *)
THEOREM ResumesInherit == Spec => ResumeInheritsWork
<1>1. ASSUME IInv, NEW n \in Runs, NEW r \in Runs, Insert(n), from[n] = r, notified[r] # "none",
             failures' = failures
      PROVE  inherited'[n] = work[r]
  <2>1. r # NoRun /\ failures' # failures + 1
    BY <1>1, RunsAssumption, BoundsAssumption DEF IInv, TypeOK, RunsAssumption, BoundsAssumption
  <2>2. inherited' = [inherited EXCEPT ![n] = diskWork[r]]
    BY <1>1, <2>1 DEF Insert
  <2>3. diskWork[r] = work[r]
    BY <1>1 DEF IInv, FileInv
  <2> QED  BY <1>1, <2>2, <2>3 DEF IInv, TypeOK
<1>a. IInv /\ [Next]_vars =>
        [\A n, r \in Runs : Insert(n) /\ from[n] = r /\ notified[r] # "none" /\ failures' = failures
                              => inherited'[n] = work[r]]_vars
  BY <1>1
<1>2. QED
  BY <1>a, Invariance, PTL DEF Spec, ResumeInheritsWork

(* Only a save that raised lets a final status be published again. *)
LEMMA NextVerdict ==
  ASSUME IInv, [Next]_vars, NEW r \in Runs, mem[r] \in Terminal, mem'[r] # mem[r]
  PROVE  \/ mem'[r] = "none"
         \/ failures > 0 /\ thread[r] = "failing" /\ mem'[r] \in {"failed", "stopped"}
<1> DEFINE Excused == \/ mem'[r] = "none"
                      \/ failures > 0 /\ thread[r] = "failing" /\ mem'[r] \in {"failed", "stopped"}
<1> SUFFICES Excused
  OBVIOUS
<1> USE DEF IInv, TypeOK, PhaseInv
<1>1. ASSUME NEW c \in Runs, LaunchFresh(c) PROVE Excused
  BY <1>1 DEF LaunchFresh, Clear, Fresh
<1>2. ASSUME NEW c \in Runs, NEW p \in Runs, LaunchResumed(c, p) PROVE Excused
  BY <1>2 DEF LaunchResumed, Clear, Fresh, Known, Resumable
<1>3. ASSUME NEW c \in Runs, Insert(c) PROVE Excused
  BY <1>3 DEF Insert
<1>4. ASSUME NEW c \in Runs, SaveAndStart(c) PROVE Excused
  BY <1>4 DEF SaveAndStart, Saved, SaveRaised, Written, CacheOf
<1>5. ASSUME NEW c \in Runs, ReadGate(c) PROVE Excused
  BY <1>5 DEF ReadGate
<1>6. ASSUME NEW c \in Runs, PublishStart(c) PROVE Excused
  BY <1>6 DEF PublishStart, Publish, Saved, SaveRaised, Written, CacheOf
<1>7. ASSUME NEW c \in Runs, ScriptHalts(c) PROVE Excused
  BY <1>7 DEF ScriptHalts
<1>8. ASSUME NEW c \in Runs, DecideReturned(c) PROVE Excused
  BY <1>8 DEF DecideReturned, VerdictOfReturn
<1>9. ASSUME NEW c \in Runs, PublishReturned(c) PROVE Excused
  BY <1>9 DEF PublishReturned, Publish, Saved, SaveRaised, Written, CacheOf
<1>10. ASSUME NEW c \in Runs, DecideRaised(c) PROVE Excused
  BY <1>10 DEF DecideRaised, VerdictOfRaise
<1>11. ASSUME NEW c \in Runs, PublishRaised(c) PROVE Excused
  BY <1>11 DEF PublishRaised, Publish, Saved, SaveRaised, Written, CacheOf
<1>12. ASSUME NEW c \in Runs, Finalize(c) PROVE Excused
  BY <1>12 DEF Finalize, AfterLostSave, Saved, SaveRaised, Written, CacheOf
<1>13. ASSUME NEW c \in Runs, NotifyCompletion(c) PROVE Excused
  BY <1>13 DEF NotifyCompletion
<1>14. ASSUME NEW c \in Runs, Work(c) PROVE Excused
  BY <1>14 DEF Work
<1>15. ASSUME NEW c \in Runs, Progress(c) PROVE Excused
  BY <1>15 DEF Progress, Saved, SaveRaised, Written, CacheOf
<1>16. ASSUME NEW c \in Runs, ScriptFails(c) PROVE Excused
  BY <1>16 DEF ScriptFails
<1>17. ASSUME NEW c \in Runs, ScriptReturns(c) PROVE Excused
  BY <1>17 DEF ScriptReturns
<1>18. ASSUME NEW c \in Runs, Stop(c) PROVE Excused
  BY <1>18 DEF Stop, StopUnderLock, Known, Stoppable, Saved, SaveRaised, Written, CacheOf
<1>19. ASSUME NEW c \in Runs, StopUnmanaged(c) PROVE Excused
  BY <1>19 DEF StopUnmanaged
<1>20. ASSUME NEW c \in Runs, Pause(c) PROVE Excused
  BY <1>20 DEF Pause, Known, Saved, SaveRaised, Written, CacheOf
<1>21. ASSUME NEW c \in Runs, Resume(c) PROVE Excused
  BY <1>21 DEF Resume, Held, Saved, SaveRaised, Written, CacheOf
<1>22. ASSUME NEW c \in Runs, RestartLooks(c) PROVE Excused
  BY <1>22 DEF RestartLooks, Known, Idle, Handling
<1>23. ASSUME NEW c \in Runs, RestartStops(c) PROVE Excused
  BY <1>23 DEF RestartStops, StopUnderLock, Stoppable, Idle, Handling, Saved, SaveRaised, Written, CacheOf
<1>24. ASSUME NEW c \in Runs, RestartWaited(c) PROVE Excused
  BY <1>24 DEF RestartWaited, StoppedInTime, Idle, Handling
<1>25. ASSUME NEW c \in Runs, RestartLaunches(c) PROVE Excused
  BY <1>25 DEF RestartLaunches, Clear, Fresh, Idle
<1>26. CASE Crash
  BY <1>26 DEF Crash
<1>27. CASE UNCHANGED vars
  BY <1>27
<1>q. QED
  BY <1>1, <1>2, <1>3, <1>4, <1>5, <1>6, <1>7, <1>8, <1>9, <1>10, <1>11, <1>12, <1>13,
     <1>14, <1>15, <1>16, <1>17, <1>18, <1>19, <1>20, <1>21, <1>22, <1>23, <1>24, <1>25, <1>26,
     <1>27
     DEF Next, LaunchStep, ThreadStep, ScriptStep, ControlStep

(* A final status is final: no control, late report or second look at the   *)
(* stop event changes it, unless its own save raised.                       *)
THEOREM VerdictsAreFinal == Spec => VerdictIsFinal
<1>1. IInv /\ [Next]_vars =>
        [\A r \in Runs : mem[r] \in Terminal /\ mem'[r] # mem[r] =>
           \/ mem'[r] = "none"
           \/ failures > 0 /\ thread[r] = "failing" /\ mem'[r] \in {"failed", "stopped"}]_vars
  BY NextVerdict
<1>2. QED
  BY <1>1, Invariance, PTL DEF Spec, VerdictIsFinal

-----------------------------------------------------------------------------
(* RunManager implements RunLifecycle. *)

(* No run has a record or a thread. *)
LEMMA InitLifecycle == Init => Lifecycle!Init
  BY DEF Init, Lifecycle!Init, Predecessor, Begun, Unsure

(* What is seen of a run depends on its record, its thread and what it      *)
(* follows.                                                                 *)
LEMMA ViewMoves ==
  ASSUME NEW r \in Runs, \A q \in Runs \ {r} : thread'[q] = thread[q] /\ mem'[q] = mem[q]
  PROVE  /\ Begun' = IF thread'[r] \in {"none", "starting", "publishing"} THEN Begun \ {r}
                                                                          ELSE Begun \cup {r}
         /\ Unsure' = IF thread'[r] \in {"raised", "failing"} /\ mem'[r] \in Terminal
                      THEN Unsure \cup {r} ELSE Unsure \ {r}
  BY DEF Begun, Unsure

LEMMA ViewStays ==
  /\ UNCHANGED thread => UNCHANGED Begun
  /\ UNCHANGED <<thread, mem>> => UNCHANGED Unsure
  /\ UNCHANGED <<mem, from, replaces>> => UNCHANGED Predecessor
  BY DEF Begun, Unsure, Predecessor

(* Who has a record keeps its predecessor, as long as it has one. *)
LEMMA PredecessorStays ==
  ASSUME TypeOK, NEW r \in Runs, NEW s \in Statuses \ {"none"}, mem[r] # "none", Become(r, s),
         UNCHANGED <<from, replaces>>
  PROVE  UNCHANGED Predecessor
  BY DEF TypeOK, Predecessor

(* A save of the manager is a save of the abstract run. *)
LEMMA SaveIsSave ==
  ASSUME NEW r \in Runs
  PROVE  /\ Saved(r) => Lifecycle!Succeeds(r)
         /\ SaveRaised(r) => Lifecycle!Raises(r)
  BY DEF Saved, SaveRaised, Written, CacheOf, Lifecycle!Succeeds, Lifecycle!Raises,
         Lifecycle!Written, Lifecycle!Outcomes

(* A launch is seen when the run enters _runs: what it follows is still     *)
(* over, and has a file.                                                    *)
LEMMA InsertIsLaunch == ASSUME IInv, NEW n \in Runs, Insert(n) PROVE Lifecycle!Launch(n)
<1> USE DEF IInv, TypeOK
<1>1. mem[n] = "none" /\ disk[n] = "none" /\ thread[n] = "none"
  BY DEF Insert, PhaseInv
<1>2. UNCHANGED Begun /\ UNCHANGED Unsure
  BY <1>1, ViewMoves, ViewStays DEF Insert, Unsure
<1>3. Predecessor' = [Predecessor EXCEPT ![n] = IF from[n] # NoRun THEN from[n] ELSE replaces[n]]
  BY <1>1 DEF Insert, Predecessor
<1>4. Predecessor[n] = NoRun
  BY <1>1 DEF Predecessor
<1>5. CASE from[n] = NoRun /\ replaces[n] = NoRun
  <2>1. UNCHANGED Predecessor
    BY <1>3, <1>4, <1>5 DEF Predecessor
  <2> QED  BY <1>1, <1>2, <1>5, <2>1 DEF Insert, Lifecycle!Launch, Lifecycle!Become
<1>6. CASE ~(from[n] = NoRun /\ replaces[n] = NoRun)
  <2>1. PICK r \in Runs : r = IF from[n] # NoRun THEN from[n] ELSE replaces[n]
    BY <1>6
  <2>2. mem[r] \notin Active /\ disk[r] # "none"
    BY <2>1 DEF Insert, SuccessorInv
  <2>3. /\ \/ inherited' = [inherited EXCEPT ![n] = diskWork[r]]
           \/ inherited' = [inherited EXCEPT ![n] = 0]
        /\ failures' \in {failures, failures + 1}
    BY <2>1 DEF Insert
  <2> QED  BY <1>1, <1>2, <1>3, <2>1, <2>2, <2>3
              DEF Insert, Lifecycle!Launch, Lifecycle!Become, Lifecycle!Active
<1> QED  BY <1>5, <1>6

(* An update of the thread: what is published ends the run or begins it. *)
LEMMA PublishIsSeen ==
  ASSUME IInv, NEW r \in Runs, PublishStart(r) \/ PublishReturned(r) \/ PublishRaised(r)
  PROVE  Lifecycle!Begin(r) \/ Lifecycle!End(r) \/ Lifecycle!EndAgain(r)
<1> USE DEF IInv, TypeOK, PhaseInv
<1>1. /\ mem[r] # "none" /\ disk[r] # "none" /\ chosen[r] \in Statuses \ {"none"}
      /\ \A q \in Runs \ {r} : thread'[q] = thread[q] /\ mem'[q] = mem[q]
      /\ mem' = [mem EXCEPT ![r] = chosen[r]] /\ mem'[r] = chosen[r]
      /\ UNCHANGED <<work, inherited, launchVars, notified>>
  BY DEF PublishStart, PublishReturned, PublishRaised, Publish
<1>2. UNCHANGED Predecessor
  BY <1>1, PredecessorStays
<1> USE DEF Lifecycle!Become, Lifecycle!lineageVars
<1>3. CASE PublishStart(r)
  <2>1. /\ chosen[r] \in {"running", "paused"} /\ mem[r] \in Active
        /\ thread[r] = "publishing" /\ thread'[r] \in {"script", "raised"}
    BY <1>3 DEF PublishStart, Publish
  <2>2. r \notin Begun /\ Begun' = Begun \cup {r}
    BY <1>1, <2>1, ViewMoves DEF Begun
  <2>3. UNCHANGED Unsure
    BY <1>1, <2>1, ViewMoves DEF Unsure
  <2>4. Lifecycle!Save(r)
    BY <1>3, SaveIsSave DEF PublishStart, Publish, Lifecycle!Save
  <2> QED  BY <1>1, <1>2, <2>1, <2>2, <2>3, <2>4 DEF Lifecycle!Begin, Lifecycle!Active
<1>4. CASE PublishReturned(r)
  <2>1. /\ chosen[r] \in {"stopped", "completed"} /\ mem[r] \in Active
        /\ thread[r] = "completing" /\ thread'[r] \in {"finalizing", "raised"}
    BY <1>4 DEF PublishReturned, Publish
  <2>2. r \in Begun /\ UNCHANGED Begun
    BY <1>1, <2>1, ViewMoves DEF Begun
  <2>3. r \notin Unsure
    BY <2>1 DEF Unsure
  <2>4. \/ Saved(r) /\ thread'[r] = "finalizing"
        \/ SaveRaised(r)
    BY <1>4 DEF PublishReturned, Publish
  <2>5. /\ Unsure' \in {Unsure \ {r}, Unsure \cup {r}}
        /\ thread'[r] = "finalizing" => Unsure' = Unsure \ {r}
    BY <1>1, <2>1, ViewMoves
  <2>6. Unsure \ {r} = Unsure
    BY <2>3
  <2>7. \/ Lifecycle!Succeeds(r) /\ UNCHANGED Unsure
        \/ Lifecycle!Raises(r) /\ Unsure' \in {Unsure, Unsure \cup {r}}
    BY <2>4, <2>5, <2>6, SaveIsSave
  <2> QED  BY <1>1, <1>2, <2>1, <2>2, <2>7 DEF Lifecycle!End, Lifecycle!Active, Lifecycle!Outcomes
<1>5. CASE PublishRaised(r)
  <2>1. /\ chosen[r] \in {"stopped", "failed"} /\ mem[r] \in Active \cup Terminal
        /\ thread[r] = "failing" /\ thread'[r] = "finalizing"
    BY <1>5 DEF PublishRaised, Publish
  <2>2. r \in Begun /\ UNCHANGED Begun
    BY <1>1, <2>1, ViewMoves DEF Begun
  <2>3. Unsure' = Unsure \ {r} /\ (r \in Unsure <=> mem[r] \in Terminal)
    BY <1>1, <2>1, ViewMoves DEF Unsure
  <2>4. Lifecycle!Succeeds(r) \/ Lifecycle!Raises(r)
    BY <1>5, SaveIsSave DEF PublishRaised, Publish
  <2>5. CASE mem[r] \in Terminal
    BY <1>1, <1>2, <2>1, <2>2, <2>3, <2>4, <2>5 DEF Lifecycle!EndAgain, Lifecycle!Save
  <2>6. CASE mem[r] \in Active
    <3>1. UNCHANGED Unsure
      BY <2>3, <2>6
    <3> QED  BY <1>1, <1>2, <2>1, <2>2, <2>4, <2>6, <3>1
                DEF Lifecycle!End, Lifecycle!Active, Lifecycle!Outcomes
  <2> QED  BY <2>1, <2>5, <2>6
<1> QED  BY <1>3, <1>4, <1>5

(* A control of an active record. *)
LEMMA ControlIsControl ==
  ASSUME IInv, NEW r \in Runs, NEW s \in {"running", "paused", "stopping"}, Become(r, s),
         s \in Lifecycle!Controls(mem[r]), Saved(r) \/ SaveRaised(r),
         UNCHANGED <<work, inherited, launchVars, threadVars>>
  PROVE  Lifecycle!Control(r)
<1> USE DEF IInv, TypeOK
<1>1. mem[r] \in {"queued", "running", "paused"}
  BY DEF Lifecycle!Controls
<1>2. UNCHANGED Predecessor
  BY <1>1, PredecessorStays
<1>3. UNCHANGED Begun
  BY ViewStays
<1>4. UNCHANGED Unsure
  BY <1>1, ViewMoves DEF Unsure
<1>5. Lifecycle!Save(r)
  BY SaveIsSave DEF Lifecycle!Save
<1>6. \E x \in Lifecycle!Controls(mem[r]) : Lifecycle!Become(r, x)
  BY DEF Lifecycle!Become
<1> QED  BY <1>2, <1>3, <1>4, <1>5, <1>6 DEF Lifecycle!Control, Lifecycle!lineageVars

(* Every step of the manager is one of the abstract run, or is not seen. *)
LEMMA NextLifecycle == IInv /\ [Next]_vars => [Lifecycle!Next]_(Lifecycle!vars)
<1> SUFFICES ASSUME IInv, [Next]_vars PROVE [Lifecycle!Next]_(Lifecycle!vars)
  OBVIOUS
<1> DEFINE Seen == [Lifecycle!Next]_(Lifecycle!vars)
           Unseen == UNCHANGED <<recordVars, notified, failures>>
<1> USE DEF IInv, TypeOK
<1>a. Unseen /\ UNCHANGED <<Begun, Unsure, Predecessor>> => Seen
  BY DEF Lifecycle!vars, Lifecycle!lineageVars, Lifecycle!fileVars
<1>b. \A r \in Runs :
        \/ Lifecycle!Launch(r) \/ Lifecycle!Report(r) \/ Lifecycle!Control(r) \/ Lifecycle!Begin(r)
        \/ Lifecycle!Work(r) \/ Lifecycle!End(r) \/ Lifecycle!EndAgain(r) \/ Lifecycle!Announce(r)
        \/ Lifecycle!Disown(r)
        => Seen
  BY DEF Lifecycle!Next
(* Before a run enters _runs. *)
<1>1. ASSUME NEW n \in Runs, NEW q \in Runs \cup {NoRun}, NEW s \in Runs \cup {NoRun}, Clear(n, q, s)
      PROVE  Seen
  <2>1. UNCHANGED Predecessor
    BY <1>1 DEF Clear, Fresh, Predecessor
  <2> QED  BY <1>1, <1>a, <2>1, ViewStays DEF Clear
<1>2. ASSUME NEW n \in Runs, LaunchFresh(n) PROVE Seen
  BY <1>1, <1>2 DEF LaunchFresh
<1>3. ASSUME NEW n \in Runs, NEW r \in Runs, LaunchResumed(n, r) PROVE Seen
  BY <1>1, <1>3 DEF LaunchResumed
<1>4. ASSUME NEW n \in Runs, Insert(n) PROVE Seen
  BY <1>4, <1>b, InsertIsLaunch
(* Saves that leave the record. *)
<1>5. ASSUME NEW r \in Runs, mem[r] # "none",
             UNCHANGED <<mem, work, inherited, from, replaces, notified>>,
             UNCHANGED <<Begun, Unsure>>, Saved(r) \/ SaveRaised(r)
      PROVE  Seen
  <2>1. Lifecycle!Save(r)
    BY <1>5, SaveIsSave DEF Lifecycle!Save
  <2>2. Lifecycle!Report(r)
    BY <1>5, <2>1, ViewStays DEF Lifecycle!Report, Lifecycle!lineageVars
  <2> QED  BY <1>b, <2>2
<1>6. ASSUME NEW n \in Runs, SaveAndStart(n) PROVE Seen
  <2>1. mem[n] # "none" /\ thread[n] = "none"
    BY <1>6 DEF SaveAndStart, PhaseInv
  <2>2. UNCHANGED <<Begun, Unsure>>
    BY <1>6, <2>1 DEF SaveAndStart, Begun, Unsure
  <2> QED  BY <1>5, <1>6, <2>1, <2>2 DEF SaveAndStart
<1>7. ASSUME NEW r \in Runs, Progress(r) PROVE Seen
  <2>1. mem[r] # "none"
    BY <1>7 DEF Progress, PhaseInv
  <2> QED  BY <1>5, <1>7, <2>1, ViewStays DEF Progress
<1>8. ASSUME NEW r \in Runs, Finalize(r) PROVE Seen
  <2>1. mem[r] # "none" /\ thread[r] = "finalizing"
    BY <1>8 DEF Finalize, PhaseInv
  <2>2. UNCHANGED <<Begun, Unsure>>
    BY <1>8, <2>1 DEF Finalize, AfterLostSave, Begun, Unsure
  <2> QED  BY <1>5, <1>8, <2>1, <2>2 DEF Finalize
(* Steps of the thread between its updates. *)
<1>9. ASSUME NEW r \in Runs, ReadGate(r) PROVE Seen
  <2>1. thread[r] = "starting" /\ mem[r] \in Active /\ disk[r] # "none"
    BY <1>9 DEF ReadGate, PhaseInv
  <2>2. UNCHANGED <<Unsure, Predecessor>>
    BY <1>9, <2>1, ViewStays DEF ReadGate, Unsure
  <2>3. CASE Goto(r, "publishing")
    <3>1. UNCHANGED Begun
      BY <2>1, <2>3 DEF Begun
    <3> QED  BY <1>9, <1>a, <2>2, <3>1 DEF ReadGate
  <2>4. CASE Goto(r, "raised")
    <3>1. r \notin Begun /\ Begun' = Begun \cup {r}
      BY <2>1, <2>4 DEF Begun
    <3>2. Lifecycle!Begin(r)
      BY <1>9, <2>1, <2>2, <3>1
         DEF ReadGate, Lifecycle!Begin, Lifecycle!Active, Lifecycle!fileVars, Lifecycle!lineageVars
    <3> QED  BY <1>b, <3>2
  <2> QED  BY <1>9, <2>3, <2>4 DEF ReadGate
<1>10. ASSUME NEW r \in Runs, PublishStart(r) \/ PublishReturned(r) \/ PublishRaised(r) PROVE Seen
  BY <1>10, <1>b, PublishIsSeen
<1>11. ASSUME NEW r \in Runs, Work(r) PROVE Seen
  <2>1. r \in Begun /\ mem[r] \in Active
    BY <1>11 DEF Work, PhaseInv, Begun
  <2>2. Lifecycle!Work(r)
    BY <1>11, <2>1, ViewStays
       DEF Work, Lifecycle!Work, Lifecycle!Active, Lifecycle!fileVars, Lifecycle!lineageVars
  <2> QED  BY <1>b, <2>2
<1>12. ASSUME NEW r \in Runs, ScriptHalts(r) \/ ScriptFails(r) \/ ScriptReturns(r) \/ DecideReturned(r)
       PROVE  Seen
  <2>1. /\ thread[r] \in {"script", "returned"} /\ mem[r] \in Active
        /\ \E place \in {"raised", "returned", "completing"} : Goto(r, place)
        /\ Unseen /\ UNCHANGED launchVars
    BY <1>12 DEF ScriptHalts, ScriptFails, ScriptReturns, DecideReturned, PhaseInv
  <2>2. UNCHANGED <<Begun, Unsure, Predecessor>>
    BY <2>1, ViewStays DEF Begun, Unsure
  <2> QED  BY <1>a, <2>1, <2>2
<1>13. ASSUME NEW r \in Runs, DecideRaised(r) PROVE Seen
  <2>1. UNCHANGED <<Begun, Unsure, Predecessor>>
    BY <1>13, ViewStays DEF DecideRaised, Begun, Unsure
  <2> QED  BY <1>13, <1>a, <2>1 DEF DecideRaised
<1>14. ASSUME NEW r \in Runs, NotifyCompletion(r) PROVE Seen
  <2>1. /\ mem[r] \in Terminal /\ disk[r] = mem[r] /\ diskWork[r] = work[r]
        /\ notified[r] = "none" /\ r \notin Unsure
    BY <1>14 DEF NotifyCompletion, PhaseInv, FileInv, Unsure
  <2>2. UNCHANGED <<Begun, Unsure, Predecessor>>
    BY <1>14, ViewStays DEF NotifyCompletion, Begun, Unsure
  <2>3. Lifecycle!Announce(r)
    BY <1>14, <2>1, <2>2
       DEF NotifyCompletion, Lifecycle!Announce, Lifecycle!Outcomes, Lifecycle!fileVars,
           Lifecycle!lineageVars
  <2> QED  BY <1>b, <2>3
(* Controls. *)
<1>15. ASSUME NEW r \in Runs, Stop(r) PROVE Seen
  <2>1. Lifecycle!Control(r)
    BY <1>15, ControlIsControl DEF Stop, Stoppable, StopUnderLock, Lifecycle!Controls
  <2> QED  BY <1>b, <2>1
<1>16. ASSUME NEW r \in Runs, Pause(r) PROVE Seen
  <2>1. Lifecycle!Control(r)
    BY <1>16, ControlIsControl DEF Pause, Lifecycle!Controls
  <2> QED  BY <1>b, <2>1
<1>17. ASSUME NEW r \in Runs, Resume(r) PROVE Seen
  <2>1. Lifecycle!Control(r)
    BY <1>17, ControlIsControl DEF Resume, Held, Lifecycle!Controls
  <2> QED  BY <1>b, <2>1
<1>18. ASSUME NEW r \in Runs, StopUnmanaged(r) PROVE Seen
  <2>1. Lifecycle!Disown(r)
    BY <1>18, ViewStays DEF StopUnmanaged, Lifecycle!Disown, Lifecycle!lineageVars
  <2> QED  BY <1>b, <2>1
(* A restart. *)
<1>19. ASSUME NEW r \in Runs, RestartLooks(r) \/ RestartWaited(r) PROVE Seen
  BY <1>19, <1>a, ViewStays DEF RestartLooks, RestartWaited
<1>20. ASSUME NEW r \in Runs, RestartStops(r) PROVE Seen
  <2>1. CASE Stoppable(r)
    <3>1. Lifecycle!Control(r)
      BY <1>20, <2>1, ControlIsControl DEF RestartStops, Stoppable, StopUnderLock, Lifecycle!Controls
    <3> QED  BY <1>b, <3>1
  <2>2. CASE ~Stoppable(r)
    BY <1>20, <1>a, <2>2, ViewStays DEF RestartStops
  <2> QED  BY <2>1, <2>2
<1>21. ASSUME NEW n \in Runs, RestartLaunches(n) PROVE Seen
  BY <1>1, <1>21 DEF RestartLaunches
<1>22. CASE Crash
  <2>1. Begun' = {} /\ Unsure' = {} /\ Predecessor' = [r \in Runs |-> NoRun]
    BY <1>22 DEF Crash, Begun, Unsure, Predecessor
  <2> QED  BY <1>22, <2>1 DEF Crash, Lifecycle!Crash, Lifecycle!Next, Lifecycle!fileVars
<1>23. CASE UNCHANGED vars
  BY <1>23, <1>a, ViewStays
<1> QED
  BY <1>2, <1>3, <1>4, <1>6, <1>7, <1>8, <1>9, <1>10, <1>11, <1>12, <1>13, <1>14, <1>15, <1>16,
     <1>17, <1>18, <1>19, <1>20, <1>21, <1>22, <1>23
     DEF Next, LaunchStep, ThreadStep, ScriptStep, ControlStep

(* Whatever the manager's threads, controls, saves and crashes interleave   *)
(* to, a reader of records, files and notifications sees a RunLifecycle:    *)
(* one launch after what it follows, a stop that is not taken back once the *)
(* script was reached, one outcome, and an announcement that stays true.    *)
THEOREM ImplementsLifecycle == Spec => LifecycleSpec
<1>1. Init => Lifecycle!Init
  BY InitLifecycle
<1>2. IInv /\ [Next]_vars => [Lifecycle!Next]_(Lifecycle!vars)
  BY NextLifecycle
<1>3. QED
  BY <1>1, <1>2, Invariance, PTL DEF Spec, LifecycleSpec, Lifecycle!Spec

-----------------------------------------------------------------------------
(* What ControlQueue takes for granted about the runs that its requests     *)
(* meet.                                                                    *)
ShownStatus == [r \in Runs |-> IF mem[r] \in Terminal THEN "ended" ELSE mem[r]]

Shown == INSTANCE RunStatus WITH status <- ShownStatus, begun <- Begun

AllowedMove(r) ==
  \/ Shown!Launched(r) \/ Shown!Begins(r) \/ Shown!Ends(r)
  \/ Shown!Moved(r, Shown!Stoppable, "stopping")
  \/ Shown!Moved(r, Shown!Pausable, "paused")
  \/ Shown!Moved(r, Shown!Held, "running")

(* A new status of a run is a new status shown. *)
LEMMA StatusIsShown ==
  ASSUME TypeOK, NEW r \in Runs, NEW s \in Statuses, Lifecycle!Become(r, s)
  PROVE  Shown!Become(r, IF s \in Terminal THEN "ended" ELSE s)
  BY DEF TypeOK, Lifecycle!Become, Shown!Become, ShownStatus

(* No move of the abstract run is news to the queue. *)
LEMMA LifecycleIsAllowed ==
  IInv /\ [Lifecycle!Next]_(Lifecycle!vars) =>
    \/ \E r \in Runs : AllowedMove(r)
    \/ Lifecycle!Crash
    \/ UNCHANGED <<ShownStatus, Begun>>
<1> SUFFICES ASSUME IInv, [Lifecycle!Next]_(Lifecycle!vars), ~Lifecycle!Crash
             PROVE  (\E r \in Runs : AllowedMove(r)) \/ UNCHANGED <<ShownStatus, Begun>>
  OBVIOUS
<1> USE DEF IInv, TypeOK
<1>1. CASE UNCHANGED <<mem, Begun>>
  BY <1>1 DEF ShownStatus
<1>2. CASE UNCHANGED Lifecycle!vars
  BY <1>1, <1>2 DEF Lifecycle!vars
<1>3. ASSUME NEW r \in Runs, Lifecycle!Launch(r) PROVE AllowedMove(r)
  BY <1>3, StatusIsShown DEF Lifecycle!Launch, AllowedMove, Shown!Launched, ShownStatus
<1>4. ASSUME NEW r \in Runs, Lifecycle!Control(r) PROVE AllowedMove(r)
  <2>1. PICK s \in Lifecycle!Controls(mem[r]) : Lifecycle!Become(r, s)
    BY <1>4 DEF Lifecycle!Control
  <2>2. /\ mem[r] \in {"queued", "running", "paused"} /\ ShownStatus[r] = mem[r]
        /\ \/ s = "stopping"
           \/ s = "paused" /\ mem[r] # "paused"
           \/ s = "running" /\ mem[r] = "paused"
    BY <2>1 DEF Lifecycle!Controls, ShownStatus
  <2>3. Shown!Become(r, s) /\ UNCHANGED Begun
    BY <1>4, <2>1, <2>2, StatusIsShown DEF Lifecycle!Control
  <2> QED  BY <2>2, <2>3
              DEF AllowedMove, Shown!Moved, Shown!Stoppable, Shown!Pausable, Shown!Held
<1>5. ASSUME NEW r \in Runs, Lifecycle!Begin(r) PROVE AllowedMove(r)
  <2>1. /\ mem[r] \in Active /\ ShownStatus[r] = mem[r]
        /\ r \notin Begun /\ Begun' = Begun \cup {r}
    BY <1>5 DEF Lifecycle!Begin, Lifecycle!Active, ShownStatus
  <2>2. \E s \in {mem[r], "running", "paused"} : Shown!Become(r, s)
    <3>1. CASE UNCHANGED mem
      <4>1. Shown!Become(r, mem[r])
        BY <2>1, <3>1 DEF Shown!Become, ShownStatus
      <4> QED  BY <4>1
    <3>2. CASE \E s \in {"running", "paused"} : Lifecycle!Become(r, s)
      BY <3>2, StatusIsShown
    <3> QED  BY <1>5, <3>1, <3>2 DEF Lifecycle!Begin
  <2> QED  BY <2>1, <2>2 DEF AllowedMove, Shown!Begins, Shown!Active, Shown!Stoppable
<1>6. ASSUME NEW r \in Runs, Lifecycle!End(r) PROVE AllowedMove(r)
  <2>1. /\ mem[r] \in Active /\ ShownStatus[r] = mem[r] /\ r \in Begun /\ UNCHANGED Begun
        /\ \E s \in Terminal : Lifecycle!Become(r, s)
    BY <1>6 DEF Lifecycle!End, Lifecycle!Active, Lifecycle!Outcomes, ShownStatus
  <2>2. Shown!Become(r, "ended")
    BY <2>1, StatusIsShown
  <2> QED  BY <2>1, <2>2 DEF AllowedMove, Shown!Ends, Shown!Moved, Shown!Active, Shown!Stoppable
<1>7. ASSUME NEW r \in Runs, Lifecycle!EndAgain(r) PROVE UNCHANGED <<ShownStatus, Begun>>
  BY <1>7 DEF Lifecycle!EndAgain, Lifecycle!Become, Unsure, ShownStatus
<1>8. ASSUME NEW r \in Runs,
             \/ Lifecycle!Report(r) \/ Lifecycle!Work(r) \/ Lifecycle!Announce(r) \/ Lifecycle!Disown(r)
      PROVE  UNCHANGED <<mem, Begun>>
  BY <1>8 DEF Lifecycle!Report, Lifecycle!Work, Lifecycle!Announce, Lifecycle!Disown
<1> QED  BY <1>1, <1>2, <1>3, <1>4, <1>5, <1>6, <1>7, <1>8 DEF Lifecycle!Next

(* The status of a run moves as ControlQueue assumes while requests are     *)
(* handled, until the process ends: a thread that publishes takes a stop    *)
(* back only by its first status, and a run ends only after it (manager.py, *)
(* stop, pause, resume and both updates of _run_thread).                    *)
THEOREM RunsMoveAsTheQueueAssumes ==
  Spec => [][(\E r \in Runs : AllowedMove(r)) \/ Lifecycle!Crash]_<<ShownStatus, Begun>>
<1>1. IInv /\ [Next]_vars =>
        [(\E r \in Runs : AllowedMove(r)) \/ Lifecycle!Crash]_<<ShownStatus, Begun>>
  BY NextLifecycle, LifecycleIsAllowed
<1>2. QED
  BY <1>1, Invariance, PTL DEF Spec
-----------------------------------------------------------------------------
(* How far a run's thread is: the part of StopEndsRun that is no liveness.  *)
Rank(place) ==
  CASE place = "none"       -> 0
    [] place = "starting"   -> 1
    [] place = "publishing" -> 2
    [] place = "script"     -> 3
    [] place = "returned"   -> 4
    [] place = "completing" -> 5
    [] place = "raised"     -> 6
    [] place = "failing"    -> 7
    [] place = "finalizing" -> 8
    [] place = "notifying"  -> 9
    [] place \in Over       -> 10

OnlyForward ==
  \A r \in Runs :
    /\ thread'[r] # thread[r] => Rank(thread[r]) < Rank(thread'[r]) \/ thread'[r] = "none"
    /\ r \in stopEvent => r \in stopEvent' \/ thread'[r] = "none"

(* A step moves one thread forward, or none, and withdraws no stop. *)
LEMMA NextIsForward == TypeOK /\ PhaseInv /\ [Next]_vars => OnlyForward
<1> SUFFICES ASSUME TypeOK, PhaseInv, [Next]_vars PROVE OnlyForward
  OBVIOUS
<1> USE DEF TypeOK, Over
<1>1. ASSUME stopEvent \subseteq stopEvent', UNCHANGED thread PROVE OnlyForward
  BY <1>1 DEF OnlyForward
<1>2. ASSUME UNCHANGED stopEvent, NEW r \in Runs, NEW place \in Threads,
             thread' = [thread EXCEPT ![r] = place], Rank(thread[r]) < Rank(place)
      PROVE  OnlyForward
  BY <1>2 DEF OnlyForward
<1>3. ASSUME NEW r \in Runs, LaunchStep(r) PROVE OnlyForward
  <2>1. CASE LaunchFresh(r) \/ (\E p \in Runs : LaunchResumed(r, p)) \/ Insert(r)
    BY <1>1, <2>1 DEF LaunchFresh, LaunchResumed, Clear, Insert
  <2>2. CASE SaveAndStart(r)
    <3>1. thread[r] = "none" /\ UNCHANGED stopEvent
      BY <2>2 DEF SaveAndStart, PhaseInv
    <3>2. thread' = [thread EXCEPT ![r] = "starting"] \/ UNCHANGED thread
      BY <2>2 DEF SaveAndStart
    <3> QED  BY <1>1, <1>2, <3>1, <3>2 DEF Rank
  <2> QED  BY <1>3, <2>1, <2>2 DEF LaunchStep
<1>4. ASSUME NEW r \in Runs, ThreadStep(r) PROVE OnlyForward
  <2>1. CASE ReadGate(r) \/ ScriptHalts(r)
    BY <1>2, <2>1 DEF ReadGate, ScriptHalts, Rank
  <2>2. CASE PublishStart(r)
    BY <1>2, <2>2 DEF PublishStart, Publish, Rank
  <2>3. CASE DecideReturned(r)
    BY <1>2, <2>3 DEF DecideReturned, Rank
  <2>4. CASE PublishReturned(r)
    BY <1>2, <2>4 DEF PublishReturned, Publish, Rank
  <2>5. CASE DecideRaised(r)
    <3>1. thread[r] = "raised" /\ thread' = [thread EXCEPT ![r] = "failing"] /\ UNCHANGED stopEvent
      BY <2>5 DEF DecideRaised
    <3>2. Rank("raised") < Rank("failing")
      BY DEF Rank
    <3> QED  BY <1>2, <3>1, <3>2
  <2>6. CASE PublishRaised(r)
    BY <1>2, <2>6 DEF PublishRaised, Publish, Rank
  <2>7. CASE Finalize(r) \/ NotifyCompletion(r)
    BY <1>2, <2>7 DEF Finalize, AfterLostSave, NotifyCompletion, Rank
  <2> QED  BY <1>4, <2>1, <2>2, <2>3, <2>4, <2>5, <2>6, <2>7 DEF ThreadStep
<1>5. ASSUME NEW r \in Runs, ScriptStep(r) PROVE OnlyForward
  <2>1. CASE Work(r) \/ Progress(r)
    BY <1>1, <2>1 DEF Work, Progress
  <2>2. CASE ScriptFails(r) \/ ScriptReturns(r)
    BY <1>2, <2>2 DEF ScriptFails, ScriptReturns, Rank
  <2> QED  BY <1>5, <2>1, <2>2 DEF ScriptStep
<1>6. ASSUME NEW r \in Runs, ControlStep(r) PROVE OnlyForward
  <2>1. CASE Stop(r) \/ StopUnmanaged(r) \/ Pause(r) \/ Resume(r)
    BY <1>1, <2>1 DEF Stop, StopUnderLock, StopUnmanaged, Pause, Resume
  <2>2. CASE RestartLooks(r) \/ RestartStops(r) \/ RestartWaited(r) \/ RestartLaunches(r)
    BY <1>1, <2>2 DEF RestartLooks, RestartStops, StopUnderLock, RestartWaited, RestartLaunches, Clear
  <2> QED  BY <1>6, <2>1, <2>2 DEF ControlStep
<1>7. CASE Crash
  BY <1>7 DEF Crash, OnlyForward
<1> QED  BY <1>1, <1>3, <1>4, <1>5, <1>6, <1>7 DEF Next

(* A run's thread only goes forward, whatever saves raise, and no control   *)
(* takes a stop back: with the halt that a stopped script owes, at most ten *)
(* moves of its thread are between a stop and the end of it (manager.py,    *)
(* _run_thread and stop).                                                   *)
THEOREM ThreadsOnlyGoForward == Spec => [][OnlyForward]_vars
<1>1. IInv /\ [Next]_vars => OnlyForward
  BY NextIsForward DEF IInv
<1>2. QED
  BY <1>1, Invariance, PTL DEF Spec
=============================================================================
