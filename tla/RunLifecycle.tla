---------------------------- MODULE RunLifecycle ----------------------------
(***************************************************************************)
(* What the run manager promises of its runs to whoever reads their        *)
(* records, files and notifications, with the threads, events, gates and   *)
(* locks left out:                                                         *)
(*   - a run is launched once, after the run it restarts or resumes, and   *)
(*     starts with the results that one's file kept, or with none;         *)
(*   - controls move it until it ends, and once its script has begun a     *)
(*     stop is not taken back;                                             *)
(*   - it ends in one outcome, which is changed at most once, and only if  *)
(*     the save of it raised;                                              *)
(*   - what is announced is in the file with every result, and neither     *)
(*     changes any more, also after a crash.                               *)
(* RunManager implements it (RunManager!Lifecycle).                        *)
(***************************************************************************)
EXTENDS Naturals

CONSTANTS Runs,   \* run ids
          NoRun   \* no predecessor

VARIABLES
  status,       \* of each run's record, "none" when no process has it
  predecessor,  \* the run that a run restarts or resumes
  inherited,    \* the results a run began with
  begun,        \* the runs whose status is their thread's: the script was reached or failed
  results,      \* the results of a run's agent() calls
  saved, kept,  \* status and results in each record file
  unsure,       \* runs that ended in a save that raised, and may end again
  announced,    \* what the completion notification said
  failures      \* saves that raised, and records that could not be read

fileVars    == <<saved, kept, failures>>
lineageVars == <<predecessor, inherited>>
vars == <<status, lineageVars, begun, results, fileVars, unsure, announced>>

Active   == {"queued", "running", "paused", "stopping"}
Outcomes == {"completed", "failed", "stopped"}

Init ==
  /\ status = [r \in Runs |-> "none"]
  /\ predecessor = [r \in Runs |-> NoRun]
  /\ inherited = [r \in Runs |-> 0]
  /\ begun = {} /\ unsure = {}
  /\ results = [r \in Runs |-> 0]
  /\ saved = [r \in Runs |-> "none"]
  /\ kept = [r \in Runs |-> 0]
  /\ announced = [r \in Runs |-> "none"]
  /\ failures = 0

(* The file becomes what the record then is; a save that raises may or may  *)
(* not have replaced it.                                                    *)
Written(r) == /\ saved' = [saved EXCEPT ![r] = status'[r]]
              /\ kept' = [kept EXCEPT ![r] = IF status'[r] \in Outcomes THEN results[r] ELSE 0]

Succeeds(r) == Written(r) /\ UNCHANGED failures
Raises(r) == /\ failures' = failures + 1
             /\ Written(r) \/ UNCHANGED <<saved, kept>>
Save(r) == Succeeds(r) \/ Raises(r)

Become(r, s) == status' = [status EXCEPT ![r] = s]

Launch(n) ==
  /\ status[n] = "none" /\ saved[n] = "none"
  /\ Become(n, "queued")
  /\ \/ UNCHANGED <<predecessor, failures>> /\ inherited' = [inherited EXCEPT ![n] = 0]
     \/ \E r \in Runs : /\ status[r] \notin Active /\ saved[r] # "none"
                        /\ predecessor' = [predecessor EXCEPT ![n] = r]
                        /\ \E m \in {0, kept[r]} : inherited' = [inherited EXCEPT ![n] = m]
                        /\ failures' \in {failures, failures + 1}
  /\ UNCHANGED <<begun, results, saved, kept, unsure, announced>>

(* The record is saved as it is. *)
Report(r) ==
  /\ status[r] # "none"
  /\ Save(r)
  /\ UNCHANGED <<status, lineageVars, begun, results, unsure, announced>>

(* A control.  A stop is for good. *)
Controls(s) == CASE s = "queued"  -> {"paused", "stopping"}
                 [] s = "running" -> {"paused", "stopping"}
                 [] s = "paused"  -> {"running", "stopping"}
                 [] OTHER         -> {}

Control(r) ==
  /\ \E s \in Controls(status[r]) : Become(r, s)
  /\ Save(r)
  /\ UNCHANGED <<lineageVars, begun, results, unsure, announced>>

(* The thread publishes its first status, whatever a control said before,   *)
(* or fails on the way.                                                     *)
Begin(r) ==
  /\ status[r] \in Active /\ saved[r] # "none"
  /\ r \notin begun
  /\ begun' = begun \cup {r}
  /\ \/ UNCHANGED <<status, fileVars>>
     \/ (\E s \in {"running", "paused"} : Become(r, s)) /\ Save(r)
  /\ UNCHANGED <<lineageVars, results, unsure, announced>>

Work(r) ==
  /\ r \in begun /\ status[r] \in Active
  /\ results' = [results EXCEPT ![r] = @ + 1]
  /\ UNCHANGED <<status, lineageVars, begun, fileVars, unsure, announced>>

End(r) ==
  /\ r \in begun /\ status[r] \in Active
  /\ \E s \in Outcomes : Become(r, s)
  /\ \/ Succeeds(r) /\ UNCHANGED unsure
     \/ Raises(r) /\ unsure' \in {unsure, unsure \cup {r}}
  /\ UNCHANGED <<lineageVars, begun, results, announced>>

EndAgain(r) ==
  /\ r \in unsure
  /\ \E s \in {"failed", "stopped"} : Become(r, s)
  /\ Save(r)
  /\ unsure' = unsure \ {r}
  /\ UNCHANGED <<lineageVars, begun, results, announced>>

Announce(r) ==
  /\ announced[r] = "none"
  /\ status[r] \in Outcomes /\ r \notin unsure
  /\ saved[r] = status[r] /\ kept[r] = results[r]
  /\ announced' = [announced EXCEPT ![r] = status[r]]
  /\ UNCHANGED <<status, lineageVars, begun, results, fileVars, unsure>>

(* A file that an earlier process left is marked stopped. *)
Disown(r) ==
  /\ status[r] = "none" /\ saved[r] \in {"queued", "running", "paused"}
  /\ saved' = [saved EXCEPT ![r] = "stopped"]
  /\ UNCHANGED <<status, lineageVars, begun, results, kept, failures, unsure, announced>>

Crash ==
  /\ status' = [r \in Runs |-> "none"]
  /\ predecessor' = [r \in Runs |-> NoRun]
  /\ begun' = {} /\ unsure' = {}
  /\ UNCHANGED <<inherited, results, fileVars, announced>>

Next == \/ \E r \in Runs : \/ Launch(r) \/ Report(r) \/ Control(r) \/ Begin(r) \/ Work(r)
                           \/ End(r) \/ EndAgain(r) \/ Announce(r) \/ Disown(r)
        \/ Crash

Spec == Init /\ [][Next]_vars
=============================================================================
