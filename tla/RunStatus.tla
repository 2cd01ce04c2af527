------------------------------ MODULE RunStatus ------------------------------
(***************************************************************************)
(* The moves of a run's status, for those who only see the status: the     *)
(* control requests of ControlQueue meet runs that move like this, and the *)
(* runs of RunManager move like this (RunManager_proofs,                   *)
(* RunsMoveAsTheQueueAssumes).                                             *)
(***************************************************************************)
CONSTANT Runs   \* run ids

VARIABLES
  status,   \* of each run's record, "none" before it is launched
  begun     \* runs whose thread published its first status, or failed before it

Stoppable == {"queued", "running", "paused"}
Pausable  == {"queued", "running"}
Held      == {"paused"}
Active    == Stoppable \cup {"stopping"}
Terminal  == {"ended"}   \* however it ended
Statuses  == {"none"} \cup Active \cup Terminal

Become(r, s) == status' = [status EXCEPT ![r] = s]

Launched(r) ==
  /\ status[r] = "none"
  /\ Become(r, "queued")
  /\ UNCHANGED begun

(* A control. *)
Moved(r, from, to) ==
  /\ status[r] \in from
  /\ Become(r, to)
  /\ UNCHANGED begun

(* The thread publishes its first status over whatever a control said       *)
(* before it, or fails on the way.                                          *)
Begins(r) ==
  /\ status[r] \in Active /\ r \notin begun
  /\ begun' = begun \cup {r}
  /\ \E s \in {status[r], "running", "paused"} : Become(r, s)

(* Only then may it end. *)
Ends(r) == r \in begun /\ Moved(r, Active, "ended")
=============================================================================
