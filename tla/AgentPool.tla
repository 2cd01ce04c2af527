----------------------------- MODULE AgentPool -----------------------------
(***************************************************************************)
(* What a workflow run promises about its agent() calls, with the frame    *)
(* lock, the semaphore, the pause gate and the child threads left out:     *)
(*   - an agent is admitted only below the run's agent cap, once;          *)
(*   - a call launches at most one child, and never more than Slots        *)
(*     calls have a child registered or running at a time;                 *)
(*   - a call resolves only after it is done with its child, and what it   *)
(*     resolved to never changes.                                          *)
(* AgentExecution implements it (AgentExecution!Pool).                     *)
(***************************************************************************)
EXTENDS Naturals, FiniteSets

CONSTANTS Calls,      \* the agent() calls of the run
          Slots,      \* concurrent children
          MaxAgents   \* config.max_agents

VARIABLES status,     \* the AgentRecord's status, "none" before there is one
          running,    \* calls that are not done with their child
          launched    \* calls that ever had a child

vars == <<status, running, launched>>

Statuses == {"none", "queued", "running", "done", "skipped", "error"}
Resolved == {"done", "skipped", "error"}

Admitted == {c \in Calls : status[c] # "none"}

Init == /\ status = [c \in Calls |-> "none"]
        /\ running = {}
        /\ launched = {}

Become(c, s) == /\ status' = [status EXCEPT ![c] = s]
                /\ UNCHANGED <<running, launched>>

Admit(c) == /\ status[c] = "none"
            /\ Cardinality(Admitted) < MaxAgents
            /\ Become(c, "queued")

Reuse(c) == status[c] = "queued" /\ Become(c, "done")

Begin(c) == status[c] = "queued" /\ Become(c, "running")

Launch(c) == /\ status[c] = "running"
             /\ c \notin launched
             /\ Cardinality(running) < Slots
             /\ running' = running \cup {c}
             /\ launched' = launched \cup {c}
             /\ UNCHANGED status

Retire(c) == /\ c \in running
             /\ running' = running \ {c}
             /\ UNCHANGED <<status, launched>>

Resolve(c) == /\ status[c] = "running"
              /\ c \notin running
              /\ \/ Become(c, "error")
                 \/ c \in launched /\ \E s \in {"done", "skipped"} : Become(c, s)

Next == \E c \in Calls : Admit(c) \/ Reuse(c) \/ Begin(c) \/ Launch(c) \/ Retire(c) \/ Resolve(c)

Spec == Init /\ [][Next]_vars
=============================================================================
