------------------------------ MODULE ChildRun -------------------------------
(***************************************************************************)
(* What one child agent holds, from child/runner.py run(): its workspace   *)
(* lease (child/worktree.py), the structured_output tool's registration    *)
(* and the broker's entries (child/structured_output.py), and its worker   *)
(* thread.                                                                 *)
(*                                                                         *)
(* Three kinds of threads: the caller, which is in run(); the worker,      *)
(* which holds the conversation and may outlive the call; and the tool     *)
(* calls of a conversation, which submit results, several at a time.  The  *)
(* host's agent is external: a turn of its conversation edits, submits and *)
(* ends when it likes, after its tool calls.  An interrupt is a request to *)
(* that agent and changes nothing here; stops, slots, and skips, which     *)
(* override the outcome, are the subject of AgentExecution.                *)
(***************************************************************************)
EXTENDS Naturals, FiniteSets

CONSTANTS Children,
          Structured,   \* children with a schema
          Isolated,     \* children with a worktree that is not to be kept
          ToolCalls,    \* tool calls a child may have in flight
          MaxAttempts,  \* MAX_STRUCTURED_OUTPUT_RETRIES
          MaxSubmits    \* bound on the submissions of each child

ASSUME ChildrenAssumption == /\ IsFiniteSet(Children)
                             /\ Structured \subseteq Children
                             /\ Isolated \subseteq Children
ASSUME AttemptsAssumption == MaxAttempts \in Nat \ {0} /\ MaxSubmits \in [Children -> Nat]

VARIABLES
  pc,         \* where the caller of each child is
  outcome,    \* how the call ends
  worker,     \* the worker thread: in a turn, between turns, or how it ended
  stops,      \* stop_attempts: turns that ended without a result
  tree,       \* the worktree
  expected,   \* _StructuredOutputBroker._expect
  attempts,   \* _attempts, 0 if there is no entry
  results,    \* the tasks in _results
  exhausted,  \* _exhausted
  ticket,     \* number of the attempt each tool call is validating, or 0
  users,      \* _REGISTRY_USERS
  owned,      \* _REGISTRY_OWNED
  entry,      \* who has the tool's name in the host's registry
  validated,  \* how many submissions of each child were validated
  accepted,   \* the children that were told a submission succeeded
  abandoned   \* the children whose call went on without their worker

broker    == <<expected, attempts, results, exhausted, ticket, validated, accepted>>
registry  == <<users, owned, entry>>
threads   == <<worker, stops>>
callVars  == <<pc, outcome, abandoned>>
vars == <<callVars, threads, tree, broker, registry>>

Places   == {"idle", "leased", "scoped", "running", "grace", "leaving", "removing",
             "settling", "unscoping", "over"}
Outcomes == {"none", "answer", "exhausted", "error", "timeout"}
Ended    == {"answered", "raised", "gaveup"}
Workers  == {"none", "turn", "between"} \cup Ended
Trees    == {"none", "clean", "changed", "hidden", "stuck", "removed", "purged", "lost"}

InScope == {"scoped", "running", "grace", "leaving", "removing", "settling", "unscoping"}

Init ==
  /\ pc = [c \in Children |-> "idle"]
  /\ outcome = [c \in Children |-> "none"]
  /\ worker = [c \in Children |-> "none"]
  /\ stops = [c \in Children |-> 0]
  /\ tree = [c \in Children |-> "none"]
  /\ expected = {} /\ results = {} /\ exhausted = {}
  /\ attempts = [c \in Children |-> 0]
  /\ ticket = [c \in Children |-> [s \in ToolCalls |-> 0]]
  /\ users = 0 /\ owned = FALSE
  /\ entry \in {"none", "foreign"}
  /\ validated = [c \in Children |-> 0]
  /\ accepted = {} /\ abandoned = {}

Goto(c, place) == pc' = [pc EXCEPT ![c] = place]
Resolve(c, how) == outcome' = [outcome EXCEPT ![c] = how]

-----------------------------------------------------------------------------
(* Getting ready. *)

(* create_workspace_lease: with isolation, a worktree is added.             *)
Lease(c) ==
  /\ pc[c] = "idle"
  /\ tree' = [tree EXCEPT ![c] = IF c \in Isolated THEN "clean" ELSE "none"]
  /\ Goto(c, "leased")
  /\ UNCHANGED <<outcome, abandoned, threads, broker, registry>>

(* It raises: git refuses, or the files to copy into a tree that was added  *)
(* cannot be copied.                                                        *)
LeaseFails(c) ==
  /\ pc[c] = "idle"
  /\ \/ UNCHANGED tree
     \/ c \in Isolated /\ tree' = [tree EXCEPT ![c] = "clean"]
  /\ Resolve(c, "error")
  /\ Goto(c, "over")
  /\ UNCHANGED <<abandoned, threads, broker, registry>>

(* The runtime or the toolsets raise: nothing is given back.                *)
PrepareFails(c) ==
  /\ pc[c] = "leased"
  /\ Resolve(c, "error")
  /\ Goto(c, "over")
  /\ UNCHANGED <<abandoned, threads, tree, broker, registry>>

(* structured_output_tool_scope: the first user registers the tool.         *)
EnterScope(c) ==
  /\ pc[c] = "leased"
  /\ IF c \in Structured
     THEN /\ users = 0 => entry # "foreign"
          /\ users' = users + 1
          /\ owned' = IF users = 0 THEN entry = "none" ELSE owned
          /\ entry' = IF users = 0 THEN "ours" ELSE entry
     ELSE UNCHANGED registry
  /\ Goto(c, "scoped")
  /\ UNCHANGED <<outcome, abandoned, threads, tree, broker>>

(* Another tool has the name: RuntimeError, and no user is counted.         *)
ScopeRefused(c) ==
  /\ pc[c] = "leased" /\ c \in Structured
  /\ users = 0 /\ entry = "foreign"
  /\ Resolve(c, "error")
  /\ Goto(c, "over")
  /\ UNCHANGED <<abandoned, threads, tree, broker, registry>>

(* Building or configuring the agent raises inside the scope, before the    *)
(* expectation and before anything that cleans up.                          *)
BuildFails(c) ==
  /\ pc[c] = "scoped"
  /\ Resolve(c, "error")
  /\ Goto(c, "unscoping")
  /\ UNCHANGED <<abandoned, threads, tree, broker, registry>>

(* register_expectation, then the worker's first turn. *)
Launch(c) ==
  /\ pc[c] = "scoped"
  /\ IF c \in Structured
     THEN /\ expected' = expected \cup {c}
          /\ attempts' = [attempts EXCEPT ![c] = 0]
          /\ results' = results \ {c}
          /\ exhausted' = exhausted \ {c}
     ELSE UNCHANGED <<expected, attempts, results, exhausted>>
  /\ worker' = [worker EXCEPT ![c] = "turn"]
  /\ Goto(c, "running")
  /\ UNCHANGED <<outcome, abandoned, stops, tree, ticket, validated, accepted, registry>>

-----------------------------------------------------------------------------
(* The worker and its tool calls. *)

(* Work that git would show, or that it would not: ignored files, commits   *)
(* that HEAD has left, any commit if the base was not known.                *)
Edit(c) ==
  /\ worker[c] = "turn" /\ tree[c] \in {"clean", "changed", "hidden", "stuck"}
  /\ \E work \in {"changed", "hidden"} : tree' = [tree EXCEPT ![c] = work]
  /\ UNCHANGED <<callVars, threads, broker, registry>>

(* submit(), its first critical section: the attempt is counted for any     *)
(* task, and validated for an expected one within the limit.  The host      *)
(* finds the handler by the tool's name, for the children that have it.     *)
WithinLimitLoose(n) == n <= MaxAttempts + 1
WithinLimit(n) == n <= MaxAttempts

Submit(c, s) ==
  /\ c \in Structured /\ entry = "ours"
  /\ worker[c] = "turn" /\ ticket[c][s] = 0
  /\ attempts[c] < MaxSubmits[c]
  /\ attempts' = [attempts EXCEPT ![c] = @ + 1]
  /\ IF c \in expected /\ WithinLimit(attempts[c] + 1)
     THEN /\ ticket' = [ticket EXCEPT ![c] = [ticket[c] EXCEPT ![s] = attempts[c] + 1]]
          /\ validated' = [validated EXCEPT ![c] = @ + 1]
     ELSE UNCHANGED <<ticket, validated>>
  /\ UNCHANGED <<callVars, threads, tree, expected, results, exhausted, accepted, registry>>

Answered(c, s) == ticket' = [ticket EXCEPT ![c] = [ticket[c] EXCEPT ![s] = 0]]

Accept(c, s) ==
  /\ ticket[c][s] > 0
  /\ Answered(c, s)
  /\ results' = results \cup {c}
  /\ accepted' = accepted \cup {c}
  /\ UNCHANGED <<callVars, threads, tree, expected, attempts, exhausted, validated, registry>>

(* The last attempt marks the task, and interrupts the child. *)
Reject(c, s) ==
  /\ ticket[c][s] > 0
  /\ Answered(c, s)
  /\ exhausted' = IF ticket[c][s] >= MaxAttempts THEN exhausted \cup {c} ELSE exhausted
  /\ UNCHANGED <<callVars, threads, tree, expected, attempts, results, validated, accepted,
                 registry>>

EndTurn(c, how) ==
  /\ worker[c] = "turn"
  /\ \A s \in ToolCalls : ticket[c][s] = 0
  /\ worker' = [worker EXCEPT ![c] = how]
  /\ UNCHANGED <<callVars, stops, tree, broker, registry>>

TurnEnds(c) == EndTurn(c, "between")
TurnRaises(c) == EndTurn(c, "raised")

(* A faulty form: the turns that end without a submission are not counted. *)
GivesUpOnAttempts(c) == c \notin results /\ attempts[c] >= MaxAttempts

(* A faulty form: the attempts are looked at before the result. *)
GivesUpFirst(c) == attempts[c] >= MaxAttempts \/ stops[c] + 1 >= MaxAttempts

(* peek_result after a turn, in this order: a result ends the loop whatever *)
(* the number of attempts; without one, five attempts or five turns do.     *)
GivesUp(c) == /\ c \notin results
              /\ attempts[c] >= MaxAttempts \/ stops[c] + 1 >= MaxAttempts

Peek(c) ==
  /\ worker[c] = "between"
  /\ IF c \in Structured
     THEN \/ /\ GivesUp(c)
             /\ worker' = [worker EXCEPT ![c] = "gaveup"]
             /\ UNCHANGED stops
          \/ /\ ~GivesUp(c) /\ c \in results
             /\ worker' = [worker EXCEPT ![c] = "answered"]
             /\ UNCHANGED stops
          \/ /\ ~GivesUp(c) /\ c \notin results
             /\ worker' = [worker EXCEPT ![c] = "turn"]
             /\ stops' = [stops EXCEPT ![c] = @ + 1]
     ELSE worker' = [worker EXCEPT ![c] = "answered"] /\ UNCHANGED stops
  /\ UNCHANGED <<callVars, tree, broker, registry>>

-----------------------------------------------------------------------------
(* The caller waits for the worker, and gives everything back. *)

(* An answer may still be a failure the host reports in it. *)
Collect(c) ==
  /\ pc[c] = "running" /\ worker[c] \in Ended
  /\ \/ worker[c] = "answered" /\ Resolve(c, "answer")
     \/ worker[c] = "gaveup" /\ Resolve(c, "exhausted")
     \/ worker[c] \in {"answered", "raised"} /\ Resolve(c, "error")
  /\ Goto(c, "leaving")
  /\ UNCHANGED <<abandoned, threads, tree, broker, registry>>

Timeout(c) ==
  /\ pc[c] = "running"
  /\ Resolve(c, "timeout")
  /\ Goto(c, "grace")
  /\ UNCHANGED <<abandoned, threads, tree, broker, registry>>

LeaveGrace(c) ==
  /\ pc[c] = "grace"
  /\ abandoned' = IF worker[c] \in Ended THEN abandoned ELSE abandoned \cup {c}
  /\ Goto(c, "leaving")
  /\ UNCHANGED <<outcome, threads, tree, broker, registry>>

(* A faulty form: a worktree is removed whatever is in it. *)
WithoutLooking(c) == c \in Isolated /\ tree[c] \in {"clean", "changed", "hidden"}

(* The agent is closed, and the worktree looked at, with git status and a   *)
(* count of the commits up to HEAD: if they show nothing it is to be        *)
(* removed, one that cannot be looked at stays.                             *)
Removable(c) == c \in Isolated /\ tree[c] \in {"clean", "hidden"}

CloseChild(c) ==
  /\ pc[c] = "leaving"
  /\ \/ Removable(c) /\ Goto(c, "removing") /\ UNCHANGED tree
     \/ ~Removable(c) /\ Goto(c, "settling") /\ UNCHANGED tree
     \/ Removable(c) /\ Goto(c, "settling") /\ tree' = [tree EXCEPT ![c] = IF @ = "clean" THEN "stuck" ELSE @]
  /\ UNCHANGED <<outcome, abandoned, threads, broker, registry>>

(* git worktree remove --force, and branch -D, with whatever is in them by  *)
(* now.  Either command may time out, an exception in a finally: the call   *)
(* fails whatever it had.                                                   *)
Destroyed(work) == CASE work = "clean"   -> "removed"
                     [] work = "hidden"  -> "purged"
                     [] work = "changed" -> "lost"
                     [] OTHER            -> work

RemoveTree(c) ==
  /\ pc[c] = "removing"
  /\ tree' = [tree EXCEPT ![c] = Destroyed(@)]
  /\ UNCHANGED outcome \/ Resolve(c, "error")
  /\ Goto(c, "settling")
  /\ UNCHANGED <<abandoned, threads, broker, registry>>

RemovalFails(c) ==
  /\ pc[c] = "removing"
  /\ tree' = [tree EXCEPT ![c] = IF @ = "clean" THEN "stuck" ELSE @]
  /\ UNCHANGED outcome \/ Resolve(c, "error")
  /\ Goto(c, "settling")
  /\ UNCHANGED <<abandoned, threads, broker, registry>>

(* A faulty form: the attempts and results of the task stay. *)
ForgetExpectation(c) == /\ expected' = expected \ {c}
                        /\ UNCHANGED <<attempts, results, exhausted>>

(* The captured result is taken, and the broker forgets the task.  agent()  *)
(* fails a schema child without one.                                        *)
Forget(c) == /\ expected' = expected \ {c}
             /\ attempts' = [attempts EXCEPT ![c] = 0]
             /\ results' = results \ {c}
             /\ exhausted' = exhausted \ {c}

Settle(c) ==
  /\ pc[c] = "settling"
  /\ IF c \in Structured
     THEN /\ Forget(c)
          /\ IF outcome[c] = "answer" /\ c \notin results
             THEN Resolve(c, "error") ELSE UNCHANGED outcome
     ELSE UNCHANGED <<expected, attempts, results, exhausted, outcome>>
  /\ Goto(c, "unscoping")
  /\ UNCHANGED <<abandoned, threads, tree, ticket, validated, accepted, registry>>

(* A faulty form: whoever leaves deregisters the tool. *)
EveryUser == owned

(* The last user deregisters what was registered here. *)
LastUser == users = 1 /\ owned

ExitScope(c) ==
  /\ pc[c] = "unscoping"
  /\ IF c \in Structured
     THEN /\ users' = IF users > 0 THEN users - 1 ELSE 0
          /\ IF LastUser THEN entry' = "none" /\ owned' = FALSE
                         ELSE UNCHANGED <<entry, owned>>
     ELSE UNCHANGED registry
  /\ Goto(c, "over")
  /\ UNCHANGED <<outcome, abandoned, threads, tree, broker>>

-----------------------------------------------------------------------------
(* Another tool takes or frees the name. *)
ForeignTool ==
  /\ \/ entry = "none" /\ entry' = "foreign"
     \/ entry = "foreign" /\ entry' = "none"
  /\ UNCHANGED <<callVars, threads, tree, broker, users, owned>>

CallerStep(c) ==
  \/ Lease(c) \/ LeaseFails(c) \/ PrepareFails(c) \/ EnterScope(c) \/ ScopeRefused(c)
  \/ BuildFails(c) \/ Launch(c) \/ Collect(c) \/ Timeout(c) \/ LeaveGrace(c)
  \/ CloseChild(c) \/ RemoveTree(c) \/ RemovalFails(c) \/ Settle(c) \/ ExitScope(c)

ToolStep(c) == \E s \in ToolCalls : Accept(c, s) \/ Reject(c, s)

WorkerStep(c) == Edit(c) \/ TurnEnds(c) \/ TurnRaises(c) \/ Peek(c)

Next ==
  \/ \E c \in Children : CallerStep(c) \/ WorkerStep(c) \/ ToolStep(c)
                         \/ \E s \in ToolCalls : Submit(c, s)
  \/ ForeignTool

Spec == Init /\ [][Next]_vars

-----------------------------------------------------------------------------
(* Everything stays in its limits: the loop of a child that never submits   *)
(* or always wrongly prompts it MaxAttempts times at most.                  *)
TypeOK ==
  /\ pc \in [Children -> Places] /\ outcome \in [Children -> Outcomes]
  /\ worker \in [Children -> Workers]
  /\ stops \in [Children -> 0 .. MaxAttempts - 1]
  /\ tree \in [Children -> Trees]
  /\ expected \subseteq Structured /\ results \subseteq Children
  /\ exhausted \subseteq Children
  /\ attempts \in [Children -> Nat]
  /\ ticket \in [Children -> [ToolCalls -> 0 .. MaxAttempts]]
  /\ users \in Nat /\ owned \in BOOLEAN /\ entry \in {"none", "ours", "foreign"}
  /\ validated \in [Children -> Nat]
  /\ accepted \subseteq Children /\ abandoned \subseteq Children

(* The tool is registered from the first schema child's scope to the end of *)
(* the last one's, and no longer (structured_output.py, the scope).         *)
Scoped == {c \in Structured : pc[c] \in InScope}
ToolLivesWithScopes ==
  /\ users = Cardinality(Scoped)
  /\ entry = "ours" <=> Scoped # {}

(* At most MaxAttempts submissions of a child are ever validated, however   *)
(* many of its tool calls run at once and whenever its call ends            *)
(* (structured_output.py, submit).                                          *)
AttemptsBounded == \A c \in Children : validated[c] <= MaxAttempts

(* A child that was told its result was accepted is not failed for want of  *)
(* one, even on its last attempt and beside others that are refused; a      *)
(* schema child's answer is one that was accepted (runner.py, the loop).    *)
AcceptedResultsCount ==
  \A c \in Structured : /\ outcome[c] = "exhausted" => c \notin accepted
                        /\ outcome[c] = "answer" /\ pc[c] = "over" => c \in accepted

(* Work that git status or the count of commits would show is lost only if  *)
(* the call went on without its worker: a tree is looked at, then removed   *)
(* by force (worktree.py, cleanup).  Of work that they do not show nothing  *)
(* is said here, see NothingIsPurged.                                       *)
ShownWorkSurvives == \A c \in Children : tree[c] = "lost" => c \in abandoned

(* The broker keeps nothing of a child whose worker ended with its call     *)
(* (structured_output.py, clear): a tool call still running would put it    *)
(* back.                                                                    *)
BrokerForgets ==
  \A c \in Children : pc[c] = "over" /\ c \notin abandoned =>
    /\ c \notin expected \cup results \cup exhausted
    /\ attempts[c] = 0

-----------------------------------------------------------------------------
(* What the documentation says and the code does not do. *)

(* TECHNICAL.md:376: "the worktree is deleted after use by default": a      *)
(* clean one that git would remove does not outlive its call.               *)
WorktreesAreDeleted == \A c \in Isolated : pc[c] = "over" => tree[c] # "clean"

(* worktree.py:211: what has_changes finds nothing in is removed by force:  *)
(* nothing that a worker left in its tree is removed once it has ended.     *)
NothingIsPurged == \A c \in Children : tree[c] = "purged" => c \in abandoned
=============================================================================
