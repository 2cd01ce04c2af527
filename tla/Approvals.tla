------------------------------- MODULE Approvals ------------------------------
(***************************************************************************)
(* What the user is asked and what the answers allow: the launches of      *)
(* workflows (_approve_launch of run/manager.py) and the flagged terminal  *)
(* commands of a run's children, gated by the hook of adapters/hooks.py    *)
(* before the tool call and by the callback of child/runner.py inside it.  *)
(*                                                                         *)
(* The host's approval engine is external: it lets through the patterns on *)
(* its allowlist and those approved for the session, asks the callback of  *)
(* the thread on a command line, queues an entry for the user's buttons on *)
(* a gateway, and lets everything through that nobody could answer for.    *)
(* A button answers the oldest entry of the session.  Children and         *)
(* launches share the session key.  A pattern has one description.         *)
(***************************************************************************)
EXTENDS Naturals, Sequences, FiniteSets, SequencesExt

CONSTANTS Children,    \* the children of one run
          Launches,    \* launches asked for in the same session
          Commands,    \* flagged commands: a pattern, and whether it only reads
          Setups,      \* how the host and the plugin may be configured
          MaxCommands, \* bound on the commands of all children
          Nobody

Patterns == {cmd.pattern : cmd \in Commands}
Askers   == Children \cup Launches

Surfaces  == {"cli", "gateway", "headless"}
Policies  == {"inherit", "ask", "smart", "approve", "deny"}
Modes     == {"manual", "smart", "off", "unknown"}
Fallbacks == {"smart", "approve", "deny"}

ASSUME AskersAssumption == Nobody \notin Children /\ Children \cap Launches = {}
\* The pattern_key of a launch is not that of a command.
ASSUME CommandsAssumption ==
  /\ Commands \subseteq [pattern: Patterns, readOnly: BOOLEAN]
  /\ "workflow_launch" \notin Patterns
ASSUME SetupsAssumption ==
  Setups \subseteq [surface: Surfaces, prompt: BOOLEAN, context: BOOLEAN, gated: BOOLEAN,
                    policy: Policies, mode: Modes, fallback: Fallbacks,
                    allowlist: SUBSET Patterns]

VARIABLES
  setup,        \* the configuration, which stays
  channel,      \* the gateway's notify bridge for this session
  allowlist,    \* the host's permanent allowlist
  session,      \* patterns the host has approved for the session key
  granted,      \* _session_approved_descriptions of the run's coordinator
  holder,       \* the child that holds the coordinator's lock
  issued,       \* the commands of each child, in order
  place,        \* where the last of them is
  reply,        \* the answer that waits for a child or a launch
  call,         \* the agent() call of each child
  interrupted,  \* children whose agent was told to stop
  observed,     \* tool calls the run's record shows of each child
  shown,        \* the last approval event of each child in the run's journal
  queue,        \* the gateway's entries of the session
  launch,       \* where each launch is
  ran,          \* history: commands that ran, as numbers of issued
  said          \* history: answers of the user and of the guardian, and what the hook
                \*   passed because it only reads

hostVars  == <<channel, allowlist, session>>
coordVars == <<granted, holder>>
callVars  == <<call, interrupted, observed>>
vars == <<setup, hostVars, coordVars, issued, place, reply, callVars, shown, queue,
          launch, ran, said>>

Answers  == {"once", "session", "always", "deny"}
ForGood  == {"session", "always"}
Places   == {"busy", "hook", "host", "queued", "asking", "answered", "entry", "left"}
Stages   == {"idle", "appended", "waiting", "timedout", "raised", "launched", "denied"}
Events   == {"none", "queued", "reused", "requested", "resolved"}

Init ==
  /\ setup \in Setups
  /\ channel = (setup.surface = "gateway")
  /\ allowlist = setup.allowlist
  /\ session = {} /\ granted = {}
  /\ holder = Nobody
  /\ issued = [c \in Children |-> <<>>]
  /\ place = [c \in Children |-> "busy"]
  /\ reply = [a \in Askers |-> "none"]
  /\ call = [c \in Children |-> "active"]
  /\ interrupted = {}
  /\ observed = [c \in Children |-> 0]
  /\ shown = [c \in Children |-> "none"]
  /\ queue = <<>>
  /\ launch = [l \in Launches |-> "idle"]
  /\ ran = [c \in Children |-> {}]
  /\ said = {}

--------------------------------------------------------------------------------
(* The policy *)

\* _resolve_policy, _resolve_inherit_policy: "inherit" follows the host's approvals.mode.
Policy == IF setup.policy = "inherit"
          THEN [manual |-> "ask", smart |-> "smart", off |-> "approve",
                unknown |-> "deny"][setup.mode]
          ELSE setup.policy

\* What decides when nobody is asked: "ask" degrades to ask_fallback.
Unattended == IF Policy = "ask" THEN setup.fallback ELSE Policy

\* What a policy may decide: the guardian of "smart" is an LLM.
Verdicts == [approve |-> {TRUE}, smart |-> BOOLEAN, deny |-> {FALSE}]

\* _is_interactive_cli
OnCommandLine == setup.surface = "cli"

\* _capture_cli_approval_callback: the prompt of the command line that launched the run.
Captured == OnCommandLine /\ setup.prompt
Interactive == Policy = "ask" /\ Captured

\* _capture_gateway_session_context: without it a child's thread knows of no gateway.
ChildSurface ==
  IF setup.surface = "gateway" /\ ~setup.context THEN "headless" ELSE setup.surface

\* _has_gateway_channel: a prompt of a child would reach the user.
HasGatewayChannel == ChildSurface = "gateway" /\ channel

Command(c)  == Last(issued[c])
Pattern(c)  == Command(c).pattern
ReadOnly(c) == Command(c).readOnly
Said(a, choice) == [asker |-> a, choice |-> choice,
                    number |-> IF a \in Children THEN Len(issued[a]) ELSE 0,
                    pattern |-> IF a \in Children THEN Pattern(a) ELSE "workflow_launch"]
Guardian(c) == IF Unattended = "smart" THEN {Said(c, "smart")} ELSE {}

--------------------------------------------------------------------------------
(* The children's calls *)

Registered(c) == call[c] # "over"

\* _notify_child_observer: a tool call of a registered child is shown.
Notify(c) == observed' = IF Registered(c) THEN [observed EXCEPT ![c] = @ + 1] ELSE observed

\* A child's agent makes a tool call with a flagged command: external.
Issue(c, cmd) ==
  /\ place[c] = "busy" /\ c \notin interrupted
  /\ FoldFunctionOnSet(LAMBDA s, n : Len(s) + n, 0, issued, Children) < MaxCommands
  /\ issued' = [issued EXCEPT ![c] = Append(@, cmd)]
  /\ place' = [place EXCEPT ![c] = "hook"]
  /\ Notify(c)
  /\ UNCHANGED <<setup, hostVars, coordVars, reply, call, interrupted, shown, queue,
                 launch, ran, said>>

\* run_conversation ends: at its own end or, once told to stop, after the tool call.
Leave(c) ==
  /\ place[c] = "busy"
  /\ place' = [place EXCEPT ![c] = "left"]
  /\ call' = [call EXCEPT ![c] = "over"]
  /\ UNCHANGED <<setup, hostVars, coordVars, issued, reply, interrupted, observed, shown,
                 queue, launch, ran, said>>

\* interrupt_all and skip_child reach the children whose call is not over.
Interrupt(c) ==
  /\ Registered(c)
  /\ interrupted' = interrupted \cup {c}
  /\ UNCHANGED <<setup, hostVars, coordVars, issued, place, reply, call, observed, shown,
                 queue, launch, ran, said>>

\* The call's timeout: the agent is told to stop and the worker has five seconds more.
TimeOut(c) ==
  /\ call[c] = "active"
  /\ call' = [call EXCEPT ![c] = "grace"]
  /\ interrupted' = interrupted \cup {c}
  /\ UNCHANGED <<setup, hostVars, coordVars, issued, place, reply, observed, shown, queue,
                 launch, ran, said>>

\* The worker is left to itself: after the grace, or at once when interrupt() raises.
Abandon(c) ==
  /\ Registered(c)
  /\ call' = [call EXCEPT ![c] = "over"]
  /\ UNCHANGED <<setup, hostVars, coordVars, issued, place, reply, interrupted, observed,
                 shown, queue, launch, ran, said>>

--------------------------------------------------------------------------------
(* The hook, before the tool call: pre_tool_call_handler *)

\* evaluate_command_gate has something to decide.
Gated(c) == ~OnCommandLine /\ Pattern(c) \notin allowlist

\* Left to the host: on a command line, allowlisted, or the user will be asked.
GateDefers(c) ==
  /\ place[c] = "hook"
  /\ Gated(c) => ~ReadOnly(c) /\ Policy = "ask" /\ HasGatewayChannel
  /\ place' = [place EXCEPT ![c] = "host"]
  /\ UNCHANGED <<setup, hostVars, coordVars, issued, reply, callVars, shown, queue, launch,
                 ran, said>>

\* on_allow: the session is granted the pattern of what the gate lets through.
OnAllow(c) == session' = session \cup {Pattern(c)}

GateAllows(c) ==
  /\ place[c] = "hook" /\ Gated(c)
  /\ \/ ReadOnly(c) /\ said' = said \cup {Said(c, "reading")}
     \/ /\ ~ReadOnly(c) /\ ~(Policy = "ask" /\ HasGatewayChannel)
        /\ TRUE \in Verdicts[Unattended]
        /\ said' = said \cup Guardian(c)
  /\ OnAllow(c)
  /\ place' = [place EXCEPT ![c] = "host"]
  /\ UNCHANGED <<setup, channel, allowlist, coordVars, issued, reply, callVars, shown,
                 queue, launch, ran>>

GateBlocks(c) ==
  /\ place[c] = "hook" /\ Gated(c) /\ ~ReadOnly(c)
  /\ ~(Policy = "ask" /\ HasGatewayChannel)
  /\ FALSE \in Verdicts[Unattended]
  /\ place' = [place EXCEPT ![c] = "busy"]
  /\ UNCHANGED <<setup, hostVars, coordVars, issued, reply, callVars, shown, queue, launch,
                 ran, said>>

--------------------------------------------------------------------------------
(* The host's check of the tool call: external *)

Approved(c) == Pattern(c) \in allowlist \cup session \/ ChildSurface = "headless"

Run(c) ==
  /\ ran' = [ran EXCEPT ![c] = @ \cup {Len(issued[c])}]
  /\ place' = [place EXCEPT ![c] = "busy"]

HostRuns(c) ==
  /\ place[c] = "host" /\ Approved(c)
  /\ Run(c)
  /\ UNCHANGED <<setup, hostVars, coordVars, issued, reply, callVars, shown, queue, launch,
                 said>>

\* Nobody can be asked any more: the command stays "pending" and never runs.
HostPends(c) ==
  /\ place[c] = "host" /\ ~Approved(c)
  /\ ChildSurface = "gateway" /\ ~channel
  /\ place' = [place EXCEPT ![c] = "busy"]
  /\ UNCHANGED <<setup, hostVars, coordVars, issued, reply, callVars, shown, queue, launch,
                 ran, said>>

\* queue.remove(entry), if it is still there: nobody has two.
Withdraw(a) ==
  queue' = IF \E i \in DOMAIN queue : queue[i] = a
           THEN RemoveAt(queue, CHOOSE i \in DOMAIN queue : queue[i] = a)
           ELSE queue

HostQueues(c) ==
  /\ place[c] = "host" /\ ~Approved(c) /\ HasGatewayChannel
  /\ queue' = Append(queue, c)
  /\ place' = [place EXCEPT ![c] = "entry"]
  /\ UNCHANGED <<setup, hostVars, coordVars, issued, reply, callVars, shown, launch, ran,
                 said>>

EntryExpires(c) ==
  /\ place[c] = "entry" /\ reply[c] = "none"
  /\ Withdraw(c)
  /\ place' = [place EXCEPT ![c] = "busy"]
  /\ UNCHANGED <<setup, hostVars, coordVars, issued, reply, callVars, shown, launch, ran,
                 said>>

\* The answer of a button or of the callback: recorded, and the command runs or not.
HostHears(c) ==
  /\ place[c] \in {"answered", "entry"} /\ reply[c] # "none"
  /\ reply' = [reply EXCEPT ![c] = "none"]
  /\ session' = IF reply[c] \in ForGood THEN session \cup {Pattern(c)} ELSE session
  /\ allowlist' = IF reply[c] = "always" THEN allowlist \cup {Pattern(c)} ELSE allowlist
  /\ IF reply[c] = "deny"
     THEN place' = [place EXCEPT ![c] = "busy"] /\ ran' = ran
     ELSE Run(c)
  /\ UNCHANGED <<setup, channel, coordVars, issued, callVars, shown, queue, launch, said>>

--------------------------------------------------------------------------------
(* The callback of a child's thread, on a command line *)

AtCallback(c) == place[c] = "host" /\ OnCommandLine /\ ~Approved(c)

Answered(c, choice) ==
  /\ reply' = [reply EXCEPT ![c] = choice]
  /\ place' = [place EXCEPT ![c] = "answered"]

\* _make_child_approval_callback without a user: the policy's or the guardian's answer.
CallbackDecides(c) ==
  /\ AtCallback(c) /\ ~Interactive
  /\ \E yes \in Verdicts[Unattended] :
       /\ Answered(c, IF yes THEN "once" ELSE "deny")
       /\ said' = IF yes THEN said \cup Guardian(c) ELSE said
  /\ UNCHANGED <<setup, hostVars, coordVars, issued, callVars, shown, queue, launch, ran>>

\* _with_read_only_fast_path
FastPath(c) ==
  /\ AtCallback(c) /\ Interactive /\ ReadOnly(c)
  /\ Answered(c, "once")
  /\ UNCHANGED <<setup, hostVars, coordVars, issued, callVars, shown, queue, launch, ran,
                 said>>

\* An approval event of the child reaches the run's journal, whether or not its call is over.
Journal(c, event) == shown' = [shown EXCEPT ![c] = event]

\* The coordinator's callback announces the prompt and waits for the lock.
QueuePrompt(c) ==
  /\ AtCallback(c) /\ Interactive /\ ~ReadOnly(c)
  /\ place' = [place EXCEPT ![c] = "queued"]
  /\ Journal(c, "queued")
  /\ UNCHANGED <<setup, hostVars, coordVars, issued, reply, callVars, queue, launch, ran,
                 said>>

\* Under the lock: a grant of the session answers without the user.
ReuseGrant(c) ==
  /\ place[c] = "queued" /\ holder = Nobody
  /\ Pattern(c) \in granted
  /\ Answered(c, "once")
  /\ Journal(c, "reused")
  /\ UNCHANGED <<setup, hostVars, coordVars, issued, callVars, queue, launch, ran, said>>

\* A faulty form: the grants are not looked at again under the lock.
AskUserAnyway(c) ==
  /\ place[c] = "queued" /\ holder = Nobody
  /\ holder' = c
  /\ place' = [place EXCEPT ![c] = "asking"]
  /\ Journal(c, "requested")
  /\ UNCHANGED <<setup, hostVars, granted, issued, reply, callVars, queue, launch, ran,
                 said>>

\* Otherwise the child keeps the lock while the user is asked.
AskUser(c) ==
  /\ place[c] = "queued" /\ holder = Nobody
  /\ Pattern(c) \notin granted
  /\ holder' = c
  /\ place' = [place EXCEPT ![c] = "asking"]
  /\ Journal(c, "requested")
  /\ UNCHANGED <<setup, hostVars, granted, issued, reply, callVars, queue, launch, ran,
                 said>>

\* A faulty form: a "once" is kept like a grant.
UserAnswersForAll(c, choice) ==
  /\ place[c] = "asking"
  /\ granted' = IF choice # "deny" THEN granted \cup {Pattern(c)} ELSE granted
  /\ holder' = Nobody
  /\ Journal(c, "resolved")
  /\ said' = said \cup {Said(c, choice)}
  /\ Answered(c, choice)
  /\ UNCHANGED <<setup, hostVars, issued, callVars, queue, launch, ran>>

UserAnswers(c, choice) ==
  /\ place[c] = "asking"
  /\ granted' = IF choice \in ForGood THEN granted \cup {Pattern(c)} ELSE granted
  /\ holder' = Nobody
  /\ Journal(c, "resolved")
  /\ said' = said \cup {Said(c, choice)}
  /\ Answered(c, choice)
  /\ UNCHANGED <<setup, hostVars, issued, callVars, queue, launch, ran>>

\* A faulty form: a prompt that raises leaves the lock held.
PromptFailsHolding(c) ==
  /\ place[c] = "asking"
  /\ Answered(c, "deny")
  /\ UNCHANGED <<setup, hostVars, coordVars, issued, callVars, shown, queue, launch, ran,
                 said>>

\* The prompt raises, which the host takes for a refusal: no event, the lock is free.
PromptFails(c) ==
  /\ place[c] = "asking"
  /\ holder' = Nobody
  /\ Answered(c, "deny")
  /\ UNCHANGED <<setup, hostVars, granted, issued, callVars, shown, queue, launch, ran,
                 said>>

--------------------------------------------------------------------------------
(* Launches: _approve_launch, _await_gateway_launch_decision *)

InTurn(l) == launch[l] \in {"appended", "waiting", "timedout"}

\* An entry may be in the queue.
MayHaveEntry(l) == InTurn(l) \/ launch[l] = "raised"

Decide(l, approved) ==
  launch' = [launch EXCEPT ![l] = IF approved THEN "launched" ELSE "denied"]

LaunchUnasked(l) ==
  /\ launch[l] = "idle"
  /\ \/ ~setup.gated /\ Decide(l, TRUE)
     \/ setup.gated /\ setup.surface = "headless" /\ Decide(l, FALSE)
     \/ setup.gated /\ setup.surface = "gateway" /\ ~channel /\ Decide(l, FALSE)
  /\ UNCHANGED <<setup, hostVars, coordVars, issued, place, reply, callVars, shown, queue,
                 ran, said>>

\* The confirmation of a command line is synchronous.
LaunchConfirmed(l, choice) ==
  /\ launch[l] = "idle" /\ setup.gated /\ OnCommandLine
  /\ said' = said \cup {Said(l, choice)}
  /\ Decide(l, choice # "deny")
  /\ UNCHANGED <<setup, hostVars, coordVars, issued, place, reply, callVars, shown, queue,
                 ran>>

LaunchAppends(l) ==
  /\ launch[l] = "idle" /\ setup.gated /\ setup.surface = "gateway" /\ channel
  /\ queue' = Append(queue, l)
  /\ launch' = [launch EXCEPT ![l] = "appended"]
  /\ UNCHANGED <<setup, hostVars, coordVars, issued, place, reply, callVars, shown, ran,
                 said>>

LaunchNotifies(l) ==
  /\ launch[l] = "appended"
  /\ launch' = [launch EXCEPT ![l] = "waiting"]
  /\ UNCHANGED <<setup, hostVars, coordVars, issued, place, reply, callVars, shown, queue,
                 ran, said>>

\* notify_cb raises: the entry is removed and the launch fails.
LaunchNotNotified(l) ==
  /\ launch[l] = "appended"
  /\ Withdraw(l)
  /\ Decide(l, FALSE)
  /\ UNCHANGED <<setup, hostVars, coordVars, issued, place, reply, callVars, shown, ran,
                 said>>

\* Before the wait a hook or the configuration raises, or in it what tells the host that
\* the turn is alive: the launch is denied, and its entry stays.
LaunchRaises(l) ==
  /\ launch[l] \in {"appended", "waiting"}
  /\ launch' = [launch EXCEPT ![l] = "raised"]
  /\ UNCHANGED <<setup, hostVars, coordVars, issued, place, reply, callVars, shown, queue,
                 ran, said>>

\* A hook that raises after the answer turns a yes into a no.
LaunchHears(l) ==
  /\ launch[l] = "waiting" /\ reply[l] # "none"
  /\ Withdraw(l)
  /\ \E approved \in {reply[l] # "deny", FALSE} : Decide(l, approved)
  /\ UNCHANGED <<setup, hostVars, coordVars, issued, place, reply, callVars, shown, ran,
                 said>>

\* The deadline is looked at before the event: an answer may have come just now.
LaunchTimesOut(l) ==
  /\ launch[l] = "waiting"
  /\ launch' = [launch EXCEPT ![l] = "timedout"]
  /\ UNCHANGED <<setup, hostVars, coordVars, issued, place, reply, callVars, shown, queue,
                 ran, said>>

\* A faulty form: a launch that timed out leaves its entry behind.
LaunchGivesUpOnly(l) ==
  /\ launch[l] = "timedout"
  /\ Decide(l, FALSE)
  /\ UNCHANGED <<setup, hostVars, coordVars, issued, place, reply, callVars, shown, queue,
                 ran, said>>

\* Whatever the entry holds by now, it was not resolved in time.
LaunchGivesUp(l) ==
  /\ launch[l] = "timedout"
  /\ Withdraw(l)
  /\ Decide(l, FALSE)
  /\ UNCHANGED <<setup, hostVars, coordVars, issued, place, reply, callVars, shown, ran,
                 said>>

--------------------------------------------------------------------------------
(* The user's gateway: external *)

Tap(choice) ==
  /\ queue # <<>>
  /\ reply' = [reply EXCEPT ![Head(queue)] = choice]
  /\ said' = said \cup {Said(Head(queue), choice)}
  /\ queue' = Tail(queue)
  /\ UNCHANGED <<setup, hostVars, coordVars, issued, place, callVars, shown, launch, ran>>

\* The notify bridge is torn down when the launching turn ends, and put up by the next.
\* A launch that waits keeps its turn.
TurnChanges ==
  /\ setup.surface = "gateway"
  /\ \A l \in Launches : ~InTurn(l)
  /\ channel' = ~channel
  /\ UNCHANGED <<setup, allowlist, session, coordVars, issued, place, reply, callVars,
                 shown, queue, launch, ran, said>>

--------------------------------------------------------------------------------
Gate(c) == GateDefers(c) \/ GateAllows(c) \/ GateBlocks(c)

Host(c) ==
  HostRuns(c) \/ HostPends(c) \/ HostQueues(c) \/ EntryExpires(c) \/ HostHears(c)

Callback(c) ==
  \/ CallbackDecides(c) \/ FastPath(c) \/ QueuePrompt(c) \/ ReuseGrant(c) \/ AskUser(c)
  \/ PromptFails(c)
  \/ \E choice \in Answers : UserAnswers(c, choice)

Child(c) ==
  \/ \E cmd \in Commands : Issue(c, cmd)
  \/ Leave(c) \/ Interrupt(c) \/ TimeOut(c) \/ Abandon(c)

Launch(l) ==
  \/ LaunchUnasked(l) \/ LaunchAppends(l) \/ LaunchNotifies(l) \/ LaunchNotNotified(l)
  \/ LaunchRaises(l) \/ LaunchHears(l) \/ LaunchTimesOut(l) \/ LaunchGivesUp(l)
  \/ \E choice \in Answers : LaunchConfirmed(l, choice)

Next ==
  \/ \E c \in Children : Child(c) \/ Gate(c) \/ Host(c) \/ Callback(c)
  \/ \E l \in Launches : Launch(l)
  \/ \E choice \in Answers : Tap(choice)
  \/ TurnChanges

Spec == Init /\ [][Next]_vars

--------------------------------------------------------------------------------
\* The type of the state, and what a place says of the rest: the child that is asking is
\* the one that holds the coordinator's lock, and the tool calls of a child whose call is
\* not over are all shown (hooks.py:90-104, runner.py:84-115).
TypeOK ==
  /\ setup \in Setups /\ channel \in BOOLEAN
  /\ channel => setup.surface = "gateway"
  /\ allowlist \subseteq Patterns /\ session \subseteq Patterns /\ granted \subseteq Patterns
  /\ holder \in Children \cup {Nobody}
  /\ \A c \in Children : place[c] = "asking" <=> holder = c
  /\ issued \in [Children -> Seq(Commands)]
  /\ place \in [Children -> Places]
  /\ \A c \in Children : place[c] \in Places \ {"busy", "left"} => issued[c] # <<>>
  /\ reply \in [Askers -> Answers \cup {"none"}]
  /\ call \in [Children -> {"active", "grace", "over"}]
  /\ interrupted \subseteq Children
  /\ observed \in [Children -> Nat]
  /\ \A c \in Children : /\ observed[c] <= Len(issued[c])
                         /\ Registered(c) => observed[c] = Len(issued[c])
  /\ shown \in [Children -> Events]
  /\ queue \in Seq(Askers)
  /\ launch \in [Launches -> Stages]
  /\ ran \in [Children -> SUBSET Nat] /\ \A c \in Children : ran[c] \subseteq 1 .. Len(issued[c])

\* The user or the guardian said yes to this very command, or to its pattern for good.
\* Off the command line, what the guardian lets through is passed for good.
SaidYes(c, n) ==
  \E s \in said :
    \/ s.asker = c /\ s.number = n /\ s.choice # "deny"
    \/ /\ s.pattern = issued[c][n].pattern
       /\ s.choice \in ForGood \cup IF OnCommandLine THEN {} ELSE {"smart"}

Allowed(c, n) ==
  LET cmd == issued[c][n] IN
  \/ cmd.pattern \in setup.allowlist
  \/ Unattended = "approve" /\ ~Interactive
  \/ cmd.readOnly /\ (~OnCommandLine \/ Interactive)
  \/ SaidYes(c, n)

\* Off the command line the hook let a command of this pattern through because it only
\* reads, and the session was granted the pattern with it.
PassedByReading(p) == \E s \in said : s.choice = "reading" /\ s.pattern = p

\* A flagged command runs only if its pattern was allowlisted, or the policy approves such
\* commands, or it only reads and is not on a command line whose policy decides alone, or
\* the user or the guardian said yes to it or, for good, to its pattern (runner.py:84-115,
\* 1082-1169; hooks.py:285-351).  What a user allows once, to one child, allows nothing
\* else: however prompts, grants, timeouts, and the end of the turn interleave.
\* The code makes one exception, and no other: off the command line, a command that only
\* reads passes the later ones of its pattern, those that change something too, with
\* nobody asked (hooks.py:322-328), although mutations are to stay "on the normal approval
\* path" (hooks.py:117-124).
FlaggedRunsWereAllowed ==
  \A c \in Children : \A n \in ran[c] :
    Allowed(c, n) \/ PassedByReading(issued[c][n].pattern)

\* The coordinator asks one thing at a time, and never asks what the user has already
\* answered for good, not even for a child that was queued before that answer came
\* (runner.py:84-96).
AskedOnce ==
  [][\A c \in Children : place'[c] = "asking" /\ place[c] # "asking" =>
       /\ \A d \in Children : place[d] # "asking"
       /\ \A s \in said : s.pattern = Pattern(c) => s.choice \notin ForGood]_vars

\* A tap on the gateway's buttons reaches somebody who waits for it: a child or launch that
\* stopped waiting has no entry left that would swallow the answer meant for the next one;
\* and a workflow is launched only by a yes to that very launch (manager.py:1001-1055).
\* Only a launch that an exception took out of its wait leaves its entry behind
\* (manager.py:988-1039).
TapsReachWaiters ==
  /\ \A i \in DOMAIN queue :
       LET a == queue[i] IN
       /\ reply[a] = "none"
       /\ IF a \in Children THEN place[a] = "entry" ELSE MayHaveEntry(a)
       /\ \A j \in DOMAIN queue : queue[j] = a => i = j
  /\ \A l \in Launches : launch[l] = "launched" /\ setup.gated =>
       \E s \in said : s.asker = l /\ s.choice # "deny"
===============================================================================
