---------------------------- MODULE GateVerdict -----------------------------
(***************************************************************************)
(* gate() and _gate_judge() of engine/api.py over the resume cache, in a   *)
(* run and the runs that resume it.  A gate runs an agent, checks its      *)
(* result, and may ask a judge, which is an agent again; results of agents *)
(* and verdicts of judges are kept for the next resume.                    *)
(*                                                                         *)
(* Gates are coroutines of one script, their agents are threads.  What an  *)
(* agent() call does inside is AgentExecution's subject: here it is served *)
(* from the cache, answers, is skipped, fails or is halted.  A lookup that *)
(* misses stays a miss, because a run only takes from the results it       *)
(* inherited: lookup and answer of an agent are one step.                  *)
(***************************************************************************)
EXTENDS Naturals, FiniteSets

CONSTANTS Gates,     \* the gate() calls of the script
          Prompts,   \* their prompts
          PromptOf,  \* the prompt of each gate
          Options,   \* sets of options, as they go into a fingerprint
          AgentOptions, JudgeOptions, GateOptions,  \* those of each gate, one for each of its keys
          Checks,    \* zero-token checks
          NoCheck,   \* a gate without one
          CheckOf,   \* the check of each gate
          Scripts,   \* which gates may have judge: True, a set of gates for each script
          Results,   \* what an agent may answer
          Accepted,  \* the results each check accepts
          MaxRuns    \* bound on the runs of the chain

Verdicts == {"PASS", "BLOCK"}
Null     == "null"    \* what agent() returns for a skipped child
Values   == Results \cup Verdicts \cup {Null}

ASSUME GatesAssumption == /\ PromptOf \in [Gates -> Prompts]
                          /\ AgentOptions \in [Gates -> Options]
                          /\ JudgeOptions \in [Gates -> Options]
                          /\ GateOptions \in [Gates -> Options]
                          /\ CheckOf \in [Gates -> Checks \cup {NoCheck}]
                          /\ NoCheck \notin Checks
                          /\ Scripts \subseteq SUBSET Gates
                          /\ IsFiniteSet(Gates)
ASSUME ResultsAssumption == /\ Accepted \in [Checks -> SUBSET (Results \cup {Null})]
                            /\ Results \cap (Verdicts \cup {Null}) = {}
ASSUME RunsAssumption == MaxRuns \in Nat \ {0}

VARIABLES
  judges,    \* the gates with judge: True in the script of this chain
  run,       \* how many runs of the chain were started
  previous,  \* ResumeCache._previous: how often each value is left for each key
  current,   \* ResumeCache.current
  pc,        \* where each gate is
  value,     \* what the gated agent returned
  judged,    \* what the judge returned
  outcome,   \* how each gate ended
  stopped,   \* the run is stopped or late
  given,     \* the verdicts live judges gave for each prompt, in any run of the chain
  asked,     \* gates that ran a judge in this run
  before     \* how each gate ended in the run this one resumes

cacheVars == <<previous, current>>
gateVars  == <<pc, value, judged, outcome>>
chainVars == <<judges, run, stopped, before>>
vars == <<cacheVars, gateVars, chainVars, given, asked>>

Places   == {"idle", "gated", "checking", "asking", "judged", "over"}
Outcomes == {"none", "returned", "blocked", "unjudged", "failed", "halted"}

(* agent_fingerprint of the gated agent, of its judge, and of the gate.      *)
(* Each is made from options of its own: the agent's from the resolved ones  *)
(* and the schema, the judge's with another schema, the gate's from the      *)
(* check and the model, agentType and isolation of the call as written.  So  *)
(* gates may share any of their keys and not the others.                     *)
Keys == {"agent", "judge", "gate"} \X Prompts \X Options \X (Checks \cup {NoCheck})
AgentKey(g) == <<"agent", PromptOf[g], AgentOptions[g], NoCheck>>
JudgeKey(g) == <<"judge", PromptOf[g], JudgeOptions[g], NoCheck>>
GateKey(g)  == <<"gate", PromptOf[g], GateOptions[g], CheckOf[g]>>

Nothing == [k \in Keys |-> [v \in Values |-> 0]]

Init ==
  /\ judges \in Scripts
  /\ run = 1
  /\ previous = Nothing /\ current = Nothing
  /\ pc = [g \in Gates |-> "idle"]
  /\ value = [g \in Gates |-> Null]
  /\ judged = [g \in Gates |-> Null]
  /\ outcome = [g \in Gates |-> "none"]
  /\ stopped = FALSE
  /\ given = {} /\ asked = {}
  /\ before = [g \in Gates |-> "none"]

Goto(g, place) == pc' = [pc EXCEPT ![g] = place]
Resolve(g, how) == /\ outcome' = [outcome EXCEPT ![g] = how]
                   /\ Goto(g, "over")

-----------------------------------------------------------------------------
(* ResumeCache.get() and put().  The code's lists are first in, first out,  *)
(* in an order the threads of the run made: here any value left may come.   *)

(* A faulty form: the cache is not asked what it has. *)
AnyValue(k) == Values

Left(k) == {v \in Values : previous[k][v] > 0}
Take(k, v) == previous' = [previous EXCEPT ![k] = [previous[k] EXCEPT ![v] = @ - 1]]
Put(k, v) == current' = [current EXCEPT ![k] = [current[k] EXCEPT ![v] = @ + 1]]

-----------------------------------------------------------------------------
(* The gated agent. *)

Start(g) ==
  /\ pc[g] = "idle"
  /\ ~stopped
  /\ Goto(g, "gated")
  /\ UNCHANGED <<cacheVars, value, judged, outcome, chainVars, given, asked>>

Got(g, v) == /\ value' = [value EXCEPT ![g] = v]
             /\ Goto(g, "checking")
             /\ UNCHANGED <<judged, outcome, chainVars, given, asked>>

AgentCached(g) ==
  /\ pc[g] = "gated"
  /\ \E v \in Left(AgentKey(g)) :
       Take(AgentKey(g), v) /\ Put(AgentKey(g), v) /\ Got(g, v)

AgentAnswers(g) ==
  /\ pc[g] = "gated"
  /\ Left(AgentKey(g)) = {}
  /\ \E v \in Results : Put(AgentKey(g), v) /\ Got(g, v)
  /\ UNCHANGED previous

AgentSkipped(g) ==
  /\ pc[g] = "gated"
  /\ Left(AgentKey(g)) = {}
  /\ Got(g, Null)
  /\ UNCHANGED cacheVars

(* ChildAgentError: the script gets it, the gate decides nothing. *)
AgentFails(g) ==
  /\ pc[g] = "gated"
  /\ Left(AgentKey(g)) = {}
  /\ Resolve(g, "failed")
  /\ UNCHANGED <<cacheVars, value, judged, chainVars, given, asked>>

-----------------------------------------------------------------------------
(* The check, then the judge. *)

CheckAccepts(g) == CheckOf[g] # NoCheck => value[g] \in Accepted[CheckOf[g]]

CheckBlocks(g) ==
  /\ pc[g] = "checking" /\ ~stopped
  /\ ~CheckAccepts(g)
  /\ Resolve(g, "blocked")
  /\ UNCHANGED <<cacheVars, value, judged, chainVars, given, asked>>

(* No judge: the check alone decides, or there is nothing to decide. *)
ReturnUnjudged(g) ==
  /\ pc[g] = "checking" /\ ~stopped
  /\ CheckAccepts(g)
  /\ g \notin judges
  /\ Resolve(g, "returned")
  /\ UNCHANGED <<cacheVars, value, judged, chainVars, given, asked>>

Decision(v) == IF v = "PASS" THEN "returned" ELSE "blocked"

(* A verdict that was inherited decides, and is not kept again. *)
VerdictCached(g) ==
  /\ pc[g] = "checking" /\ ~stopped
  /\ CheckAccepts(g)
  /\ g \in judges
  /\ \E v \in Left(GateKey(g)) : Take(GateKey(g), v) /\ Resolve(g, Decision(v))
  /\ UNCHANGED <<current, value, judged, chainVars, given, asked>>

AskJudge(g) ==
  /\ pc[g] = "checking" /\ ~stopped
  /\ CheckAccepts(g)
  /\ g \in judges
  /\ Left(GateKey(g)) = {}
  /\ Goto(g, "asking")
  /\ UNCHANGED <<cacheVars, value, judged, outcome, chainVars, given, asked>>

JudgeSays(g, v) == /\ judged' = [judged EXCEPT ![g] = v]
                   /\ Goto(g, "judged")
                   /\ UNCHANGED <<value, outcome, chainVars>>

JudgeCached(g) ==
  /\ pc[g] = "asking"
  /\ \E v \in Left(JudgeKey(g)) :
       Take(JudgeKey(g), v) /\ Put(JudgeKey(g), v) /\ JudgeSays(g, v)
  /\ UNCHANGED <<given, asked>>

JudgeAnswers(g) ==
  /\ pc[g] = "asking"
  /\ Left(JudgeKey(g)) = {}
  /\ \E v \in Verdicts : /\ Put(JudgeKey(g), v)
                         /\ JudgeSays(g, v)
                         /\ given' = given \cup {<<PromptOf[g], v>>}
  /\ asked' = asked \cup {g}
  /\ UNCHANGED previous

JudgeSkipped(g) ==
  /\ pc[g] = "asking"
  /\ Left(JudgeKey(g)) = {}
  /\ JudgeSays(g, Null)
  /\ asked' = asked \cup {g}
  /\ UNCHANGED <<cacheVars, given>>

(* A faulty form: a judge without a verdict lets the gate return. *)
FailureReturns == "returned"

(* "judge could not obtain a verdict": blocked, whatever the stop event     *)
(* says, and nothing is kept.                                               *)
VerdictOfFailure == "unjudged"

JudgeFails(g) ==
  /\ pc[g] = "asking"
  /\ Left(JudgeKey(g)) = {}
  /\ Resolve(g, VerdictOfFailure)
  /\ asked' = asked \cup {g}
  /\ UNCHANGED <<cacheVars, value, judged, chainVars, given>>

(* What the judge returned is kept for the next resume, and decides. *)
Decide(g) ==
  /\ pc[g] = "judged" /\ ~stopped
  /\ Put(GateKey(g), judged[g])
  /\ Resolve(g, Decision(judged[g]))
  /\ UNCHANGED <<previous, value, judged, chainVars, given, asked>>

-----------------------------------------------------------------------------
(* Halts and resumes. *)

(* A stop, a deadline or a limit: the halt of one agent or check cancels    *)
(* the coroutines of all.                                                   *)
Halt(g) ==
  /\ \/ pc[g] \in {"gated", "asking"}
     \/ pc[g] \in {"checking", "judged"} /\ (stopped \/ \E h \in Gates : outcome[h] = "halted")
  /\ Resolve(g, "halted")
  /\ UNCHANGED <<cacheVars, value, judged, chainVars, given, asked>>

Stop ==
  /\ ~stopped
  /\ stopped' = TRUE
  /\ UNCHANGED <<cacheVars, gateVars, judges, run, before, given, asked>>

(* A faulty form: a resume starts without the verdicts. *)
NothingInherited == Nothing

(* The run is over and its agentCache in its record: another run resumes it *)
(* with the same script.                                                    *)
Inherited == current

Resume ==
  /\ run < MaxRuns
  /\ \A g \in Gates : pc[g] \in {"idle", "over"}
  /\ run' = run + 1
  /\ previous' = Inherited
  /\ current' = Nothing
  /\ before' = outcome
  /\ pc' = [g \in Gates |-> "idle"]
  /\ value' = [g \in Gates |-> Null]
  /\ judged' = [g \in Gates |-> Null]
  /\ outcome' = [g \in Gates |-> "none"]
  /\ stopped' = FALSE
  /\ asked' = {}
  /\ UNCHANGED <<judges, given>>

Next ==
  \/ \E g \in Gates :
       \/ Start(g) \/ AgentCached(g) \/ AgentAnswers(g) \/ AgentSkipped(g) \/ AgentFails(g)
       \/ CheckBlocks(g) \/ ReturnUnjudged(g) \/ VerdictCached(g) \/ AskJudge(g)
       \/ JudgeCached(g) \/ JudgeAnswers(g) \/ JudgeSkipped(g) \/ JudgeFails(g)
       \/ Decide(g) \/ Halt(g)
  \/ Stop \/ Resume

Spec == Init /\ [][Next]_vars

-----------------------------------------------------------------------------
(* Gates and caches hold what the engine can have put there. *)
TypeOK ==
  /\ judges \in Scripts
  /\ run \in 1 .. MaxRuns
  /\ previous \in [Keys -> [Values -> Nat]] /\ current \in [Keys -> [Values -> Nat]]
  /\ pc \in [Gates -> Places]
  /\ value \in [Gates -> Values] /\ judged \in [Gates -> Values]
  /\ outcome \in [Gates -> Outcomes] /\ before \in [Gates -> Outcomes]
  /\ stopped \in BOOLEAN
  /\ given \subseteq Prompts \X Verdicts
  /\ asked \subseteq Gates

(* The gate is fail-closed: a result that got through was accepted by its   *)
(* check, and some judge child of this run or of a run it descends from     *)
(* said PASS for its prompt; a skip, an error, a halt or an inherited       *)
(* result of another kind never stands in for that (api.py, gate).          *)
FailClosed ==
  \A g \in Gates : outcome[g] = "returned" =>
    /\ CheckOf[g] # NoCheck => value[g] \in Accepted[CheckOf[g]]
    /\ g \in judges => <<PromptOf[g], "PASS">> \in given

(* The run resumes one whose gates all decided. *)
Complete == run > 1 /\ \A g \in Gates : before[g] \in {"returned", "blocked"}

JudgeOnly == {g \in judges : CheckOf[g] = NoCheck}

(* The first resume of a complete run runs no judge again for a gate that   *)
(* only has a judge, whichever of the results and verdicts of the same      *)
(* prompt each gate happens to be handed (api.py, _gate_judge).             *)
FirstResumeReusesVerdicts ==
  run = 2 /\ Complete => asked \cap JudgeOnly = {}

-----------------------------------------------------------------------------
(* What the documentation says and the code does not do. *)

(* api.py:398: "a repeat call with the same gate configuration reuses the   *)
(* cached verdict instead of re-spending tokens": no resume of a complete   *)
(* run runs a judge again.                                                  *)
ResumesReuseVerdicts == Complete => asked \cap JudgeOnly = {}
=============================================================================
