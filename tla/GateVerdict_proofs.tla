------------------------ MODULE GateVerdict_proofs -------------------------
(***************************************************************************)
(* That gate() is fail-closed, for any gates, prompts, checks and results, *)
(* and any number of resumes; and that the first resume of a complete run  *)
(* has a verdict for every gate that only has a judge, for any number of   *)
(* gates of the same prompt.                                               *)
(***************************************************************************)
EXTENDS GateVerdict, FiniteSetTheorems, TLAPS

(* Every PASS that is left, kept or about to be kept for a gate or a judge  *)
(* was said by a judge child about that prompt.                             *)
Passes(cache, k) == cache[k]["PASS"] > 0

VerdictInv ==
  /\ \A k \in Keys : k[1] \in {"judge", "gate"} /\ (Passes(previous, k) \/ Passes(current, k))
                       => <<k[2], "PASS">> \in given
  /\ \A g \in Gates : pc[g] = "judged" /\ judged[g] = "PASS" => <<PromptOf[g], "PASS">> \in given

(* Only a gate whose check accepts the result comes to its judge, and only  *)
(* a gate that is over has an outcome.                                      *)
PlaceInv ==
  \A g \in Gates :
    /\ pc[g] \in {"asking", "judged"} => CheckAccepts(g) /\ g \in judges
    /\ pc[g] # "over" => outcome[g] = "none"

IInv == TypeOK /\ VerdictInv /\ PlaceInv /\ FailClosed

USE DEF cacheVars, gateVars, chainVars, vars, Goto, Resolve, Places, Outcomes, Verdicts

-----------------------------------------------------------------------------
(* The keys of a gate, and which kind each of them is. *)
LEMMA KeysOfGate ==
  ASSUME NEW g \in Gates
  PROVE  /\ AgentKey(g) \in Keys /\ JudgeKey(g) \in Keys /\ GateKey(g) \in Keys
         /\ AgentKey(g)[1] = "agent"
         /\ JudgeKey(g)[1] = "judge" /\ JudgeKey(g)[2] = PromptOf[g]
         /\ GateKey(g)[1] = "gate" /\ GateKey(g)[2] = PromptOf[g]
<1>1. /\ PromptOf[g] \in Prompts /\ CheckOf[g] \in Checks \cup {NoCheck}
      /\ AgentOptions[g] \in Options /\ JudgeOptions[g] \in Options /\ GateOptions[g] \in Options
  BY GatesAssumption
<1> QED
  BY <1>1 DEF AgentKey, JudgeKey, GateKey, Keys

(* A verdict is a value, and an agent's result is none. *)
LEMMA ValuesAre ==
  /\ "PASS" \in Values /\ "BLOCK" \in Values /\ Null \in Values
  /\ Verdicts \subseteq Values /\ Results \subseteq Values
  /\ "PASS" \notin Results /\ Null # "PASS"
BY ResultsAssumption DEF Values, Null

(* get() adds nothing to what is left. *)
LEMMA TakeTakes ==
  ASSUME previous \in [Keys -> [Values -> Nat]],
         NEW k \in Keys, NEW v \in Left(k), Take(k, v)
  PROVE  /\ previous' \in [Keys -> [Values -> Nat]]
         /\ \A j \in Keys : Passes(previous', j) => Passes(previous, j)
         /\ v \in Values
         /\ v = "PASS" => Passes(previous, k)
<1>1. v \in Values /\ previous[k][v] > 0
  BY DEF Left
<1>2. previous[k] \in [Values -> Nat]
  OBVIOUS
<1> DEFINE bucket == [previous[k] EXCEPT ![v] = @ - 1]
<1>3. previous' = [previous EXCEPT ![k] = bucket]
  BY DEF Take
<1>4. previous[k][v] \in Nat /\ previous[k][v] - 1 \in Nat
  BY <1>1, <1>2
<1>5. bucket \in [Values -> Nat]
  BY <1>1, <1>2, <1>4
<1>6. previous' \in [Keys -> [Values -> Nat]]
  BY <1>3, <1>5
<1>7. ASSUME NEW j \in Keys, Passes(previous', j) PROVE Passes(previous, j)
  <2>1. CASE j = k
    <3>1. bucket["PASS"] > 0
      BY <1>3, <1>7, <2>1 DEF Passes
    <3>2. previous[k]["PASS"] > 0
      BY <1>1, <1>2, <1>4, <3>1, ValuesAre
    <3> QED
      BY <2>1, <3>2 DEF Passes
  <2>2. CASE j # k
    BY <1>3, <1>7, <2>2 DEF Passes
  <2> QED
    BY <2>1, <2>2
<1> QED
  BY <1>1, <1>6, <1>7 DEF Passes

(* put() adds the value it is given and nothing else. *)
LEMMA PutAdds ==
  ASSUME current \in [Keys -> [Values -> Nat]],
         NEW k \in Keys, NEW v \in Values, Put(k, v)
  PROVE  /\ current' \in [Keys -> [Values -> Nat]]
         /\ \A j \in Keys : Passes(current', j) => Passes(current, j) \/ (j = k /\ v = "PASS")
<1> DEFINE bucket == [current[k] EXCEPT ![v] = @ + 1]
<1>1. current' = [current EXCEPT ![k] = bucket]
  BY DEF Put
<1>2. current[k] \in [Values -> Nat] /\ current[k][v] + 1 \in Nat
  OBVIOUS
<1>3. bucket \in [Values -> Nat]
  BY <1>2
<1>4. current' \in [Keys -> [Values -> Nat]]
  BY <1>1, <1>3
<1>5. ASSUME NEW j \in Keys, Passes(current', j)
      PROVE  Passes(current, j) \/ (j = k /\ v = "PASS")
  <2>1. CASE j = k
    <3>1. bucket["PASS"] > 0
      BY <1>1, <1>5, <2>1 DEF Passes
    <3> QED
      BY <1>2, <2>1, <3>1, ValuesAre DEF Passes
  <2>2. CASE j # k
    BY <1>1, <1>5, <2>2 DEF Passes
  <2> QED
    BY <2>1, <2>2
<1> QED
  BY <1>4, <1>5

(* A run begins with nothing kept. *)
LEMMA NothingIsEmpty ==
  /\ Nothing \in [Keys -> [Values -> Nat]]
  /\ \A k \in Keys : ~Passes(Nothing, k)
<1>1. "PASS" \in Values
  BY ValuesAre
<1>2. \A k \in Keys : Nothing[k]["PASS"] = 0
  BY <1>1 DEF Nothing
<1> QED
  BY <1>2 DEF Nothing, Passes

-----------------------------------------------------------------------------
(* Nothing was asked, nothing was given. *)
LEMMA InitInv == Init => IInv
<1> SUFFICES ASSUME Init PROVE IInv
  OBVIOUS
<1>1. TypeOK
  <2>1. 1 \in 1 .. MaxRuns
    BY RunsAssumption
  <2>2. Null \in Values
    BY ValuesAre
  <2>3. previous \in [Keys -> [Values -> Nat]] /\ current \in [Keys -> [Values -> Nat]]
    BY NothingIsEmpty DEF Init
  <2> QED
    BY <2>1, <2>2, <2>3 DEF Init, TypeOK
<1>2. VerdictInv
  BY NothingIsEmpty DEF Init, VerdictInv
<1>3. PlaceInv
  BY DEF Init, PlaceInv
<1>4. FailClosed
  BY DEF Init, FailClosed
<1> QED
  BY <1>1, <1>2, <1>3, <1>4 DEF IInv

(* The caches stay typed and sound in a step that takes at most one value   *)
(* that was left, and puts at most one that is sound for its key.           *)
LEMMA CacheStep ==
  ASSUME IInv,
         given \subseteq given',
         previous' \in [Keys -> [Values -> Nat]],
         \A j \in Keys : Passes(previous', j) => Passes(previous, j),
         \A j \in Keys : Passes(current', j) =>
            \/ Passes(current, j)
            \/ j[1] \in {"judge", "gate"} => <<j[2], "PASS">> \in given'
  PROVE  \A k \in Keys : k[1] \in {"judge", "gate"} /\ (Passes(previous', k) \/ Passes(current', k))
                       => <<k[2], "PASS">> \in given'
<1> SUFFICES ASSUME NEW k \in Keys, k[1] \in {"judge", "gate"},
                    Passes(previous', k) \/ Passes(current', k)
             PROVE  <<k[2], "PASS">> \in given'
  OBVIOUS
<1>1. Passes(previous, k) \/ Passes(current, k) => <<k[2], "PASS">> \in given
  BY DEF IInv, VerdictInv
<1> QED
  BY <1>1

(* Every step of a gate, of the stop and of a resume keeps the invariant. *)
LEMMA NextInv == IInv /\ [Next]_vars => IInv'
<1> SUFFICES ASSUME IInv, [Next]_vars PROVE IInv'
  OBVIOUS
<1> USE DEF IInv
<1>t. /\ previous \in [Keys -> [Values -> Nat]] /\ current \in [Keys -> [Values -> Nat]]
      /\ pc \in [Gates -> Places] /\ value \in [Gates -> Values]
      /\ judged \in [Gates -> Values] /\ outcome \in [Gates -> Outcomes]
  BY DEF TypeOK
(* Steps that leave the caches and the verdicts alone. *)
<1>q. ASSUME UNCHANGED <<cacheVars, given>>
      PROVE  \A k \in Keys : k[1] \in {"judge", "gate"} /\ (Passes(previous', k) \/ Passes(current', k))
                       => <<k[2], "PASS">> \in given'
  BY <1>q, <1>t, CacheStep DEF Passes
<1>1. ASSUME NEW g \in Gates,
             Start(g) \/ CheckBlocks(g) \/ ReturnUnjudged(g) \/ AskJudge(g) \/ AgentFails(g)
               \/ Halt(g) \/ AgentSkipped(g)
      PROVE  IInv'
  <2>1. UNCHANGED <<cacheVars, chainVars, given, asked, judged>>
    BY <1>1 DEF Start, CheckBlocks, ReturnUnjudged, AskJudge, AgentFails, Halt, AgentSkipped, Got
  <2>2. TypeOK'
    BY <1>1, <2>1, ValuesAre DEF TypeOK, Start, CheckBlocks, ReturnUnjudged, AskJudge, AgentFails, Halt,
                      AgentSkipped, Got
  <2>3. VerdictInv'
    BY <1>1, <1>t, <1>q, <2>1 DEF VerdictInv, Start, CheckBlocks, ReturnUnjudged, AskJudge,
                      AgentFails, Halt, AgentSkipped, Got
  <2>4. PlaceInv'
    BY <1>1, <1>t, <2>1 DEF PlaceInv, CheckAccepts, Start, CheckBlocks, ReturnUnjudged, AskJudge,
                      AgentFails, Halt, AgentSkipped, Got
  <2>5. FailClosed'
    BY <1>1, <1>t, <2>1 DEF FailClosed, PlaceInv, CheckAccepts, Start, CheckBlocks, ReturnUnjudged,
                      AskJudge, AgentFails, Halt, AgentSkipped, Got
  <2> QED
    BY <2>2, <2>3, <2>4, <2>5
<1>2. ASSUME NEW g \in Gates, AgentCached(g) PROVE IInv'
  <2>1. PICK v \in Left(AgentKey(g)) :
          Take(AgentKey(g), v) /\ Put(AgentKey(g), v) /\ Got(g, v)
    BY <1>2 DEF AgentCached
  <2> DEFINE k == AgentKey(g)
  <2>2. k \in Keys /\ k[1] = "agent"
    BY KeysOfGate
  <2>3. /\ previous' \in [Keys -> [Values -> Nat]] /\ v \in Values
        /\ \A j \in Keys : Passes(previous', j) => Passes(previous, j)
    BY <1>t, <2>1, <2>2, TakeTakes
  <2>4. /\ current' \in [Keys -> [Values -> Nat]]
        /\ \A j \in Keys : Passes(current', j) => Passes(current, j) \/ j = k
    BY <1>t, <2>1, <2>2, <2>3, PutAdds
  <2>5. UNCHANGED <<chainVars, given, asked, judged, outcome>> /\ pc[g] = "gated"
    BY <1>2, <2>1 DEF Got, AgentCached
  <2>6. TypeOK'
    BY <1>2, <2>1, <2>3, <2>4, <2>5 DEF TypeOK, Got
  <2>7. \A j \in Keys : j[1] \in {"judge", "gate"} /\ (Passes(previous', j) \/ Passes(current', j))
                       => <<j[2], "PASS">> \in given'
    <3>1. given \subseteq given'
      BY <2>5
    <3>2. \A j \in Keys : Passes(current', j) =>
            \/ Passes(current, j)
            \/ j[1] \in {"judge", "gate"} => <<j[2], "PASS">> \in given'
      BY <2>2, <2>4
    <3> QED
      BY <2>3, <3>1, <3>2, CacheStep
  <2>8. VerdictInv'
    BY <1>t, <2>1, <2>5, <2>7 DEF VerdictInv, Got
  <2>9. PlaceInv' /\ FailClosed'
    BY <1>t, <2>1, <2>5 DEF PlaceInv, FailClosed, CheckAccepts, Got
  <2> QED
    BY <2>6, <2>8, <2>9
<1>3. ASSUME NEW g \in Gates, AgentAnswers(g) PROVE IInv'
  <2>1. PICK v \in Results : Put(AgentKey(g), v) /\ Got(g, v)
    BY <1>3 DEF AgentAnswers
  <2> DEFINE k == AgentKey(g)
  <2>2. k \in Keys /\ k[1] = "agent" /\ v \in Values
    BY KeysOfGate, ValuesAre
  <2>4. /\ current' \in [Keys -> [Values -> Nat]]
        /\ \A j \in Keys : Passes(current', j) => Passes(current, j) \/ j = k
    BY <1>t, <2>1, <2>2, PutAdds
  <2>5. UNCHANGED <<previous, chainVars, given, asked, judged, outcome>> /\ pc[g] = "gated"
    BY <1>3, <2>1 DEF Got, AgentAnswers
  <2>6. TypeOK'
    BY <1>3, <2>1, <2>2, <2>4, <2>5 DEF TypeOK, Got
  <2>7. \A j \in Keys : j[1] \in {"judge", "gate"} /\ (Passes(previous', j) \/ Passes(current', j))
                       => <<j[2], "PASS">> \in given'
    <3>1. /\ given \subseteq given' /\ previous' \in [Keys -> [Values -> Nat]]
          /\ \A j \in Keys : Passes(previous', j) => Passes(previous, j)
      BY <1>t, <2>5
    <3>2. \A j \in Keys : Passes(current', j) =>
            \/ Passes(current, j)
            \/ j[1] \in {"judge", "gate"} => <<j[2], "PASS">> \in given'
      BY <2>2, <2>4
    <3> QED
      BY <3>1, <3>2, CacheStep
  <2>8. VerdictInv'
    BY <1>t, <2>1, <2>5, <2>7 DEF VerdictInv, Got
  <2>9. PlaceInv' /\ FailClosed'
    BY <1>t, <2>1, <2>5 DEF PlaceInv, FailClosed, CheckAccepts, Got
  <2> QED
    BY <2>6, <2>8, <2>9
<1>4. ASSUME NEW g \in Gates, VerdictCached(g) PROVE IInv'
  <2>1. PICK v \in Left(GateKey(g)) : Take(GateKey(g), v) /\ Resolve(g, Decision(v))
    BY <1>4 DEF VerdictCached
  <2> DEFINE k == GateKey(g)
  <2>2. k \in Keys /\ k[1] = "gate" /\ k[2] = PromptOf[g]
    BY KeysOfGate
  <2>3. /\ previous' \in [Keys -> [Values -> Nat]] /\ v \in Values
        /\ \A j \in Keys : Passes(previous', j) => Passes(previous, j)
        /\ v = "PASS" => Passes(previous, k)
    BY <1>t, <2>1, <2>2, TakeTakes
  <2>4. /\ UNCHANGED <<current, value, chainVars, given, asked, judged>>
        /\ CheckAccepts(g)
    BY <1>4 DEF VerdictCached
  <2>5. Decision(v) \in {"returned", "blocked"} /\ (Decision(v) = "returned" => v = "PASS")
    BY DEF Decision
  <2>6. TypeOK'
    BY <1>t, <2>1, <2>3, <2>4, <2>5 DEF TypeOK
  <2>7. \A j \in Keys : j[1] \in {"judge", "gate"} /\ (Passes(previous', j) \/ Passes(current', j))
                       => <<j[2], "PASS">> \in given'
    <3>1. given \subseteq given' /\ \A j \in Keys : Passes(current', j) => Passes(current, j)
      BY <2>4 DEF Passes
    <3> QED
      BY <2>3, <3>1, CacheStep
  <2>8. VerdictInv'
    BY <1>t, <2>1, <2>4, <2>7 DEF VerdictInv
  <2>9. PlaceInv'
    BY <1>t, <2>1, <2>4 DEF PlaceInv, CheckAccepts
  <2>10. v = "PASS" => <<PromptOf[g], "PASS">> \in given
    BY <2>2, <2>3 DEF VerdictInv
  <2>11. FailClosed'
    BY <1>t, <2>1, <2>4, <2>5, <2>10 DEF FailClosed, CheckAccepts
  <2> QED
    BY <2>6, <2>8, <2>9, <2>11
<1>5. ASSUME NEW g \in Gates, JudgeCached(g) PROVE IInv'
  <2>1. PICK v \in Left(JudgeKey(g)) :
          Take(JudgeKey(g), v) /\ Put(JudgeKey(g), v) /\ JudgeSays(g, v)
    BY <1>5 DEF JudgeCached
  <2> DEFINE k == JudgeKey(g)
  <2>2. k \in Keys /\ k[1] = "judge" /\ k[2] = PromptOf[g]
    BY KeysOfGate
  <2>3. /\ previous' \in [Keys -> [Values -> Nat]] /\ v \in Values
        /\ \A j \in Keys : Passes(previous', j) => Passes(previous, j)
        /\ v = "PASS" => Passes(previous, k)
    BY <1>t, <2>1, <2>2, TakeTakes
  <2>4. /\ current' \in [Keys -> [Values -> Nat]]
        /\ \A j \in Keys : Passes(current', j) => Passes(current, j) \/ (j = k /\ v = "PASS")
    BY <1>t, <2>1, <2>2, <2>3, PutAdds
  <2>5. UNCHANGED <<chainVars, given, asked, value, outcome>> /\ pc[g] = "asking"
    BY <1>5, <2>1 DEF JudgeSays, JudgeCached
  <2>6. v = "PASS" => <<PromptOf[g], "PASS">> \in given
    BY <2>2, <2>3 DEF VerdictInv
  <2>7. TypeOK'
    BY <1>t, <2>1, <2>3, <2>4, <2>5 DEF TypeOK, JudgeSays
  <2>8. \A j \in Keys : j[1] \in {"judge", "gate"} /\ (Passes(previous', j) \/ Passes(current', j))
                       => <<j[2], "PASS">> \in given'
    <3>1. given \subseteq given'
      BY <2>5
    <3>2. \A j \in Keys : Passes(current', j) =>
            \/ Passes(current, j)
            \/ j[1] \in {"judge", "gate"} => <<j[2], "PASS">> \in given'
      BY <2>2, <2>4, <2>5, <2>6
    <3> QED
      BY <2>3, <3>1, <3>2, CacheStep
  <2>9. VerdictInv'
    BY <1>t, <2>1, <2>5, <2>6, <2>8 DEF VerdictInv, JudgeSays
  <2>10. PlaceInv' /\ FailClosed'
    BY <1>t, <2>1, <2>5 DEF PlaceInv, FailClosed, CheckAccepts, JudgeSays
  <2> QED
    BY <2>7, <2>9, <2>10
<1>6. ASSUME NEW g \in Gates, JudgeAnswers(g) PROVE IInv'
  <2>1. PICK v \in Verdicts : /\ Put(JudgeKey(g), v)
                              /\ JudgeSays(g, v)
                              /\ given' = given \cup {<<PromptOf[g], v>>}
    BY <1>6 DEF JudgeAnswers
  <2> DEFINE k == JudgeKey(g)
  <2>2. k \in Keys /\ k[1] = "judge" /\ k[2] = PromptOf[g] /\ v \in Values
    BY KeysOfGate, ValuesAre
  <2>3. /\ current' \in [Keys -> [Values -> Nat]]
        /\ \A j \in Keys : Passes(current', j) => Passes(current, j) \/ (j = k /\ v = "PASS")
    BY <1>t, <2>1, <2>2, PutAdds
  <2>4. /\ UNCHANGED <<previous, chainVars, value, outcome>> /\ pc[g] = "asking"
        /\ asked' = asked \cup {g}
    BY <1>6, <2>1 DEF JudgeSays, JudgeAnswers
  <2>5. TypeOK'
    <3>1. given' \subseteq Prompts \X Verdicts
      <4>1. <<PromptOf[g], v>> \in Prompts \X Verdicts
        BY GatesAssumption
      <4> QED
        BY <2>1, <4>1 DEF TypeOK
    <3>2. asked' \subseteq Gates
      BY <2>4 DEF TypeOK
    <3>3. pc' \in [Gates -> Places] /\ judged' \in [Gates -> Values]
      BY <1>t, <2>1, <2>2 DEF JudgeSays, Goto, Places
    <3>4. UNCHANGED <<previous, value, outcome, judges, run, stopped, before>>
      BY <2>4 DEF chainVars
    <3>5. previous' \in [Keys -> [Values -> Nat]]
      BY <1>t, <3>4
    <3> QED
      BY <2>3, <3>1, <3>2, <3>3, <3>4, <3>5 DEF TypeOK
  <2>6. given \subseteq given'
    BY <2>1
  <2>7. \A j \in Keys : j[1] \in {"judge", "gate"} /\ (Passes(previous', j) \/ Passes(current', j))
                       => <<j[2], "PASS">> \in given'
    <3>1. /\ previous' \in [Keys -> [Values -> Nat]]
          /\ \A j \in Keys : Passes(previous', j) => Passes(previous, j)
      <4>1. previous' = previous
        BY <2>4
      <4> QED
        BY <1>t, <4>1
    <3>2. \A j \in Keys : Passes(current', j) =>
            \/ Passes(current, j)
            \/ j[1] \in {"judge", "gate"} => <<j[2], "PASS">> \in given'
      BY <2>1, <2>2, <2>3
    <3> QED
      BY <2>6, <3>1, <3>2, CacheStep
  <2>8. VerdictInv'
    <3>1. ASSUME NEW h \in Gates, pc'[h] = "judged", judged'[h] = "PASS"
          PROVE  <<PromptOf[h], "PASS">> \in given'
      <4>1. CASE h = g
        <5>1. judged'[g] = v
          BY <1>t, <2>1 DEF JudgeSays
        <5> QED
          BY <2>1, <3>1, <4>1, <5>1
      <4>2. CASE h # g
        <5>1. pc[h] = "judged" /\ judged[h] = "PASS"
          BY <1>t, <2>1, <3>1, <4>2 DEF JudgeSays
        <5> QED
          BY <2>6, <5>1 DEF VerdictInv
      <4> QED
        BY <4>1, <4>2
    <3> QED
      BY <2>7, <3>1 DEF VerdictInv
  <2>9. PlaceInv' /\ FailClosed'
    BY <1>t, <2>1, <2>4, <2>6 DEF PlaceInv, FailClosed, CheckAccepts, JudgeSays
  <2> QED
    BY <2>5, <2>8, <2>9
<1>7. ASSUME NEW g \in Gates, JudgeSkipped(g) \/ JudgeFails(g) PROVE IInv'
  <2>1. UNCHANGED <<cacheVars, chainVars, given, value>> /\ pc[g] = "asking" /\ asked' = asked \cup {g}
    BY <1>7 DEF JudgeSkipped, JudgeFails, JudgeSays
  <2>2. TypeOK'
    BY <1>7, <1>t, <2>1, ValuesAre DEF TypeOK, JudgeSkipped, JudgeFails, JudgeSays, VerdictOfFailure
  <2>3. VerdictInv'
    BY <1>7, <1>t, <1>q, <2>1, ValuesAre DEF VerdictInv, JudgeSkipped, JudgeFails, JudgeSays
  <2>4. PlaceInv'
    BY <1>7, <1>t, <2>1 DEF PlaceInv, CheckAccepts, JudgeSkipped, JudgeFails, JudgeSays
  <2>5. FailClosed'
    BY <1>7, <1>t, <2>1 DEF FailClosed, JudgeSkipped, JudgeFails, JudgeSays, VerdictOfFailure
  <2> QED
    BY <2>2, <2>3, <2>4, <2>5
<1>8. ASSUME NEW g \in Gates, Decide(g) PROVE IInv'
  <2> DEFINE k == GateKey(g)
             v == judged[g]
  <2>1. /\ UNCHANGED <<previous, value, judged, chainVars, given, asked>>
        /\ pc[g] = "judged" /\ Put(k, v) /\ Resolve(g, Decision(v))
    BY <1>8 DEF Decide
  <2>2. k \in Keys /\ k[1] = "gate" /\ k[2] = PromptOf[g] /\ v \in Values
    BY <1>t, KeysOfGate
  <2>3. /\ current' \in [Keys -> [Values -> Nat]]
        /\ \A j \in Keys : Passes(current', j) => Passes(current, j) \/ (j = k /\ v = "PASS")
    BY <1>t, <2>1, <2>2, PutAdds
  <2>4. Decision(v) \in {"returned", "blocked"} /\ (Decision(v) = "returned" => v = "PASS")
    BY DEF Decision
  <2>5. v = "PASS" => <<PromptOf[g], "PASS">> \in given
    BY <2>1 DEF VerdictInv
  <2>6. TypeOK'
    BY <1>t, <2>1, <2>3, <2>4 DEF TypeOK
  <2>7. \A j \in Keys : j[1] \in {"judge", "gate"} /\ (Passes(previous', j) \/ Passes(current', j))
                       => <<j[2], "PASS">> \in given'
    <3>1. /\ previous' \in [Keys -> [Values -> Nat]] /\ given \subseteq given'
          /\ \A j \in Keys : Passes(previous', j) => Passes(previous, j)
      BY <1>t, <2>1
    <3>2. \A j \in Keys : Passes(current', j) =>
            \/ Passes(current, j)
            \/ j[1] \in {"judge", "gate"} => <<j[2], "PASS">> \in given'
      BY <2>1, <2>2, <2>3, <2>5
    <3> QED
      BY <3>1, <3>2, CacheStep
  <2>8. VerdictInv'
    BY <1>t, <2>1, <2>7 DEF VerdictInv
  <2>9. PlaceInv'
    BY <1>t, <2>1 DEF PlaceInv, CheckAccepts
  <2>10. FailClosed'
    BY <1>t, <2>1, <2>4, <2>5 DEF FailClosed, PlaceInv, CheckAccepts
  <2> QED
    BY <2>6, <2>8, <2>9, <2>10
<1>9. CASE Stop
  <2>1. UNCHANGED <<cacheVars, gateVars, given, asked, judges, run, before>> /\ stopped' = TRUE
    BY <1>9 DEF Stop
  <2>2. TypeOK'
    BY <2>1 DEF TypeOK
  <2>3. VerdictInv'
    BY <1>q, <2>1 DEF VerdictInv
  <2>4. PlaceInv' /\ FailClosed'
    BY <2>1 DEF PlaceInv, FailClosed, CheckAccepts
  <2> QED
    BY <2>2, <2>3, <2>4
<1>10. CASE Resume
  <2>1. /\ run < MaxRuns /\ run' = run + 1 /\ UNCHANGED <<judges, given>>
        /\ previous' = current /\ current' = Nothing
        /\ pc' = [g \in Gates |-> "idle"] /\ outcome' = [g \in Gates |-> "none"]
        /\ value' = [g \in Gates |-> Null] /\ judged' = [g \in Gates |-> Null]
        /\ before' = outcome /\ stopped' = FALSE /\ asked' = {}
    BY <1>10 DEF Resume, Inherited
  <2>2. TypeOK'
    <3>1. run' \in 1 .. MaxRuns
      BY <2>1, RunsAssumption DEF TypeOK
    <3>2. Null \in Values
      BY ValuesAre
    <3>3. previous' \in [Keys -> [Values -> Nat]] /\ current' \in [Keys -> [Values -> Nat]]
      BY <1>t, <2>1, NothingIsEmpty
    <3>4. /\ judges' \in Scripts /\ before' \in [Gates -> Outcomes] /\ stopped' \in BOOLEAN
          /\ given' \subseteq Prompts \X Verdicts /\ asked' \subseteq Gates
      BY <1>t, <2>1 DEF TypeOK
    <3>5. /\ pc' \in [Gates -> Places] /\ outcome' \in [Gates -> Outcomes]
          /\ value' \in [Gates -> Values] /\ judged' \in [Gates -> Values]
      BY <2>1, <3>2
    <3> QED
      BY <3>1, <3>3, <3>4, <3>5 DEF TypeOK
  <2>3. \A k \in Keys : ~Passes(current', k) /\ (Passes(previous', k) => Passes(current, k))
    BY <2>1, NothingIsEmpty DEF Passes
  <2>4. VerdictInv'
    BY <2>1, <2>3 DEF VerdictInv
  <2>5. PlaceInv' /\ FailClosed'
    BY <2>1 DEF PlaceInv, FailClosed, CheckAccepts
  <2> QED
    BY <2>2, <2>4, <2>5
<1>11. CASE UNCHANGED vars
  <2>1. UNCHANGED <<cacheVars, gateVars, chainVars, given, asked>>
    BY <1>11
  <2>2. TypeOK' /\ PlaceInv' /\ FailClosed'
    BY <2>1 DEF TypeOK, PlaceInv, FailClosed, CheckAccepts
  <2>3. VerdictInv'
    BY <1>q, <2>1 DEF VerdictInv
  <2> QED
    BY <2>2, <2>3
<1> QED
  BY <1>1, <1>2, <1>3, <1>4, <1>5, <1>6, <1>7, <1>8, <1>9, <1>10, <1>11 DEF Next

-----------------------------------------------------------------------------
(* The inductive invariant of gates and the cache over a chain of resumes. *)
THEOREM Invariance == Spec => []IInv
<1> QED
  BY InitInv, NextInv, PTL DEF Spec

(* Gates and caches stay typed: in particular get() never hands out more    *)
(* than there is.                                                           *)
THEOREM TypeCorrect == Spec => []TypeOK
<1> QED
  BY Invariance, PTL DEF IInv

(* gate() is fail-closed over any chain of resumes: what got through was    *)
(* accepted by its check and a judge child said PASS for it (api.py, gate). *)
THEOREM GatesFailClosed == Spec => []FailClosed
<1> QED
  BY Invariance, PTL DEF IInv

-----------------------------------------------------------------------------
(* Verdicts are reused.  Gates of one prompt may share a key, and a gate may be *)
(* handed the verdict that another one left.  So the verdicts are counted:  *)
(* a list under a key is as long as the set of gates it is for when each of *)
(* its values can be given to one of them.                                  *)
Counts(bucket, U) ==
  \E f \in [U -> Values] : \A v \in Values : bucket[v] = Cardinality({u \in U : f[u] = v})

Ids == Prompts \X Options
IdOf(g) == <<PromptOf[g], GateOptions[g]>>
OnlyKey(p) == <<"gate", p[1], p[2], NoCheck>>
OnlyOf(p) == {g \in JudgeOnly : IdOf(g) = p}
Decided == {"returned", "blocked"}
DecidedOf(p) == {g \in OnlyOf(p) : outcome[g] \in Decided}
OpenOf(p) == {g \in OnlyOf(p) : outcome[g] = "none"}

(* In the first run each gate that only has a judge and has decided has     *)
(* kept one verdict.  In a resume of a complete run there is a verdict for  *)
(* each that has not, and so none comes to its judge.                       *)
FirstInv ==
  run = 1 => previous = Nothing /\ \A p \in Ids : Counts(current[OnlyKey(p)], DecidedOf(p))

SecondInv ==
  run = 2 /\ Complete =>
    /\ \A p \in Ids : \E U \in SUBSET Gates :
         Counts(previous[OnlyKey(p)], U) /\ Cardinality(OpenOf(p)) <= Cardinality(U)
    /\ \A g \in JudgeOnly : pc[g] \notin {"asking", "judged"} /\ g \notin asked

ReuseInv == FirstInv /\ SecondInv

LEMMA NoneCounts ==
  ASSUME NEW bucket, \A v \in Values : bucket[v] = 0
  PROVE  Counts(bucket, {})
<1> DEFINE f == [u \in {} |-> Null]
<1>1. f \in [{} -> Values]
  OBVIOUS
<1>2. \A v \in Values : {u \in {} : f[u] = v} = {}
  OBVIOUS
<1>3. Cardinality({}) = 0
  BY FS_EmptySet
<1>4. \A v \in Values : bucket[v] = Cardinality({u \in {} : f[u] = v})
  BY <1>2, <1>3
<1> QED  BY <1>1, <1>4 DEF Counts

LEMMA OneMoreCounts ==
  ASSUME NEW bucket \in [Values -> Nat], NEW U, IsFiniteSet(U), Counts(bucket, U),
         NEW u, u \notin U, NEW w \in Values
  PROVE  Counts([bucket EXCEPT ![w] = @ + 1], U \cup {u})
<1>1. PICK f \in [U -> Values] : \A v \in Values : bucket[v] = Cardinality({x \in U : f[x] = v})
  BY DEF Counts
<1> DEFINE g == [x \in U \cup {u} |-> IF x = u THEN w ELSE f[x]]
           more == [bucket EXCEPT ![w] = @ + 1]
<1>2. g \in [U \cup {u} -> Values]
  BY <1>1
<1>3. ASSUME NEW v \in Values PROVE more[v] = Cardinality({x \in U \cup {u} : g[x] = v})
  <2> DEFINE old == {x \in U : f[x] = v}
  <2>1. IsFiniteSet(old) /\ u \notin old
    BY FS_Subset
  <2>2. CASE v = w
    <3>1. {x \in U \cup {u} : g[x] = v} = old \cup {u}
      BY <2>2
    <3>2. Cardinality(old \cup {u}) = Cardinality(old) + 1
      BY <2>1, FS_AddElement
    <3>3. more[v] = bucket[v] + 1
      BY <2>2
    <3> QED  BY <1>1, <3>1, <3>2, <3>3
  <2>3. CASE v # w
    <3>1. {x \in U \cup {u} : g[x] = v} = old
      BY <2>3
    <3>2. more[v] = bucket[v]
      BY <2>3
    <3> QED  BY <1>1, <3>1, <3>2
  <2> QED  BY <2>2, <2>3
<1> HIDE DEF g, more
<1>4. Counts(more, U \cup {u})
  BY <1>2, <1>3 DEF Counts
<1> QED  BY <1>4 DEF more

LEMMA OneLessCounts ==
  ASSUME NEW bucket \in [Values -> Nat], NEW U, IsFiniteSet(U), Counts(bucket, U),
         NEW w \in Values, bucket[w] > 0
  PROVE  \E u \in U : Counts([bucket EXCEPT ![w] = @ - 1], U \ {u})
<1>1. PICK f \in [U -> Values] : \A v \in Values : bucket[v] = Cardinality({x \in U : f[x] = v})
  BY DEF Counts
<1>2. PICK u \in U : f[u] = w
  <2>1. Cardinality({x \in U : f[x] = w}) > 0
    BY <1>1
  <2>2. {x \in U : f[x] = w} # {}
    BY <2>1, FS_EmptySet
  <2> QED  BY <2>2
<1> DEFINE g == [x \in U \ {u} |-> f[x]]
           less == [bucket EXCEPT ![w] = @ - 1]
<1>3. g \in [U \ {u} -> Values]
  BY <1>1
<1>4. ASSUME NEW v \in Values PROVE less[v] = Cardinality({x \in U \ {u} : g[x] = v})
  <2> DEFINE old == {x \in U : f[x] = v}
  <2>1. IsFiniteSet(old)
    BY FS_Subset
  <2>2. CASE v = w
    <3>1. {x \in U \ {u} : g[x] = v} = old \ {u} /\ u \in old
      BY <1>2, <2>2
    <3>2. Cardinality(old \ {u}) = Cardinality(old) - 1
      BY <2>1, <3>1, FS_RemoveElement
    <3>3. less[v] = bucket[v] - 1
      BY <2>2
    <3> QED  BY <1>1, <3>1, <3>2, <3>3
  <2>3. CASE v # w
    <3>1. {x \in U \ {u} : g[x] = v} = old
      BY <1>2, <2>3
    <3>2. less[v] = bucket[v]
      BY <2>3
    <3> QED  BY <1>1, <3>1, <3>2
  <2> QED  BY <2>2, <2>3
<1> HIDE DEF g, less
<1>5. Counts(less, U \ {u})
  BY <1>3, <1>4 DEF Counts
<1> QED  BY <1>5 DEF less

LEMMA SomeIsThere ==
  ASSUME NEW bucket, NEW U, IsFiniteSet(U), U # {}, Counts(bucket, U)
  PROVE  \E v \in Values : bucket[v] > 0
<1>1. PICK f \in [U -> Values] : \A v \in Values : bucket[v] = Cardinality({x \in U : f[x] = v})
  BY DEF Counts
<1>2. PICK u \in U : TRUE
  OBVIOUS
<1> DEFINE same == {x \in U : f[x] = f[u]}
<1>3. IsFiniteSet(same) /\ same # {}
  BY <1>2, FS_Subset
<1>4. Cardinality(same) \in Nat /\ Cardinality(same) # 0
  BY <1>3, FS_CardinalityType, FS_EmptySet
<1>5. bucket[f[u]] = Cardinality(same) /\ f[u] \in Values
  BY <1>1, <1>2
<1> QED  BY <1>4, <1>5

-----------------------------------------------------------------------------
(* No other key is a gate's own. *)
LEMMA OtherKeys ==
  ASSUME NEW g \in Gates, NEW p \in Ids
  PROVE  /\ OnlyKey(p) \in Keys
         /\ OnlyKey(p) # AgentKey(g) /\ OnlyKey(p) # JudgeKey(g)
         /\ OnlyKey(p) = GateKey(g) <=> IdOf(g) = p /\ CheckOf[g] = NoCheck
  BY GatesAssumption DEF OnlyKey, AgentKey, JudgeKey, GateKey, Keys, Ids, IdOf

LEMMA OpenIsFinite ==
  ASSUME NEW U \in SUBSET Gates PROVE IsFiniteSet(U)
  BY GatesAssumption, FS_Subset

LEMMA OpenTypes ==
  ASSUME TypeOK, NEW p
  PROVE  /\ OpenOf(p) \in SUBSET Gates /\ DecidedOf(p) \in SUBSET Gates /\ OnlyOf(p) \in SUBSET Gates
         /\ JudgeOnly \subseteq Gates
  BY GatesAssumption DEF TypeOK, OpenOf, DecidedOf, OnlyOf, JudgeOnly

(* A gate with only a judge has it decide, and no check. *)
LEMMA OnlyJudgesDecide ==
  ASSUME NEW g \in JudgeOnly
  PROVE  CheckAccepts(g) /\ g \in judges
  BY DEF JudgeOnly, CheckAccepts

(* Steps that leave the verdicts of these gates, and which of them decided. *)
LEMMA ReuseStays ==
  ASSUME IInv, ReuseInv, UNCHANGED <<judges, run, before>>,
         run = 1 => previous' = previous,
         \A p \in Ids : /\ previous'[OnlyKey(p)] = previous[OnlyKey(p)]
                            /\ current'[OnlyKey(p)] = current[OnlyKey(p)],
         \A g \in JudgeOnly :
           /\ outcome'[g] \in Decided <=> outcome[g] \in Decided
           /\ outcome'[g] = "none" => outcome[g] = "none"
           /\ run = 2 /\ Complete /\ pc[g] \notin {"asking", "judged"} =>
                pc'[g] \notin {"asking", "judged"} /\ (g \in asked' => g \in asked)
  PROVE  ReuseInv'
<1>1. /\ JudgeOnly' = JudgeOnly /\ Complete' = Complete
      /\ \A p : OnlyOf(p)' = OnlyOf(p)
      /\ \A p : DecidedOf(p)' = DecidedOf(p)
      /\ \A p : OpenOf(p)' \subseteq OpenOf(p)
  BY DEF JudgeOnly, Complete, OnlyOf, DecidedOf, OpenOf
<1>2. FirstInv'
  BY <1>1 DEF ReuseInv, FirstInv
<1>3. SecondInv'
  <2> SUFFICES ASSUME run = 2, Complete
               PROVE  /\ \A p \in Ids : \E U \in SUBSET Gates :
                           /\ Counts(previous'[OnlyKey(p)], U)
                           /\ Cardinality(OpenOf(p)') <= Cardinality(U)
                      /\ \A g \in JudgeOnly' : pc'[g] \notin {"asking", "judged"} /\ g \notin asked'
    BY <1>1 DEF SecondInv
  <2>1. ASSUME NEW p \in Ids
        PROVE  \E U \in SUBSET Gates : /\ Counts(previous'[OnlyKey(p)], U)
                                       /\ Cardinality(OpenOf(p)') <= Cardinality(U)
    <3>1. PICK U \in SUBSET Gates : Counts(previous[OnlyKey(p)], U) /\ Cardinality(OpenOf(p)) <= Cardinality(U)
      BY DEF ReuseInv, SecondInv
    <3>2. /\ IsFiniteSet(OpenOf(p)) /\ IsFiniteSet(OpenOf(p)') /\ IsFiniteSet(U)
          /\ Cardinality(OpenOf(p)') <= Cardinality(OpenOf(p))
      BY <1>1, OpenTypes, OpenIsFinite, FS_Subset DEF IInv
    <3>3. Cardinality(OpenOf(p)') \in Nat /\ Cardinality(OpenOf(p)) \in Nat /\ Cardinality(U) \in Nat
      BY <3>2, FS_CardinalityType
    <3>4. Cardinality(OpenOf(p)') <= Cardinality(U)
      BY <3>1, <3>2, <3>3
    <3> QED  BY <3>1, <3>4
  <2>2. \A g \in JudgeOnly : pc'[g] \notin {"asking", "judged"} /\ g \notin asked'
    BY DEF ReuseInv, SecondInv
  <2> QED  BY <1>1, <2>1, <2>2
<1> QED  BY <1>2, <1>3 DEF ReuseInv

(* A take or a put under another key. *)
LEMMA OtherKeyKept ==
  ASSUME TypeOK, NEW k \in Keys, NEW v, NEW p \in Ids, k # OnlyKey(p)
  PROVE  /\ Take(k, v) => previous'[OnlyKey(p)] = previous[OnlyKey(p)]
         /\ Put(k, v) => current'[OnlyKey(p)] = current[OnlyKey(p)]
<1>1. OnlyKey(p) \in Keys
  BY DEF OnlyKey, Keys, Ids
<1>2. DOMAIN previous = Keys /\ DOMAIN current = Keys
  BY DEF TypeOK
<1> QED  BY <1>1, <1>2 DEF Take, Put

(* In the first run there is nothing to take. *)
LEMMA NothingLeft ==
  ASSUME NEW k \in Keys, previous = Nothing PROVE Left(k) = {}
  BY DEF Nothing, Left

(* A verdict is there for a gate that has not decided. *)
LEMMA VerdictIsThere ==
  ASSUME IInv, ReuseInv, run = 2, Complete, NEW g \in JudgeOnly, outcome[g] = "none"
  PROVE  Left(GateKey(g)) # {}
<1> DEFINE p == IdOf(g)
<1>1. g \in Gates /\ p \in Ids
  BY OpenTypes, GatesAssumption DEF IInv, Ids, IdOf
<1>2. GateKey(g) = OnlyKey(p)
  BY <1>1, OtherKeys DEF JudgeOnly
<1>3. PICK U \in SUBSET Gates : Counts(previous[OnlyKey(p)], U) /\ Cardinality(OpenOf(p)) <= Cardinality(U)
  BY <1>1 DEF ReuseInv, SecondInv
<1>4. IsFiniteSet(OpenOf(p)) /\ IsFiniteSet(U)
  BY OpenTypes, OpenIsFinite DEF IInv
<1>5. g \in OpenOf(p)
  BY DEF OpenOf, OnlyOf
<1>6. Cardinality(OpenOf(p)) \in Nat /\ Cardinality(OpenOf(p)) # 0
  BY <1>4, <1>5, FS_CardinalityType, FS_EmptySet
<1>7. U # {}
  BY <1>3, <1>4, <1>6, FS_EmptySet
<1>8. \E v \in Values : previous[OnlyKey(p)][v] > 0
  BY <1>3, <1>4, <1>7, SomeIsThere
<1> QED  BY <1>2, <1>8 DEF Left

-----------------------------------------------------------------------------
(* Every step of a gate. *)
LEMMA QuietStepsReuse ==
  ASSUME IInv, ReuseInv, NEW g \in Gates,
         \/ Start(g) \/ AgentSkipped(g) \/ AgentFails(g) \/ CheckBlocks(g) \/ ReturnUnjudged(g)
         \/ AskJudge(g) \/ JudgeSkipped(g) \/ JudgeFails(g) \/ Halt(g)
  PROVE  ReuseInv'
<1>1. UNCHANGED <<cacheVars, judges, run, before>>
  BY DEF Start, AgentSkipped, AgentFails, CheckBlocks, ReturnUnjudged, AskJudge, JudgeSkipped,
         JudgeFails, Halt, Got, JudgeSays
<1>2. pc \in [Gates -> Places] /\ outcome \in [Gates -> Outcomes]
  BY DEF IInv, TypeOK
<1>3. \A h \in Gates : h # g => pc'[h] = pc[h] /\ outcome'[h] = outcome[h]
  BY <1>2 DEF Start, AgentSkipped, AgentFails, CheckBlocks, ReturnUnjudged, AskJudge, JudgeSkipped,
         JudgeFails, Halt, Got, JudgeSays
<1>4. pc[g] # "over" /\ outcome[g] = "none"
  <2>1. pc[g] # "over"
    BY DEF Start, AgentSkipped, AgentFails, CheckBlocks, ReturnUnjudged, AskJudge, JudgeSkipped,
           JudgeFails, Halt
  <2> QED  BY <2>1 DEF IInv, PlaceInv
<1>5. g \in JudgeOnly => outcome'[g] \notin Decided
  <2>1. g \in JudgeOnly => ~CheckBlocks(g) /\ ~ReturnUnjudged(g)
    BY OnlyJudgesDecide DEF CheckBlocks, ReturnUnjudged
  <2>2. outcome'[g] \in {outcome[g], "failed", "unjudged", "halted"} \/ CheckBlocks(g) \/ ReturnUnjudged(g)
    BY <1>2 DEF Start, AgentSkipped, AgentFails, AskJudge, JudgeSkipped,
         JudgeFails, VerdictOfFailure, Halt, Got, JudgeSays
  <2> QED  BY <1>4, <2>1, <2>2 DEF Decided
<1>6. ASSUME run = 2, Complete, g \in JudgeOnly, pc[g] \notin {"asking", "judged"}
      PROVE  pc'[g] \notin {"asking", "judged"} /\ (g \in asked' => g \in asked)
  <2>1. ~AskJudge(g) /\ ~JudgeSkipped(g) /\ ~JudgeFails(g)
    BY <1>4, <1>6, VerdictIsThere DEF AskJudge, JudgeSkipped, JudgeFails
  <2> QED  BY <1>2, <2>1 DEF Start, AgentSkipped, AgentFails, CheckBlocks, ReturnUnjudged, Halt, Got
<1>7. \A h \in Gates : h # g /\ h \in asked' => h \in asked
  BY DEF Start, AgentSkipped, AgentFails, CheckBlocks, ReturnUnjudged, AskJudge, JudgeSkipped,
         JudgeFails, Halt, Got, JudgeSays
<1>8. JudgeOnly \subseteq Gates
  BY OpenTypes DEF IInv
<1>9. \A h \in JudgeOnly :
        /\ outcome'[h] \in Decided <=> outcome[h] \in Decided
        /\ outcome'[h] = "none" => outcome[h] = "none"
        /\ run = 2 /\ Complete /\ pc[h] \notin {"asking", "judged"} =>
             pc'[h] \notin {"asking", "judged"} /\ (h \in asked' => h \in asked)
  BY <1>3, <1>4, <1>5, <1>6, <1>7, <1>8 DEF Decided
<1> QED  BY <1>1, <1>9, ReuseStays

(* An agent or a judge that is served from the cache, or answers. *)
LEMMA AnswersReuse ==
  ASSUME IInv, ReuseInv, NEW g \in Gates,
         AgentCached(g) \/ AgentAnswers(g) \/ JudgeCached(g) \/ JudgeAnswers(g)
  PROVE  ReuseInv'
<1>1. UNCHANGED <<outcome, judges, run, before>>
  BY DEF AgentCached, AgentAnswers, JudgeCached, JudgeAnswers, Got, JudgeSays
<1>2. PICK k \in {AgentKey(g), JudgeKey(g)} :
         /\ previous' = previous \/ \E v \in Left(k) : Take(k, v)
         /\ \E v : Put(k, v)
  BY DEF AgentCached, AgentAnswers, JudgeCached, JudgeAnswers
<1>3. k \in Keys /\ \A p \in Ids : k # OnlyKey(p)
  BY KeysOfGate, OtherKeys
<1>4. \A p \in Ids : /\ previous'[OnlyKey(p)] = previous[OnlyKey(p)]
                         /\ current'[OnlyKey(p)] = current[OnlyKey(p)]
  BY <1>2, <1>3, OtherKeyKept DEF IInv
<1>5. run = 1 => previous' = previous
  BY <1>2, <1>3, NothingLeft DEF ReuseInv, FirstInv
<1>6. pc \in [Gates -> Places] /\ JudgeOnly \subseteq Gates
  BY OpenTypes DEF IInv, TypeOK
<1>7. \A h \in JudgeOnly :
        run = 2 /\ Complete /\ pc[h] \notin {"asking", "judged"} =>
             pc'[h] \notin {"asking", "judged"} /\ (h \in asked' => h \in asked)
  BY <1>6 DEF AgentCached, AgentAnswers, JudgeCached, JudgeAnswers, Got, JudgeSays
<1> QED  BY <1>1, <1>4, <1>5, <1>7, ReuseStays

(* A verdict is kept, in the first run by one more gate. *)
LEMMA DecideReuses ==
  ASSUME IInv, ReuseInv, NEW g \in Gates, Decide(g)
  PROVE  ReuseInv'
<1>1. /\ UNCHANGED <<previous, judged, judges, run, before, asked>>
      /\ pc[g] = "judged" /\ Put(GateKey(g), judged[g])
      /\ outcome' = [outcome EXCEPT ![g] = Decision(judged[g])]
      /\ pc' = [pc EXCEPT ![g] = "over"]
  BY DEF Decide
<1>2. /\ pc \in [Gates -> Places] /\ outcome \in [Gates -> Outcomes] /\ judged[g] \in Values
      /\ current \in [Keys -> [Values -> Nat]] /\ previous \in [Keys -> [Values -> Nat]]
      /\ JudgeOnly \subseteq Gates
  BY OpenTypes DEF IInv, TypeOK
<1>3. outcome[g] = "none" /\ g \in judges /\ outcome'[g] \in Decided
  BY <1>1, <1>2 DEF IInv, PlaceInv, Decision, Decided
<1>4. GateKey(g) \in Keys
  BY KeysOfGate
<1>5. JudgeOnly' = JudgeOnly /\ Complete' = Complete /\ \A p : OnlyOf(p)' = OnlyOf(p)
  BY <1>1 DEF JudgeOnly, Complete, OnlyOf
<1>6. FirstInv'
  <2> SUFFICES ASSUME run = 1, NEW p \in Ids
               PROVE  Counts(current'[OnlyKey(p)], DecidedOf(p)')
    BY <1>1 DEF FirstInv, ReuseInv
  <2>1. Counts(current[OnlyKey(p)], DecidedOf(p))
    BY DEF ReuseInv, FirstInv
  <2>2. CASE GateKey(g) = OnlyKey(p)
    <3>1. g \in OnlyOf(p) /\ g \notin DecidedOf(p)
      BY <1>3, <2>2, OtherKeys DEF OnlyOf, JudgeOnly, DecidedOf, Decided
    <3>2. DecidedOf(p)' = DecidedOf(p) \cup {g}
      BY <1>1, <1>2, <1>3, <1>5, <3>1 DEF DecidedOf, OnlyOf
    <3>3. current'[OnlyKey(p)] = [current[OnlyKey(p)] EXCEPT ![judged[g]] = @ + 1]
      BY <1>1, <1>2, <1>4, <2>2 DEF Put
    <3>4. current[OnlyKey(p)] \in [Values -> Nat] /\ IsFiniteSet(DecidedOf(p))
      BY <1>2, <1>4, <2>2, OpenTypes, OpenIsFinite DEF IInv
    <3>5. Counts([current[OnlyKey(p)] EXCEPT ![judged[g]] = @ + 1], DecidedOf(p) \cup {g})
      BY <1>2, <2>1, <3>1, <3>4, OneMoreCounts
    <3> QED  BY <3>2, <3>3, <3>5
  <2>3. CASE GateKey(g) # OnlyKey(p)
    <3>1. current'[OnlyKey(p)] = current[OnlyKey(p)]
      BY <1>1, <1>4, <2>3, OtherKeyKept DEF IInv
    <3>2. g \notin OnlyOf(p)
      BY <2>3, OtherKeys DEF OnlyOf, JudgeOnly
    <3>3. DecidedOf(p)' = DecidedOf(p)
      BY <1>1, <1>2, <1>5, <3>2 DEF DecidedOf, OnlyOf
    <3> QED  BY <2>1, <3>1, <3>3
  <2> QED  BY <2>2, <2>3
<1>7. SecondInv'
  <2> SUFFICES ASSUME run = 2, Complete
               PROVE  /\ \A p \in Ids : \E U \in SUBSET Gates :
                           /\ Counts(previous'[OnlyKey(p)], U)
                           /\ Cardinality(OpenOf(p)') <= Cardinality(U)
                      /\ \A h \in JudgeOnly' : pc'[h] \notin {"asking", "judged"} /\ h \notin asked'
    BY <1>1, <1>5 DEF SecondInv
  <2>1. g \notin JudgeOnly
    BY <1>1 DEF ReuseInv, SecondInv
  <2>2. \A p : OpenOf(p)' = OpenOf(p)
    BY <1>1, <1>2, <1>5, <2>1 DEF OpenOf, OnlyOf
  <2>3. \A h \in JudgeOnly : pc'[h] = pc[h]
    BY <1>1, <1>2, <2>1
  <2> QED  BY <1>1, <1>5, <2>2, <2>3 DEF ReuseInv, SecondInv
<1> QED  BY <1>6, <1>7 DEF ReuseInv

(* A verdict is taken, in the second run by one gate less to decide. *)
LEMMA VerdictCachedReuses ==
  ASSUME IInv, ReuseInv, NEW g \in Gates, VerdictCached(g)
  PROVE  ReuseInv'
<1>1. PICK w \in Left(GateKey(g)) :
         /\ Take(GateKey(g), w)
         /\ outcome' = [outcome EXCEPT ![g] = Decision(w)] /\ pc' = [pc EXCEPT ![g] = "over"]
  BY DEF VerdictCached
<1>2. UNCHANGED <<current, judges, run, before, asked>> /\ pc[g] = "checking" /\ g \in judges
  BY DEF VerdictCached
<1>3. /\ pc \in [Gates -> Places] /\ outcome \in [Gates -> Outcomes] /\ w \in Values
      /\ previous \in [Keys -> [Values -> Nat]]
      /\ JudgeOnly \subseteq Gates /\ GateKey(g) \in Keys
  BY OpenTypes, KeysOfGate DEF IInv, TypeOK, Left
<1>4. outcome'[g] \in Decided /\ previous[GateKey(g)][w] > 0 /\ outcome[g] = "none"
  BY <1>1, <1>2, <1>3 DEF Decision, Decided, Left, IInv, PlaceInv
<1>5. JudgeOnly' = JudgeOnly /\ Complete' = Complete /\ \A p : OnlyOf(p)' = OnlyOf(p)
  BY <1>2 DEF JudgeOnly, Complete, OnlyOf
<1>6. run # 1
  BY <1>1, <1>3, NothingLeft DEF ReuseInv, FirstInv
<1>7. SecondInv'
  <2> SUFFICES ASSUME run = 2, Complete
               PROVE  /\ \A p \in Ids : \E U \in SUBSET Gates :
                           /\ Counts(previous'[OnlyKey(p)], U)
                           /\ Cardinality(OpenOf(p)') <= Cardinality(U)
                      /\ \A h \in JudgeOnly' : pc'[h] \notin {"asking", "judged"} /\ h \notin asked'
    BY <1>2, <1>5 DEF SecondInv
  <2>1. \A h \in JudgeOnly : pc'[h] \notin {"asking", "judged"} /\ h \notin asked'
    BY <1>1, <1>2, <1>3 DEF ReuseInv, SecondInv
  <2>2. ASSUME NEW p \in Ids
        PROVE  \E U \in SUBSET Gates : /\ Counts(previous'[OnlyKey(p)], U)
                                       /\ Cardinality(OpenOf(p)') <= Cardinality(U)
    <3>1. PICK U \in SUBSET Gates : Counts(previous[OnlyKey(p)], U) /\ Cardinality(OpenOf(p)) <= Cardinality(U)
      BY DEF ReuseInv, SecondInv
    <3>2. IsFiniteSet(U) /\ IsFiniteSet(OpenOf(p))
      BY OpenTypes, OpenIsFinite DEF IInv
    <3>3. CASE GateKey(g) # OnlyKey(p)
      <4>1. previous'[OnlyKey(p)] = previous[OnlyKey(p)]
        BY <1>1, <1>3, <3>3, OtherKeyKept DEF IInv
      <4>2. g \notin OnlyOf(p)
        BY <3>3, OtherKeys DEF OnlyOf, JudgeOnly
      <4>3. OpenOf(p)' = OpenOf(p)
        BY <1>1, <1>3, <1>5, <4>2 DEF OpenOf, OnlyOf
      <4> QED  BY <3>1, <4>1, <4>3
    <3>4. CASE GateKey(g) = OnlyKey(p)
      <4>1. g \in OpenOf(p)
        BY <1>2, <1>4, <3>4, OtherKeys DEF OnlyOf, JudgeOnly, OpenOf
      <4>2. OpenOf(p)' = OpenOf(p) \ {g}
        BY <1>1, <1>3, <1>4, <1>5, <4>1 DEF OpenOf, OnlyOf, Decided
      <4>3. previous'[OnlyKey(p)] = [previous[OnlyKey(p)] EXCEPT ![w] = @ - 1]
        BY <1>1, <1>3, <3>4 DEF Take
      <4>4. previous[OnlyKey(p)] \in [Values -> Nat] /\ previous[OnlyKey(p)][w] > 0
        BY <1>3, <1>4, <3>4
      <4>5. PICK u \in U : Counts(previous'[OnlyKey(p)], U \ {u})
        <5>1. \E u \in U : Counts([previous[OnlyKey(p)] EXCEPT ![w] = @ - 1], U \ {u})
          BY <1>3, <3>1, <3>2, <4>4, OneLessCounts
        <5> QED  BY <4>3, <5>1
      <4>6. /\ Cardinality(OpenOf(p)') = Cardinality(OpenOf(p)) - 1
            /\ Cardinality(U \ {u}) = Cardinality(U) - 1
        BY <3>2, <4>1, <4>2, FS_RemoveElement
      <4>7. Cardinality(OpenOf(p)) \in Nat /\ Cardinality(U) \in Nat
        BY <3>2, FS_CardinalityType
      <4>8. Cardinality(OpenOf(p)') <= Cardinality(U \ {u}) /\ U \ {u} \in SUBSET Gates
        BY <3>1, <4>6, <4>7
      <4> QED  BY <4>5, <4>8
    <3> QED  BY <3>3, <3>4
  <2> QED  BY <1>5, <2>1, <2>2
<1> QED  BY <1>2, <1>6, <1>7 DEF ReuseInv, FirstInv

(* The first resume inherits what the first run kept. *)
LEMMA ResumeReuses ==
  ASSUME IInv, ReuseInv, Resume
  PROVE  ReuseInv'
<1>1. /\ run' = run + 1 /\ UNCHANGED judges /\ previous' = current /\ current' = Nothing
      /\ pc' = [g \in Gates |-> "idle"] /\ outcome' = [g \in Gates |-> "none"]
      /\ before' = outcome /\ asked' = {}
  BY DEF Resume, Inherited
<1>2. run \in Nat /\ run >= 1 /\ outcome \in [Gates -> Outcomes] /\ JudgeOnly \subseteq Gates
  <2>1. run \in 1 .. MaxRuns /\ MaxRuns \in Nat
    BY RunsAssumption DEF IInv, TypeOK
  <2>2. outcome \in [Gates -> Outcomes] /\ JudgeOnly \subseteq Gates
    BY OpenTypes DEF IInv, TypeOK
  <2> QED  BY <2>1, <2>2
<1>3. JudgeOnly' = JudgeOnly
  BY <1>1 DEF JudgeOnly
<1>4. SecondInv'
  <2> SUFFICES ASSUME run = 1, Complete'
               PROVE  /\ \A p \in Ids : \E U \in SUBSET Gates :
                           /\ Counts(previous'[OnlyKey(p)], U)
                           /\ Cardinality(OpenOf(p)') <= Cardinality(U)
                      /\ \A h \in JudgeOnly' : pc'[h] \notin {"asking", "judged"} /\ h \notin asked'
    BY <1>1, <1>2 DEF SecondInv
  <2>1. ASSUME NEW p \in Ids
        PROVE  \E U \in SUBSET Gates : /\ Counts(previous'[OnlyKey(p)], U)
                                       /\ Cardinality(OpenOf(p)') <= Cardinality(U)
    <3>1. Counts(previous'[OnlyKey(p)], DecidedOf(p))
      BY <1>1 DEF ReuseInv, FirstInv
    <3>2. \A g \in Gates : outcome[g] \in Decided
      BY <1>1 DEF Complete, Decided
    <3>3. DecidedOf(p) = OnlyOf(p)
      BY <1>2, <3>2 DEF DecidedOf, OnlyOf
    <3>4. OpenOf(p)' \subseteq OnlyOf(p)
      BY <1>3 DEF OpenOf, OnlyOf
    <3>5. IsFiniteSet(OnlyOf(p)) /\ OnlyOf(p) \in SUBSET Gates
      BY OpenTypes, OpenIsFinite DEF IInv
    <3>6. Cardinality(OpenOf(p)') <= Cardinality(OnlyOf(p))
      BY <3>4, <3>5, FS_Subset
    <3> QED  BY <3>1, <3>3, <3>5, <3>6
  <2> QED  BY <1>1, <1>2, <1>3, <2>1
<1> QED  BY <1>1, <1>2, <1>4 DEF ReuseInv, FirstInv

LEMMA InitReuse == ASSUME Init PROVE ReuseInv
<1>1. \A p \in Ids : DecidedOf(p) = {} /\ OnlyKey(p) \in Keys
  <2>1. Scripts \subseteq SUBSET Gates
    BY GatesAssumption
  <2> QED  BY <2>1 DEF Init, DecidedOf, OnlyOf, JudgeOnly, Decided, OnlyKey, Keys, Ids
<1>2. \A p \in Ids : \A v \in Values : current[OnlyKey(p)][v] = 0
  <2> SUFFICES ASSUME NEW p \in Ids, NEW v \in Values PROVE Nothing[OnlyKey(p)][v] = 0
    BY DEF Init
  <2> QED  BY <1>1 DEF Nothing
<1>3. \A p \in Ids : Counts(current[OnlyKey(p)], DecidedOf(p))
  BY <1>1, <1>2, NoneCounts
<1>4. run = 1 /\ previous = Nothing
  BY DEF Init
<1> QED  BY <1>3, <1>4 DEF ReuseInv, FirstInv, SecondInv

LEMMA NextReuses == IInv /\ ReuseInv /\ [Next]_vars => ReuseInv'
<1> SUFFICES ASSUME IInv, ReuseInv, [Next]_vars PROVE ReuseInv'
  OBVIOUS
<1>1. CASE Stop \/ UNCHANGED vars
  <2>1. UNCHANGED <<cacheVars, pc, outcome, judges, run, before, asked>>
    BY <1>1 DEF Stop
  <2> QED  BY <2>1, ReuseStays
<1> QED  BY <1>1, QuietStepsReuse, AnswersReuse, DecideReuses, VerdictCachedReuses, ResumeReuses DEF Next

(* The first resume of a complete run runs no judge again for a gate that   *)
(* only has a judge, however many gates share its prompt and whichever of   *)
(* their results and verdicts each is handed (api.py, _gate_judge).         *)
THEOREM VerdictsAreReused == Spec => []FirstResumeReusesVerdicts
<1>1. Init => ReuseInv
  BY InitReuse
<1>2. ReuseInv => FirstResumeReusesVerdicts
  BY DEF ReuseInv, SecondInv, FirstResumeReusesVerdicts
<1> QED  BY <1>1, <1>2, NextReuses, Invariance, PTL DEF Spec

=============================================================================
