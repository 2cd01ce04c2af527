--------------------------- MODULE ChildRun_proofs ---------------------------
(***************************************************************************)
(* Theorems about ChildRun.  The invariants of the module speak of calls   *)
(* that are over; the inductive invariant follows a call, its worker and   *)
(* its tool calls to that point: a worker is alive after its call only if  *)
(* the call abandoned it, and a tool call only inside a turn.              *)
(***************************************************************************)
EXTENDS ChildRun, FiniteSetTheorems, TLAPS

Unlaunched == {"idle", "leased", "scoped"}
Waiting    == {"running", "grace"}
Cleaning   == {"leaving", "removing", "settling"}
Closed     == {"unscoping", "over"}

(* The broker's entries of a child. *)
NoEntry(c) == /\ c \notin expected \cup results \cup exhausted
              /\ attempts[c] = 0

(* Where the worker may be. *)
WorkerInv ==
  \A c \in Children :
    /\ pc[c] \in Unlaunched => worker[c] = "none"
    /\ worker[c] = "none" => pc[c] \in Unlaunched \cup Closed
    /\ pc[c] \in Cleaning \cup Closed /\ c \notin abandoned => worker[c] \in Ended \cup {"none"}
    /\ c \in abandoned => pc[c] \in Cleaning \cup Closed
    /\ \A s \in ToolCalls : ticket[c][s] > 0 => worker[c] = "turn" /\ c \in Structured

(* What the broker has of a child. *)
BrokerInv ==
  \A c \in Children :
    /\ c \in expected => pc[c] \in Waiting \cup Cleaning
    /\ worker[c] = "none" => NoEntry(c) /\ c \notin accepted /\ validated[c] = 0
    /\ c \notin Structured => NoEntry(c)
    /\ pc[c] \in Closed /\ c \notin abandoned => NoEntry(c)

CountInv ==
  \A c \in Children : /\ validated[c] <= MaxAttempts
                      /\ c \in expected => validated[c] <= attempts[c]

(* An accepted result is there until the call is settled. *)
ResultInv ==
  \A c \in Children :
    /\ c \in results => c \in accepted
    /\ c \in accepted /\ pc[c] \in Waiting \cup Cleaning => c \in results
    /\ worker[c] = "gaveup" /\ pc[c] \in Waiting \cup Cleaning => c \notin accepted
    /\ outcome[c] = "exhausted" => worker[c] = "gaveup" /\ c \notin accepted
    /\ outcome[c] = "answer" /\ pc[c] \in Closed /\ c \in Structured => c \in accepted

WorkInv ==
  \A c \in Children : /\ pc[c] = "removing" => tree[c] \in {"clean", "hidden"} \/ c \in abandoned
                      /\ tree[c] = "lost" => c \in abandoned

ScopeInv == /\ ToolLivesWithScopes
            /\ owned <=> entry = "ours"

IInv == /\ TypeOK /\ WorkerInv /\ BrokerInv /\ CountInv
        /\ ResultInv /\ WorkInv /\ ScopeInv

USE DEF callVars, threads, broker, registry, vars, Goto, Resolve, Answered,
        Places, Outcomes, Ended, Workers, Trees, InScope,
        Unlaunched, Waiting, Cleaning, Closed

-----------------------------------------------------------------------------
(* Nothing was leased, launched or registered. *)
LEMMA InitInv == Init => IInv
<1> SUFFICES ASSUME Init PROVE IInv
  OBVIOUS
<1>1. TypeOK
  <2>1. 0 \in 0 .. MaxAttempts /\ 0 \in 0 .. MaxAttempts - 1
    BY AttemptsAssumption
  <2>2. ticket \in [Children -> [ToolCalls -> 0 .. MaxAttempts]]
    BY <2>1 DEF Init
  <2> QED
    BY <2>1, <2>2 DEF Init, TypeOK
<1>2. WorkerInv /\ BrokerInv /\ ResultInv /\ WorkInv
  BY DEF Init, WorkerInv, BrokerInv, NoEntry, ResultInv, WorkInv
<1>3. CountInv
  BY AttemptsAssumption DEF Init, CountInv
<1>4. ScopeInv
  <2>1. Scoped = {}
    BY ChildrenAssumption DEF Init, Scoped
  <2> QED
    <3>0. Cardinality({}) = 0
      BY FS_EmptySet
    <3>1. Cardinality(Scoped) = 0
      BY <2>1, <3>0
    <3>2. entry # "ours" /\ users = 0 /\ owned = FALSE
      BY DEF Init
    <3> QED
      BY <2>1, <3>1, <3>2 DEF ScopeInv, ToolLivesWithScopes
<1> QED
  BY <1>1, <1>2, <1>3, <1>4 DEF IInv

LEMMA NextTypeOK == TypeOK /\ [Next]_vars => TypeOK'
<1> SUFFICES ASSUME TypeOK, [Next]_vars PROVE TypeOK'
  OBVIOUS
<1> USE AttemptsAssumption, ChildrenAssumption DEF TypeOK
<1>1. ASSUME NEW c \in Children, Lease(c) \/ LeaseFails(c) \/ PrepareFails(c) \/ ScopeRefused(c)
      PROVE  TypeOK'
  BY <1>1 DEF Lease, LeaseFails, PrepareFails, ScopeRefused
<1>2. ASSUME NEW c \in Children, EnterScope(c) \/ BuildFails(c) \/ ExitScope(c) PROVE TypeOK'
  <2>1. users' \in Nat
    BY <1>2 DEF EnterScope, BuildFails, ExitScope
  <2>2. owned' \in BOOLEAN /\ entry' \in {"none", "ours", "foreign"}
    BY <1>2 DEF EnterScope, BuildFails, ExitScope
  <2>3. pc' \in [Children -> Places] /\ outcome' \in [Children -> Outcomes]
    BY <1>2 DEF EnterScope, BuildFails, ExitScope
  <2>4. UNCHANGED <<abandoned, threads, tree, broker>>
    BY <1>2 DEF EnterScope, BuildFails, ExitScope
  <2> QED
    BY <2>1, <2>2, <2>3, <2>4
<1>3. ASSUME NEW c \in Children, Launch(c) PROVE TypeOK'
  BY <1>3 DEF Launch
<1>4. ASSUME NEW c \in Children, Collect(c) \/ Timeout(c) \/ LeaveGrace(c) PROVE TypeOK'
  BY <1>4 DEF Collect, Timeout, LeaveGrace
<1>5. ASSUME NEW c \in Children, CloseChild(c) \/ RemoveTree(c) \/ RemovalFails(c) PROVE TypeOK'
  BY <1>5 DEF CloseChild, RemoveTree, RemovalFails, Destroyed
<1>6. ASSUME NEW c \in Children, Settle(c) PROVE TypeOK'
  <2>1. /\ expected' \subseteq Structured /\ results' \subseteq Children
        /\ exhausted' \subseteq Children /\ attempts' \in [Children -> Nat]
    BY <1>6 DEF Settle, Forget
  <2>2. pc' \in [Children -> Places] /\ outcome' \in [Children -> Outcomes]
    BY <1>6 DEF Settle
  <2> QED
    BY <1>6, <2>1, <2>2 DEF Settle
<1>7. ASSUME NEW c \in Children, Edit(c) \/ TurnEnds(c) \/ TurnRaises(c) PROVE TypeOK'
  <2>1. worker' \in [Children -> Workers] /\ tree' \in [Children -> Trees]
    <3>1. CASE Edit(c)
      BY <3>1 DEF Edit
    <3>2. CASE TurnEnds(c) \/ TurnRaises(c)
      BY <3>2 DEF TurnEnds, TurnRaises, EndTurn
    <3> QED
      BY <1>7, <3>1, <3>2
  <2>2. UNCHANGED <<callVars, stops, broker, registry>>
    BY <1>7 DEF Edit, TurnEnds, TurnRaises, EndTurn
  <2> QED
    BY <2>1, <2>2
<1>8. ASSUME NEW c \in Children, Peek(c) PROVE TypeOK'
  <2>1. c \notin results /\ ~GivesUp(c) => stops[c] + 1 \in 0 .. MaxAttempts - 1
    BY DEF GivesUp
  <2> QED
    BY <1>8, <2>1 DEF Peek
<1>9. ASSUME NEW c \in Children, NEW s \in ToolCalls, Submit(c, s) PROVE TypeOK'
  <2>1. attempts[c] + 1 \in Nat /\ validated[c] + 1 \in Nat
    OBVIOUS
  <2>2. ASSUME NEW n \in 0 .. MaxAttempts
        PROVE  [ticket EXCEPT ![c] = [ticket[c] EXCEPT ![s] = n]]
                 \in [Children -> [ToolCalls -> 0 .. MaxAttempts]]
    OBVIOUS
  <2>3. WithinLimit(attempts[c] + 1) => attempts[c] + 1 \in 0 .. MaxAttempts
    BY <2>1 DEF WithinLimit
  <2>4. ticket' \in [Children -> [ToolCalls -> 0 .. MaxAttempts]]
    <3>1. \/ UNCHANGED ticket
          \/ /\ WithinLimit(attempts[c] + 1)
             /\ ticket' = [ticket EXCEPT ![c] = [ticket[c] EXCEPT ![s] = attempts[c] + 1]]
      BY <1>9 DEF Submit
    <3> QED
      BY <2>2, <2>3, <3>1
  <2>5. attempts' \in [Children -> Nat] /\ validated' \in [Children -> Nat]
    BY <1>9, <2>1 DEF Submit
  <2> QED
    BY <1>9, <2>4, <2>5 DEF Submit
<1>10. ASSUME NEW c \in Children, NEW s \in ToolCalls, Accept(c, s) \/ Reject(c, s) PROVE TypeOK'
  <2>1. ticket' \in [Children -> [ToolCalls -> 0 .. MaxAttempts]]
    <3>1. ticket' = [ticket EXCEPT ![c] = [ticket[c] EXCEPT ![s] = 0]]
      BY <1>10 DEF Accept, Reject
    <3>2. [ticket[c] EXCEPT ![s] = 0] \in [ToolCalls -> 0 .. MaxAttempts]
      OBVIOUS
    <3> QED
      BY <3>1, <3>2
  <2> QED
    BY <1>10, <2>1 DEF Accept, Reject
<1>11. CASE ForeignTool
  BY <1>11 DEF ForeignTool
<1>12. CASE UNCHANGED vars
  BY <1>12
<1> QED
  BY <1>1, <1>2, <1>3, <1>4, <1>5, <1>6, <1>7, <1>8, <1>9, <1>10, <1>11, <1>12
  DEF Next, CallerStep, WorkerStep, ToolStep

LEMMA NextWorker == TypeOK /\ WorkerInv /\ [Next]_vars => WorkerInv'
<1> SUFFICES ASSUME TypeOK, WorkerInv, [Next]_vars PROVE WorkerInv'
  OBVIOUS
<1> USE AttemptsAssumption, ChildrenAssumption DEF TypeOK, WorkerInv
<1>1. ASSUME NEW c \in Children, Lease(c) \/ LeaseFails(c) \/ PrepareFails(c) \/ ScopeRefused(c)
      PROVE  WorkerInv'
  BY <1>1 DEF Lease, LeaseFails, PrepareFails, ScopeRefused
<1>2. ASSUME NEW c \in Children, EnterScope(c) \/ BuildFails(c) \/ ExitScope(c) PROVE WorkerInv'
  BY <1>2 DEF EnterScope, BuildFails, ExitScope
<1>3. ASSUME NEW c \in Children, Launch(c) PROVE WorkerInv'
  BY <1>3 DEF Launch
<1>4. ASSUME NEW c \in Children, Collect(c) \/ Timeout(c) \/ LeaveGrace(c) PROVE WorkerInv'
  BY <1>4 DEF Collect, Timeout, LeaveGrace
<1>5. ASSUME NEW c \in Children, CloseChild(c) \/ RemoveTree(c) \/ RemovalFails(c) PROVE WorkerInv'
  BY <1>5 DEF CloseChild, RemoveTree, RemovalFails, Destroyed
<1>6. ASSUME NEW c \in Children, Settle(c) PROVE WorkerInv'
  BY <1>6 DEF Settle
<1>7. ASSUME NEW c \in Children, Edit(c) \/ TurnEnds(c) \/ TurnRaises(c) PROVE WorkerInv'
  BY <1>7 DEF Edit, TurnEnds, TurnRaises, EndTurn
<1>8. ASSUME NEW c \in Children, Peek(c) PROVE WorkerInv'
  BY <1>8 DEF Peek
<1>9. ASSUME NEW c \in Children, NEW s \in ToolCalls, Submit(c, s) PROVE WorkerInv'
  BY <1>9 DEF Submit
<1>10. ASSUME NEW c \in Children, NEW s \in ToolCalls, Accept(c, s) \/ Reject(c, s) PROVE WorkerInv'
  BY <1>10 DEF Accept, Reject
<1>11. CASE ForeignTool
  BY <1>11 DEF ForeignTool
<1>12. CASE UNCHANGED vars
  BY <1>12
<1> QED
  BY <1>1, <1>2, <1>3, <1>4, <1>5, <1>6, <1>7, <1>8, <1>9, <1>10, <1>11, <1>12
  DEF Next, CallerStep, WorkerStep, ToolStep

LEMMA NextBroker == TypeOK /\ WorkerInv /\ BrokerInv /\ [Next]_vars => BrokerInv'
<1> SUFFICES ASSUME TypeOK, WorkerInv, BrokerInv, [Next]_vars PROVE BrokerInv'
  OBVIOUS
<1> USE AttemptsAssumption, ChildrenAssumption DEF TypeOK, WorkerInv, BrokerInv, NoEntry
<1>1. ASSUME NEW c \in Children, Lease(c) \/ LeaseFails(c) \/ PrepareFails(c) \/ ScopeRefused(c)
      PROVE  BrokerInv'
  BY <1>1 DEF Lease, LeaseFails, PrepareFails, ScopeRefused
<1>2. ASSUME NEW c \in Children, EnterScope(c) \/ BuildFails(c) \/ ExitScope(c) PROVE BrokerInv'
  BY <1>2 DEF EnterScope, BuildFails, ExitScope
<1>3. ASSUME NEW c \in Children, Launch(c) PROVE BrokerInv'
  BY <1>3 DEF Launch
<1>4. ASSUME NEW c \in Children, Collect(c) \/ Timeout(c) \/ LeaveGrace(c) PROVE BrokerInv'
  BY <1>4 DEF Collect, Timeout, LeaveGrace
<1>5. ASSUME NEW c \in Children, CloseChild(c) \/ RemoveTree(c) \/ RemovalFails(c) PROVE BrokerInv'
  BY <1>5 DEF CloseChild, RemoveTree, RemovalFails, Destroyed
<1>6. ASSUME NEW c \in Children, Settle(c) PROVE BrokerInv'
  BY <1>6 DEF Settle, Forget
<1>7. ASSUME NEW c \in Children, Edit(c) \/ TurnEnds(c) \/ TurnRaises(c) PROVE BrokerInv'
  BY <1>7 DEF Edit, TurnEnds, TurnRaises, EndTurn
<1>8. ASSUME NEW c \in Children, Peek(c) PROVE BrokerInv'
  BY <1>8 DEF Peek
<1>9. ASSUME NEW c \in Children, NEW s \in ToolCalls, Submit(c, s) PROVE BrokerInv'
  BY <1>9 DEF Submit
<1>10. ASSUME NEW c \in Children, NEW s \in ToolCalls, Accept(c, s) \/ Reject(c, s) PROVE BrokerInv'
  <2>1. CASE Accept(c, s)
    BY <2>1 DEF Accept
  <2>2. CASE Reject(c, s)
    BY <2>2 DEF Reject
  <2> QED
    BY <1>10, <2>1, <2>2
<1>11. CASE ForeignTool
  BY <1>11 DEF ForeignTool
<1>12. CASE UNCHANGED vars
  BY <1>12
<1> QED
  BY <1>1, <1>2, <1>3, <1>4, <1>5, <1>6, <1>7, <1>8, <1>9, <1>10, <1>11, <1>12
  DEF Next, CallerStep, WorkerStep, ToolStep

(* Only register() and submit() touch the counts of a live task. *)
LEMMA NextCount == TypeOK /\ WorkerInv /\ BrokerInv /\ CountInv /\ [Next]_vars => CountInv'
<1> SUFFICES ASSUME TypeOK, WorkerInv, BrokerInv, CountInv, [Next]_vars PROVE CountInv'
  OBVIOUS
<1> USE AttemptsAssumption, ChildrenAssumption DEF TypeOK, CountInv
<1>1. ASSUME NEW c \in Children, Launch(c) PROVE CountInv'
  <2>1. validated[c] = 0
    BY <1>1 DEF Launch, WorkerInv, BrokerInv
  <2> QED
    BY <1>1, <2>1 DEF Launch
<1>2. ASSUME NEW c \in Children, Settle(c) PROVE CountInv'
  BY <1>2 DEF Settle, Forget
<1>3. ASSUME NEW c \in Children, NEW s \in ToolCalls, Submit(c, s) PROVE CountInv'
  <2>1. \A d \in Children \ {c} : validated'[d] = validated[d] /\ attempts'[d] = attempts[d]
    BY <1>3 DEF Submit
  <2>2. attempts'[c] = attempts[c] + 1 /\ UNCHANGED expected
    BY <1>3 DEF Submit
  <2>3. \/ validated'[c] = validated[c]
        \/ c \in expected /\ attempts[c] + 1 <= MaxAttempts /\ validated'[c] = validated[c] + 1
    BY <1>3 DEF Submit, WithinLimit
  <2> QED
    BY <2>1, <2>2, <2>3
<1>4. CASE UNCHANGED <<validated, attempts, expected>>
  BY <1>4
<1>5. ASSUME NEW c \in Children, CallerStep(c), ~Launch(c), ~Settle(c)
      PROVE  UNCHANGED <<validated, attempts, expected>>
  BY <1>5 DEF CallerStep, Lease, LeaseFails, PrepareFails, EnterScope, ScopeRefused, BuildFails,
              Collect, Timeout, LeaveGrace, CloseChild, RemoveTree, RemovalFails, ExitScope
<1>6. ASSUME NEW c \in Children, WorkerStep(c) \/ ToolStep(c) \/ ForeignTool
      PROVE  UNCHANGED <<validated, attempts, expected>>
  BY <1>6 DEF WorkerStep, Edit, TurnEnds, TurnRaises, EndTurn, Peek, ToolStep, Accept, Reject,
              ForeignTool
<1>7. CASE ForeignTool \/ UNCHANGED vars
  BY <1>7 DEF ForeignTool
<1> QED
  BY <1>1, <1>2, <1>3, <1>4, <1>5, <1>6, <1>7 DEF Next

LEMMA NextResult ==
  TypeOK /\ WorkerInv /\ BrokerInv /\ ResultInv /\ [Next]_vars => ResultInv'
<1> SUFFICES ASSUME TypeOK, WorkerInv, BrokerInv, ResultInv, [Next]_vars PROVE ResultInv'
  OBVIOUS
<1> USE AttemptsAssumption, ChildrenAssumption DEF TypeOK, WorkerInv, BrokerInv, NoEntry, ResultInv
<1>1. ASSUME NEW c \in Children, Lease(c) \/ LeaseFails(c) \/ PrepareFails(c) \/ ScopeRefused(c)
      PROVE  ResultInv'
  BY <1>1 DEF Lease, LeaseFails, PrepareFails, ScopeRefused
<1>2. ASSUME NEW c \in Children, EnterScope(c) \/ BuildFails(c) \/ ExitScope(c) PROVE ResultInv'
  BY <1>2 DEF EnterScope, BuildFails, ExitScope
<1>3. ASSUME NEW c \in Children, Launch(c) PROVE ResultInv'
  BY <1>3 DEF Launch
<1>4. ASSUME NEW c \in Children, Collect(c) \/ Timeout(c) \/ LeaveGrace(c) PROVE ResultInv'
  BY <1>4 DEF Collect, Timeout, LeaveGrace
<1>5. ASSUME NEW c \in Children, CloseChild(c) \/ RemoveTree(c) \/ RemovalFails(c) PROVE ResultInv'
  <2>1. CASE CloseChild(c)
    BY <2>1 DEF CloseChild
  <2>2. CASE RemoveTree(c) \/ RemovalFails(c)
    BY <2>2 DEF RemoveTree, RemovalFails
  <2> QED
    BY <1>5, <2>1, <2>2
<1>6. ASSUME NEW c \in Children, Settle(c) PROVE ResultInv'
  BY <1>6 DEF Settle, Forget
<1>7. ASSUME NEW c \in Children, Edit(c) \/ TurnEnds(c) \/ TurnRaises(c) PROVE ResultInv'
  BY <1>7 DEF Edit, TurnEnds, TurnRaises, EndTurn
<1>8. ASSUME NEW c \in Children, Peek(c) PROVE ResultInv'
  BY <1>8 DEF Peek, GivesUp
<1>9. ASSUME NEW c \in Children, NEW s \in ToolCalls, Submit(c, s) PROVE ResultInv'
  BY <1>9 DEF Submit
<1>10. ASSUME NEW c \in Children, NEW s \in ToolCalls, Accept(c, s) \/ Reject(c, s) PROVE ResultInv'
  BY <1>10 DEF Accept, Reject
<1>11. CASE ForeignTool
  BY <1>11 DEF ForeignTool
<1>12. CASE UNCHANGED vars
  BY <1>12
<1> QED
  BY <1>1, <1>2, <1>3, <1>4, <1>5, <1>6, <1>7, <1>8, <1>9, <1>10, <1>11, <1>12
  DEF Next, CallerStep, WorkerStep, ToolStep

(* A tree is looked at by a call whose worker ended, or that abandoned it. *)
LEMMA NextWork == TypeOK /\ WorkerInv /\ WorkInv /\ [Next]_vars => WorkInv'
<1> SUFFICES ASSUME TypeOK, WorkerInv, WorkInv, [Next]_vars PROVE WorkInv'
  OBVIOUS
<1> USE DEF TypeOK, WorkInv
<1>1. ASSUME NEW c \in Children, Lease(c) \/ LeaseFails(c) \/ PrepareFails(c) \/ ScopeRefused(c)
      PROVE  WorkInv'
  BY <1>1 DEF Lease, LeaseFails, PrepareFails, ScopeRefused
<1>2. ASSUME NEW c \in Children, EnterScope(c) \/ BuildFails(c) \/ ExitScope(c) \/ Launch(c)
      PROVE  WorkInv'
  BY <1>2 DEF EnterScope, BuildFails, ExitScope, Launch
<1>3. ASSUME NEW c \in Children, Collect(c) \/ Timeout(c) \/ LeaveGrace(c) \/ Settle(c)
      PROVE  WorkInv'
  BY <1>3 DEF Collect, Timeout, LeaveGrace, Settle
<1>4. ASSUME NEW c \in Children, CloseChild(c) PROVE WorkInv'
  BY <1>4 DEF CloseChild, Removable
<1>5. ASSUME NEW c \in Children, RemoveTree(c) \/ RemovalFails(c) PROVE WorkInv'
  BY <1>5 DEF RemoveTree, RemovalFails, Destroyed
<1>6. ASSUME NEW c \in Children, Edit(c) PROVE WorkInv'
  <2>1. pc[c] = "removing" => c \in abandoned
    BY <1>6 DEF Edit, WorkerInv
  <2> QED
    BY <1>6, <2>1 DEF Edit
<1>7. ASSUME NEW c \in Children, TurnEnds(c) \/ TurnRaises(c) \/ Peek(c) PROVE WorkInv'
  BY <1>7 DEF TurnEnds, TurnRaises, EndTurn, Peek
<1>8. ASSUME NEW c \in Children, NEW s \in ToolCalls, Submit(c, s) \/ Accept(c, s) \/ Reject(c, s)
      PROVE  WorkInv'
  BY <1>8 DEF Submit, Accept, Reject
<1>9. CASE ForeignTool \/ UNCHANGED vars
  BY <1>9 DEF ForeignTool
<1> QED
  BY <1>1, <1>2, <1>3, <1>4, <1>5, <1>6, <1>7, <1>8, <1>9
  DEF Next, CallerStep, WorkerStep, ToolStep

-----------------------------------------------------------------------------
(* The scopes are counted as they are entered and left. *)
LEMMA ScopedIsFinite ==
  /\ IsFiniteSet(Scoped)
  /\ Cardinality(Scoped) \in Nat
  /\ Cardinality(Scoped) = 0 <=> Scoped = {}
<1>1. IsFiniteSet(Scoped)
  BY ChildrenAssumption, FS_Subset DEF Scoped
<1> QED
  BY <1>1, FS_CardinalityType, FS_EmptySet

LEMMA EnterCounts ==
  ASSUME TypeOK, ScopeInv, NEW c \in Structured, EnterScope(c)
  PROVE  ScopeInv'
<1>1. c \in Children /\ pc[c] = "leased" /\ pc' = [pc EXCEPT ![c] = "scoped"]
  BY ChildrenAssumption DEF EnterScope
<1>2. c \notin Scoped /\ Scoped' = Scoped \cup {c}
  BY <1>1, ChildrenAssumption DEF Scoped, TypeOK
<1>3. Cardinality(Scoped') = Cardinality(Scoped) + 1
  BY <1>2, ScopedIsFinite, FS_AddElement
<1>4. users' = users + 1 /\ users = Cardinality(Scoped)
  BY DEF EnterScope, ScopeInv, ToolLivesWithScopes
<1>5. CASE users = 0
  <2>1. entry # "foreign" /\ entry # "ours"
    BY <1>4, <1>5, ScopedIsFinite DEF EnterScope, ScopeInv, ToolLivesWithScopes
  <2>2. entry' = "ours" /\ owned' = TRUE
    BY <1>5, <2>1 DEF EnterScope, TypeOK
  <2> QED
    BY <1>2, <1>3, <1>4, <2>2 DEF ScopeInv, ToolLivesWithScopes
<1>6. CASE users # 0
  <2>1. entry = "ours" /\ owned
    BY <1>4, <1>6, ScopedIsFinite DEF ScopeInv, ToolLivesWithScopes
  <2>2. entry' = entry /\ owned' = owned
    BY <1>6 DEF EnterScope
  <2> QED
    BY <1>2, <1>3, <1>4, <2>1, <2>2 DEF ScopeInv, ToolLivesWithScopes
<1> QED
  BY <1>5, <1>6

LEMMA ExitCounts ==
  ASSUME TypeOK, ScopeInv, NEW c \in Structured, ExitScope(c)
  PROVE  ScopeInv'
<1>1. c \in Children /\ pc[c] = "unscoping" /\ pc' = [pc EXCEPT ![c] = "over"]
  BY ChildrenAssumption DEF ExitScope
<1>2. c \in Scoped /\ Scoped' = Scoped \ {c}
  BY <1>1, ChildrenAssumption DEF Scoped, TypeOK
<1>3. Cardinality(Scoped') = Cardinality(Scoped) - 1
  BY <1>2, ScopedIsFinite, FS_RemoveElement
<1>4. /\ users = Cardinality(Scoped) /\ users \in Nat \ {0}
      /\ users' = users - 1
      /\ entry = "ours" /\ owned
  BY <1>2, ScopedIsFinite DEF ExitScope, ScopeInv, ToolLivesWithScopes, TypeOK
<1>5. IsFiniteSet(Scoped')
  BY <1>2, ScopedIsFinite, FS_RemoveElement
<1>6. Cardinality(Scoped') = 0 <=> Scoped' = {}
  BY <1>5, FS_EmptySet
<1>7. CASE users = 1
  <2>1. entry' = "none" /\ owned' = FALSE
    BY <1>4, <1>7 DEF ExitScope, LastUser
  <2> QED
    BY <1>3, <1>4, <1>6, <1>7, <2>1 DEF ScopeInv, ToolLivesWithScopes
<1>8. CASE users # 1
  <2>1. entry' = entry /\ owned' = owned
    BY <1>8 DEF ExitScope, LastUser
  <2> QED
    BY <1>3, <1>4, <1>6, <1>8, <2>1 DEF ScopeInv, ToolLivesWithScopes
<1> QED
  BY <1>7, <1>8

LEMMA NextScope == TypeOK /\ ScopeInv /\ [Next]_vars => ScopeInv'
<1> SUFFICES ASSUME TypeOK, ScopeInv, [Next]_vars PROVE ScopeInv'
  OBVIOUS
<1> USE ChildrenAssumption
<1>1. ASSUME UNCHANGED registry, Scoped' = Scoped PROVE ScopeInv'
  BY <1>1 DEF ScopeInv, ToolLivesWithScopes
<1>2. ASSUME NEW c \in Children, EnterScope(c) PROVE ScopeInv'
  <2>1. CASE c \in Structured
    BY <1>2, <2>1, EnterCounts
  <2>2. CASE c \notin Structured
    BY <1>1, <1>2, <2>2 DEF EnterScope, Scoped, TypeOK
  <2> QED
    BY <2>1, <2>2
<1>3. ASSUME NEW c \in Children, ExitScope(c) PROVE ScopeInv'
  <2>1. CASE c \in Structured
    BY <1>3, <2>1, ExitCounts
  <2>2. CASE c \notin Structured
    BY <1>1, <1>3, <2>2 DEF ExitScope, Scoped, TypeOK
  <2> QED
    BY <2>1, <2>2
<1>4. ASSUME NEW c \in Children, Lease(c) \/ LeaseFails(c) \/ PrepareFails(c) \/ ScopeRefused(c)
                                  \/ BuildFails(c) \/ Launch(c)
      PROVE  ScopeInv'
  <2>1. Scoped' = Scoped
    BY <1>4 DEF Lease, LeaseFails, PrepareFails, ScopeRefused, BuildFails, Launch, Scoped, TypeOK
  <2>2. UNCHANGED registry
    BY <1>4 DEF Lease, LeaseFails, PrepareFails, ScopeRefused, BuildFails, Launch
  <2> QED
    BY <1>1, <2>1, <2>2
<1>5. ASSUME NEW c \in Children, Collect(c) \/ Timeout(c) \/ LeaveGrace(c) \/ CloseChild(c)
                                  \/ RemoveTree(c) \/ RemovalFails(c) \/ Settle(c)
      PROVE  ScopeInv'
  <2>1. Scoped' = Scoped
    BY <1>5 DEF Collect, Timeout, LeaveGrace, CloseChild, RemoveTree, RemovalFails, Settle,
                Scoped, TypeOK
  <2>2. UNCHANGED registry
    BY <1>5 DEF Collect, Timeout, LeaveGrace, CloseChild, RemoveTree, RemovalFails, Settle
  <2> QED
    BY <1>1, <2>1, <2>2
<1>6. ASSUME NEW c \in Children, WorkerStep(c) \/ ToolStep(c)
                                  \/ \E s \in ToolCalls : Submit(c, s)
      PROVE  ScopeInv'
  <2>1. UNCHANGED <<pc, registry>>
    BY <1>6 DEF WorkerStep, Edit, TurnEnds, TurnRaises, EndTurn, Peek, ToolStep, Accept, Reject,
                Submit
  <2> QED
    BY <1>1, <2>1 DEF Scoped
<1>7. CASE ForeignTool
  <2>1. /\ UNCHANGED <<pc, users, owned>>
        /\ entry # "ours" /\ entry' # "ours"
    BY <1>7 DEF ForeignTool
  <2> QED
    BY <2>1 DEF ScopeInv, ToolLivesWithScopes, Scoped
<1>8. CASE UNCHANGED vars
  BY <1>1, <1>8 DEF Scoped
<1> QED
  BY <1>2, <1>3, <1>4, <1>5, <1>6, <1>7, <1>8 DEF Next, CallerStep

-----------------------------------------------------------------------------
(* The inductive invariant of children, their workers and their tool calls. *)
THEOREM Invariance == Spec => []IInv
<1>1. IInv /\ [Next]_vars => IInv'
  BY NextTypeOK, NextWorker, NextBroker, NextCount, NextResult, NextWork, NextScope DEF IInv
<1> QED
  BY InitInv, <1>1, PTL DEF Spec

(* Everything stays in its limits, the prompts of a child too. *)
THEOREM TypeCorrect == Spec => []TypeOK
<1>1. IInv => TypeOK
  BY DEF IInv
<1> QED
  BY Invariance, <1>1, PTL

(* The tool is registered exactly while a schema child's scope is open, for *)
(* any number of children that come and go.                                 *)
THEOREM ToolFollowsScopes == Spec => []ToolLivesWithScopes
<1>1. IInv => ToolLivesWithScopes
  BY DEF IInv, ScopeInv
<1> QED
  BY Invariance, <1>1, PTL

(* Concurrent and late submissions never pass the limit. *)
THEOREM SubmissionsAreBounded == Spec => []AttemptsBounded
<1>1. IInv => AttemptsBounded
  BY DEF IInv, CountInv, AttemptsBounded
<1> QED
  BY Invariance, <1>1, PTL

(* Whoever was told of success is not failed for want of a result. *)
THEOREM AcceptedResultsAreReturned == Spec => []AcceptedResultsCount
<1>1. IInv => AcceptedResultsCount
  BY ChildrenAssumption DEF IInv, ResultInv, AcceptedResultsCount
<1> QED
  BY Invariance, <1>1, PTL

(* Only an abandoned worker can lose work that git would have shown. *)
THEOREM ShownWorkIsSafe == Spec => []ShownWorkSurvives
<1>1. IInv => ShownWorkSurvives
  BY DEF IInv, WorkInv, ShownWorkSurvives
<1> QED
  BY Invariance, <1>1, PTL

(* Without an abandoned worker the broker keeps nothing of a call. *)
THEOREM BrokerIsClean == Spec => []BrokerForgets
<1>1. IInv => BrokerForgets
  BY DEF IInv, BrokerInv, NoEntry, BrokerForgets
<1> QED
  BY Invariance, <1>1, PTL
=============================================================================
