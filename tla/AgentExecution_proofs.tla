----------------------- MODULE AgentExecution_proofs -----------------------
(***************************************************************************)
(* Theorems about AgentExecution for every set of calls, every number of   *)
(* slots, every cap and every budget, checked with TLAPS.                   *)
(***************************************************************************)
EXTENDS AgentExecution, FiniteSetTheorems, TLAPS

(* What a call's place says of its record and its child. *)
PlaceInv ==
  \A c \in Calls :
    /\ pc[c] \in {"idle", "entered", "reserving", "admitting"} => record[c] = "none"
    /\ pc[c] = "lookup" => record[c] = "queued"
    /\ pc[c] \in {"queued", "acquiring", "slotted", "launching", "registered", "active", "grace",
                  "leaving", "settling"}
         => record[c] = "running"
    /\ pc[c] = "returned" => record[c] \in {"done", "skipped", "error"}
    /\ pc[c] = "halted" => record[c] \in {"none", "running"}
    /\ pc[c] \in {"idle", "entered", "reserving", "admitting", "lookup", "queued", "acquiring",
                  "slotted", "launching", "halted"} => child[c] = "none"
    /\ pc[c] = "registered" => child[c] = "built"
    /\ pc[c] \in {"active", "grace"} => child[c] \in {"running", "reporting", "exited"}
    /\ pc[c] = "leaving" => child[c] # "none" /\ outcome[c] # "skipped"
    /\ pc[c] = "settling" /\ outcome[c] # "failure" => child[c] # "none"

(* The registry holds the children of the calls that wait for one, and those *)
(* that could not be submitted.                                             *)
ActiveInv == active = {c \in Calls : pc[c] \in ChildPlaces \/ child[c] = "built"}

(* The mark of a child is set from a skip on until the call consumes it,    *)
(* unless a skip that failed took it back.                                  *)
Asked(c) == asking[c] > 0 \/ c \in acknowledged

SkipInv ==
  \A c \in Calls :
    /\ Asked(c) \/ c \in skipped \cup withdrawn => child[c] # "none"
    /\ pc[c] \in ChildPlaces \cup {"leaving"} =>
         /\ Asked(c) /\ c \notin withdrawn => c \in skipped
         /\ c \in withdrawn => c \notin skipped
    /\ pc[c] \in {"settling", "returned"} /\ child[c] # "built" =>
         /\ c \notin skipped
         /\ pc[c] = "settling" =>
              /\ Asked(c) /\ c \notin withdrawn => outcome[c] = "skipped"
              /\ c \in withdrawn => outcome[c] # "skipped"
         /\ pc[c] = "returned" =>
              /\ Asked(c) /\ c \notin withdrawn => record[c] = "skipped"
              /\ c \in withdrawn => record[c] # "skipped"

CountInv == agentCount = Cardinality(Admitted)

IInv == /\ TypeOK
        /\ SlotConservation
        /\ CountInv
        /\ PlaceInv
        /\ ActiveInv
        /\ SkipInv
        /\ CacheCountsDoneCalls

(* The variable groups, the updates that only have a name, and the sets of *)
(* names are expanded in every proof.                                       *)
USE DEF ChildPlaces, callVars, syncVars, contextVars, childVars, controlVars, vars,
        Goto, Mark, Unlock, UnwindLock, UnwindSlot, skipVars, Counted, Cached,
        Places, Statuses, Outcomes

-----------------------------------------------------------------------------
(* Type correctness: the counters stay naturals because AcquireSlot looks   *)
(* at the semaphore before it takes from it and Admit at the cap.           *)

(* The semaphore starts full, the counters at zero. *)
LEMMA InitTypeOK == Init => TypeOK
<1> SUFFICES ASSUME Init PROVE TypeOK
  OBVIOUS
<1>1. /\ freeSlots \in Nat /\ agentCount \in 0 .. MaxAgents /\ spent \in Nat
      /\ asking \in [Calls -> 0 .. MaxSkips]
  BY LimitsAssumption DEF Init, LimitsAssumption
<1>2. /\ stopEvent \in BOOLEAN /\ paused \in BOOLEAN /\ late \in BOOLEAN
  BY Zenon DEF Init
<1>3. QED
  BY <1>1, <1>2 DEF Init, TypeOK

(* Adding a result to the cache keeps its type. *)
LEMMA PutTypeOK ==
  ASSUME current \in [Fingerprints -> Nat], NEW c \in Calls, Put(c)
  PROVE  current' \in [Fingerprints -> Nat]
BY CallsAssumption DEF CallsAssumption, Put

(* Every action keeps the types. *)
LEMMA NextTypeOK == TypeOK /\ [Next]_vars => TypeOK'
<1> SUFFICES ASSUME TypeOK, [Next]_vars PROVE TypeOK'
  OBVIOUS
<1> USE CallsAssumption, LimitsAssumption DEF TypeOK, CallsAssumption, LimitsAssumption
<1>1. ASSUME NEW c \in Calls, Enter(c) PROVE TypeOK'
  BY <1>1 DEF Enter, PassCheck
<1>2. ASSUME NEW c \in Calls, Halt(c) PROVE TypeOK'
  BY <1>2 DEF Halt
<1>3. ASSUME NEW c \in Calls, AcquireFrameLock(c) PROVE TypeOK'
  BY <1>3 DEF AcquireFrameLock
<1>4. ASSUME NEW c \in Calls, PassReserveCheck(c) PROVE TypeOK'
  BY <1>4 DEF PassReserveCheck, PassCheck
<1>5. ASSUME NEW c \in Calls, Admit(c) PROVE TypeOK'
  BY <1>5 DEF Admit, LimitsAllow
<1>6. ASSUME NEW c \in Calls, Refuse(c) PROVE TypeOK'
  BY <1>6 DEF Refuse
<1>7. ASSUME NEW c \in Calls, ServeFromCache(c) PROVE TypeOK'
  <2>1. previous' \in [Fingerprints -> Nat]
    BY <1>7 DEF ServeFromCache
  <2>2. current' \in [Fingerprints -> Nat]
    BY <1>7, PutTypeOK DEF ServeFromCache
  <2>3. QED
    BY <1>7, <2>1, <2>2 DEF ServeFromCache
<1>8. ASSUME NEW c \in Calls, StartRecord(c) PROVE TypeOK'
  BY <1>8 DEF StartRecord
<1>9. ASSUME NEW c \in Calls, PassFirstSlotCheck(c) PROVE TypeOK'
  BY <1>9 DEF PassFirstSlotCheck, PassCheck
<1>10. ASSUME NEW c \in Calls, AcquireSlot(c) PROVE TypeOK'
  BY <1>10 DEF AcquireSlot, SlotAvailable
<1>11. ASSUME NEW c \in Calls, PassSecondSlotCheck(c) PROVE TypeOK'
  BY <1>11 DEF PassSecondSlotCheck, PassCheck
<1>12. ASSUME NEW c \in Calls, LaunchFails(c) PROVE TypeOK'
  BY <1>12 DEF LaunchFails
<1>13. ASSUME NEW c \in Calls, Register(c) PROVE TypeOK'
  BY <1>13 DEF Register
<1>14. ASSUME NEW c \in Calls, Timeout(c) PROVE TypeOK'
  BY <1>14 DEF Timeout
<1>15. ASSUME NEW c \in Calls, Collect(c) PROVE TypeOK'
  BY <1>15 DEF Collect, Leave
<1>16. ASSUME NEW c \in Calls, LeaveGrace(c) PROVE TypeOK'
  BY <1>16 DEF LeaveGrace, Leave
<1>17. ASSUME NEW c \in Calls, Settle(c) PROVE TypeOK'
  <2>1. current' \in [Fingerprints -> Nat]
    BY <1>17, PutTypeOK DEF Settle
  <2>2. spent' \in Nat
    BY <1>17 DEF Settle
  <2>3. QED
    BY <1>17, <2>1, <2>2 DEF Settle
<1>18. ASSUME NEW c \in Calls, ChildReports(c) PROVE TypeOK'
  BY <1>18 DEF ChildReports
<1>19. ASSUME NEW c \in Calls, ChildReported(c) PROVE TypeOK'
  BY <1>19 DEF ChildReported
<1>20. ASSUME NEW c \in Calls, ChildExits(c) PROVE TypeOK'
  BY <1>20 DEF ChildExits
<1>21. ASSUME NEW c \in Calls, SkipChild(c) PROVE TypeOK'
  BY <1>21 DEF SkipChild
<1>22. ASSUME NEW c \in Calls, SkipInterrupts(c) PROVE TypeOK'
  BY <1>22 DEF SkipInterrupts
<1>23. ASSUME NEW c \in Calls, SkipFails(c) PROVE TypeOK'
  BY <1>23 DEF SkipFails
<1>24. CASE ControlStep
  BY <1>24 DEF ControlStep, Pause, Resume, Stop, DeadlinePasses
<1>25. CASE UNCHANGED vars
  BY <1>25
<1>26. ASSUME NEW c \in Calls, Submit(c) PROVE TypeOK'
  BY <1>26 DEF Submit
<1>27. ASSUME NEW c \in Calls, SubmitFails(c) PROVE TypeOK'
  BY <1>27 DEF SubmitFails
<1>28. ASSUME NEW c \in Calls, TimeoutRaises(c) PROVE TypeOK'
  BY <1>28 DEF TimeoutRaises, Leave
<1>29. ASSUME NEW c \in Calls, ConsumeSkip(c) PROVE TypeOK'
  BY <1>29 DEF ConsumeSkip, SkipWins
<1>q. QED
  BY <1>1, <1>2, <1>3, <1>4, <1>5, <1>6, <1>7, <1>8, <1>9, <1>10, <1>11, <1>12, <1>13,
     <1>14, <1>15, <1>16, <1>17, <1>18, <1>19, <1>20, <1>21, <1>22, <1>23, <1>24, <1>25, <1>26,
     <1>27, <1>28, <1>29
     DEF Next, CallStep, ChildStep, SkipStep

(* The agent count stays within the cap and no counter goes negative. *)
THEOREM TypeCorrect == Spec => []TypeOK
BY InitTypeOK, NextTypeOK, PTL DEF Spec

-----------------------------------------------------------------------------
(* Where a call is, what its record says and whether it has a child.        *)

(* No call has begun. *)
LEMMA InitPlaces == Init => PlaceInv /\ ActiveInv /\ SkipInv
BY DEF Init, PlaceInv, ActiveInv, SkipInv, Asked

(* Each action moves one call and brings its record along. *)
LEMMA NextPlaces ==
  TypeOK /\ PlaceInv /\ [Next]_vars => PlaceInv'
<1> SUFFICES ASSUME TypeOK, PlaceInv, [Next]_vars PROVE PlaceInv'
  OBVIOUS
<1> USE DEF TypeOK, PlaceInv
<1>1. ASSUME NEW c \in Calls, Enter(c) PROVE PlaceInv'
  BY <1>1 DEF Enter, PassCheck
<1>2. ASSUME NEW c \in Calls, Halt(c) PROVE PlaceInv'
  BY <1>2 DEF Halt
<1>3. ASSUME NEW c \in Calls, AcquireFrameLock(c) PROVE PlaceInv'
  BY <1>3 DEF AcquireFrameLock
<1>4. ASSUME NEW c \in Calls, PassReserveCheck(c) PROVE PlaceInv'
  BY <1>4 DEF PassReserveCheck, PassCheck
<1>5. ASSUME NEW c \in Calls, Admit(c) PROVE PlaceInv'
  BY <1>5 DEF Admit, LimitsAllow
<1>6. ASSUME NEW c \in Calls, Refuse(c) PROVE PlaceInv'
  BY <1>6 DEF Refuse
<1>7. ASSUME NEW c \in Calls, ServeFromCache(c) PROVE PlaceInv'
  BY <1>7 DEF ServeFromCache
<1>8. ASSUME NEW c \in Calls, StartRecord(c) PROVE PlaceInv'
  BY <1>8 DEF StartRecord
<1>9. ASSUME NEW c \in Calls, PassFirstSlotCheck(c) PROVE PlaceInv'
  BY <1>9 DEF PassFirstSlotCheck, PassCheck
<1>10. ASSUME NEW c \in Calls, AcquireSlot(c) PROVE PlaceInv'
  BY <1>10 DEF AcquireSlot, SlotAvailable
<1>11. ASSUME NEW c \in Calls, PassSecondSlotCheck(c) PROVE PlaceInv'
  BY <1>11 DEF PassSecondSlotCheck, PassCheck
<1>12. ASSUME NEW c \in Calls, LaunchFails(c) PROVE PlaceInv'
  BY <1>12 DEF LaunchFails
<1>13. ASSUME NEW c \in Calls, Register(c) PROVE PlaceInv'
  BY <1>13 DEF Register
<1>14. ASSUME NEW c \in Calls, Timeout(c) PROVE PlaceInv'
  BY <1>14 DEF Timeout
<1>15. ASSUME NEW c \in Calls, Collect(c) PROVE PlaceInv'
  BY <1>15 DEF Collect, Leave
<1>16. ASSUME NEW c \in Calls, LeaveGrace(c) PROVE PlaceInv'
  BY <1>16 DEF LeaveGrace, Leave
<1>17. ASSUME NEW c \in Calls, Settle(c) PROVE PlaceInv'
  BY <1>17 DEF Settle
<1>18. ASSUME NEW c \in Calls, ChildReports(c) PROVE PlaceInv'
  BY <1>18 DEF ChildReports
<1>19. ASSUME NEW c \in Calls, ChildReported(c) PROVE PlaceInv'
  BY <1>19 DEF ChildReported
<1>20. ASSUME NEW c \in Calls, ChildExits(c) PROVE PlaceInv'
  BY <1>20 DEF ChildExits
<1>21. ASSUME NEW c \in Calls, SkipChild(c) PROVE PlaceInv'
  BY <1>21 DEF SkipChild
<1>22. ASSUME NEW c \in Calls, SkipInterrupts(c) PROVE PlaceInv'
  BY <1>22 DEF SkipInterrupts
<1>23. ASSUME NEW c \in Calls, SkipFails(c) PROVE PlaceInv'
  BY <1>23 DEF SkipFails
<1>24. CASE ControlStep
  BY <1>24 DEF ControlStep, Pause, Resume, Stop, DeadlinePasses
<1>25. CASE UNCHANGED vars
  BY <1>25
<1>26. ASSUME NEW c \in Calls, Submit(c) PROVE PlaceInv'
  BY <1>26 DEF Submit
<1>27. ASSUME NEW c \in Calls, SubmitFails(c) PROVE PlaceInv'
  BY <1>27 DEF SubmitFails
<1>28. ASSUME NEW c \in Calls, TimeoutRaises(c) PROVE PlaceInv'
  BY <1>28 DEF TimeoutRaises, Leave
<1>29. ASSUME NEW c \in Calls, ConsumeSkip(c) PROVE PlaceInv'
  BY <1>29 DEF ConsumeSkip, SkipWins
<1>q. QED
  BY <1>1, <1>2, <1>3, <1>4, <1>5, <1>6, <1>7, <1>8, <1>9, <1>10, <1>11, <1>12, <1>13,
     <1>14, <1>15, <1>16, <1>17, <1>18, <1>19, <1>20, <1>21, <1>22, <1>23, <1>24, <1>25, <1>26,
     <1>27, <1>28, <1>29
     DEF Next, CallStep, ChildStep, SkipStep

(* Register and Leave keep the registry in step with the places. *)
LEMMA NextActive ==
  TypeOK /\ PlaceInv /\ ActiveInv /\ [Next]_vars => ActiveInv'
<1> SUFFICES ASSUME TypeOK, PlaceInv, ActiveInv, [Next]_vars PROVE ActiveInv'
  OBVIOUS
<1> USE DEF TypeOK, PlaceInv, ActiveInv
<1>1. ASSUME NEW c \in Calls, Enter(c) PROVE ActiveInv'
  BY <1>1 DEF Enter, PassCheck
<1>2. ASSUME NEW c \in Calls, Halt(c) PROVE ActiveInv'
  BY <1>2 DEF Halt
<1>3. ASSUME NEW c \in Calls, AcquireFrameLock(c) PROVE ActiveInv'
  BY <1>3 DEF AcquireFrameLock
<1>4. ASSUME NEW c \in Calls, PassReserveCheck(c) PROVE ActiveInv'
  BY <1>4 DEF PassReserveCheck, PassCheck
<1>5. ASSUME NEW c \in Calls, Admit(c) PROVE ActiveInv'
  BY <1>5 DEF Admit, LimitsAllow
<1>6. ASSUME NEW c \in Calls, Refuse(c) PROVE ActiveInv'
  BY <1>6 DEF Refuse
<1>7. ASSUME NEW c \in Calls, ServeFromCache(c) PROVE ActiveInv'
  BY <1>7 DEF ServeFromCache
<1>8. ASSUME NEW c \in Calls, StartRecord(c) PROVE ActiveInv'
  BY <1>8 DEF StartRecord
<1>9. ASSUME NEW c \in Calls, PassFirstSlotCheck(c) PROVE ActiveInv'
  BY <1>9 DEF PassFirstSlotCheck, PassCheck
<1>10. ASSUME NEW c \in Calls, AcquireSlot(c) PROVE ActiveInv'
  BY <1>10 DEF AcquireSlot, SlotAvailable
<1>11. ASSUME NEW c \in Calls, PassSecondSlotCheck(c) PROVE ActiveInv'
  BY <1>11 DEF PassSecondSlotCheck, PassCheck
<1>12. ASSUME NEW c \in Calls, LaunchFails(c) PROVE ActiveInv'
  BY <1>12 DEF LaunchFails
<1>13. ASSUME NEW c \in Calls, Register(c) PROVE ActiveInv'
  BY <1>13 DEF Register
<1>14. ASSUME NEW c \in Calls, Timeout(c) PROVE ActiveInv'
  BY <1>14 DEF Timeout
<1>15. ASSUME NEW c \in Calls, Collect(c) PROVE ActiveInv'
  BY <1>15 DEF Collect, Leave
<1>16. ASSUME NEW c \in Calls, LeaveGrace(c) PROVE ActiveInv'
  BY <1>16 DEF LeaveGrace, Leave
<1>17. ASSUME NEW c \in Calls, Settle(c) PROVE ActiveInv'
  BY <1>17 DEF Settle
<1>18. ASSUME NEW c \in Calls, ChildReports(c) PROVE ActiveInv'
  BY <1>18 DEF ChildReports
<1>19. ASSUME NEW c \in Calls, ChildReported(c) PROVE ActiveInv'
  BY <1>19 DEF ChildReported
<1>20. ASSUME NEW c \in Calls, ChildExits(c) PROVE ActiveInv'
  BY <1>20 DEF ChildExits
<1>21. ASSUME NEW c \in Calls, SkipChild(c) PROVE ActiveInv'
  BY <1>21 DEF SkipChild
<1>22. ASSUME NEW c \in Calls, SkipInterrupts(c) PROVE ActiveInv'
  BY <1>22 DEF SkipInterrupts
<1>23. ASSUME NEW c \in Calls, SkipFails(c) PROVE ActiveInv'
  BY <1>23 DEF SkipFails
<1>24. CASE ControlStep
  BY <1>24 DEF ControlStep, Pause, Resume, Stop, DeadlinePasses
<1>25. CASE UNCHANGED vars
  BY <1>25
<1>26. ASSUME NEW c \in Calls, Submit(c) PROVE ActiveInv'
  BY <1>26 DEF Submit
<1>27. ASSUME NEW c \in Calls, SubmitFails(c) PROVE ActiveInv'
  BY <1>27 DEF SubmitFails
<1>28. ASSUME NEW c \in Calls, TimeoutRaises(c) PROVE ActiveInv'
  BY <1>28 DEF TimeoutRaises, Leave
<1>29. ASSUME NEW c \in Calls, ConsumeSkip(c) PROVE ActiveInv'
  BY <1>29 DEF ConsumeSkip, SkipWins
<1>q. QED
  BY <1>1, <1>2, <1>3, <1>4, <1>5, <1>6, <1>7, <1>8, <1>9, <1>10, <1>11, <1>12, <1>13,
     <1>14, <1>15, <1>16, <1>17, <1>18, <1>19, <1>20, <1>21, <1>22, <1>23, <1>24, <1>25, <1>26,
     <1>27, <1>28, <1>29
     DEF Next, CallStep, ChildStep, SkipStep

(* Leave consumes the mark in the step that takes the call out of the       *)
(* registry, so no skip can be acknowledged and forgotten.                  *)
LEMMA NextSkip ==
  TypeOK /\ PlaceInv /\ ActiveInv /\ SkipInv /\ [Next]_vars => SkipInv'
<1> SUFFICES ASSUME TypeOK, PlaceInv, ActiveInv, SkipInv, [Next]_vars PROVE SkipInv'
  OBVIOUS
<1> USE DEF TypeOK, PlaceInv, ActiveInv, SkipInv, Asked
<1>1. ASSUME NEW c \in Calls, Enter(c) PROVE SkipInv'
  BY <1>1 DEF Enter, PassCheck
<1>2. ASSUME NEW c \in Calls, Halt(c) PROVE SkipInv'
  BY <1>2 DEF Halt
<1>3. ASSUME NEW c \in Calls, AcquireFrameLock(c) PROVE SkipInv'
  BY <1>3 DEF AcquireFrameLock
<1>4. ASSUME NEW c \in Calls, PassReserveCheck(c) PROVE SkipInv'
  BY <1>4 DEF PassReserveCheck, PassCheck
<1>5. ASSUME NEW c \in Calls, Admit(c) PROVE SkipInv'
  BY <1>5 DEF Admit, LimitsAllow
<1>6. ASSUME NEW c \in Calls, Refuse(c) PROVE SkipInv'
  BY <1>6 DEF Refuse
<1>7. ASSUME NEW c \in Calls, ServeFromCache(c) PROVE SkipInv'
  BY <1>7 DEF ServeFromCache
<1>8. ASSUME NEW c \in Calls, StartRecord(c) PROVE SkipInv'
  BY <1>8 DEF StartRecord
<1>9. ASSUME NEW c \in Calls, PassFirstSlotCheck(c) PROVE SkipInv'
  BY <1>9 DEF PassFirstSlotCheck, PassCheck
<1>10. ASSUME NEW c \in Calls, AcquireSlot(c) PROVE SkipInv'
  BY <1>10 DEF AcquireSlot, SlotAvailable
<1>11. ASSUME NEW c \in Calls, PassSecondSlotCheck(c) PROVE SkipInv'
  BY <1>11 DEF PassSecondSlotCheck, PassCheck
<1>12. ASSUME NEW c \in Calls, LaunchFails(c) PROVE SkipInv'
  BY <1>12 DEF LaunchFails
<1>13. ASSUME NEW c \in Calls, Register(c) PROVE SkipInv'
  BY <1>13 DEF Register
<1>14. ASSUME NEW c \in Calls, Timeout(c) PROVE SkipInv'
  BY <1>14 DEF Timeout
<1>15. ASSUME NEW c \in Calls, Collect(c) PROVE SkipInv'
  BY <1>15 DEF Collect, Leave
<1>16. ASSUME NEW c \in Calls, LeaveGrace(c) PROVE SkipInv'
  BY <1>16 DEF LeaveGrace, Leave
<1>17. ASSUME NEW c \in Calls, Settle(c) PROVE SkipInv'
  BY <1>17 DEF Settle
<1>18. ASSUME NEW c \in Calls, ChildReports(c) PROVE SkipInv'
  BY <1>18 DEF ChildReports
<1>19. ASSUME NEW c \in Calls, ChildReported(c) PROVE SkipInv'
  BY <1>19 DEF ChildReported
<1>20. ASSUME NEW c \in Calls, ChildExits(c) PROVE SkipInv'
  BY <1>20 DEF ChildExits
<1>21. ASSUME NEW c \in Calls, SkipChild(c) PROVE SkipInv'
  BY <1>21 DEF SkipChild
<1>22. ASSUME NEW c \in Calls, SkipInterrupts(c) PROVE SkipInv'
  BY <1>22 DEF SkipInterrupts
<1>23. ASSUME NEW c \in Calls, SkipFails(c) PROVE SkipInv'
  BY <1>23 DEF SkipFails
<1>24. CASE ControlStep
  BY <1>24 DEF ControlStep, Pause, Resume, Stop, DeadlinePasses
<1>25. CASE UNCHANGED vars
  BY <1>25
<1>26. ASSUME NEW c \in Calls, Submit(c) PROVE SkipInv'
  BY <1>26 DEF Submit
<1>27. ASSUME NEW c \in Calls, SubmitFails(c) PROVE SkipInv'
  BY <1>27 DEF SubmitFails
<1>28. ASSUME NEW c \in Calls, TimeoutRaises(c) PROVE SkipInv'
  BY <1>28 DEF TimeoutRaises, Leave
<1>29. ASSUME NEW c \in Calls, ConsumeSkip(c) PROVE SkipInv'
  BY <1>29 DEF ConsumeSkip, SkipWins
<1>q. QED
  BY <1>1, <1>2, <1>3, <1>4, <1>5, <1>6, <1>7, <1>8, <1>9, <1>10, <1>11, <1>12, <1>13,
     <1>14, <1>15, <1>16, <1>17, <1>18, <1>19, <1>20, <1>21, <1>22, <1>23, <1>24, <1>25, <1>26,
     <1>27, <1>28, <1>29
     DEF Next, CallStep, ChildStep, SkipStep

-----------------------------------------------------------------------------
(* The semaphore and the calls inside it.                                   *)

(* There are finitely many calls, so finitely many of either kind. *)
LEMMA HoldersFinite ==
  /\ IsFiniteSet(SlotHolders) /\ Cardinality(SlotHolders) \in Nat
  /\ IsFiniteSet(Admitted) /\ Cardinality(Admitted) \in Nat
<1>1. SlotHolders \subseteq Calls /\ Admitted \subseteq Calls
  BY DEF SlotHolders, Admitted
<1>2. QED
  BY <1>1, CallsAssumption, FS_Subset, FS_CardinalityType DEF CallsAssumption

(* A call that moves within or outside the slot takes none with it; one     *)
(* that comes in takes one, one that leaves gives one back.                 *)
LEMMA SlotMove ==
  ASSUME TypeOK, SlotConservation, NEW c \in Calls, NEW place, Goto(c, place),
         \/ /\ place \in SlotPlaces <=> pc[c] \in SlotPlaces
            /\ freeSlots' = freeSlots
         \/ /\ place \in SlotPlaces /\ pc[c] \notin SlotPlaces
            /\ freeSlots' = freeSlots - 1
         \/ /\ place \notin SlotPlaces /\ pc[c] \in SlotPlaces
            /\ freeSlots' = freeSlots + 1
  PROVE  SlotConservation'
<1>1. /\ place \in SlotPlaces => SlotHolders' = SlotHolders \cup {c}
      /\ place \notin SlotPlaces => SlotHolders' = SlotHolders \ {c}
  BY DEF TypeOK, SlotHolders
<1>2. c \in SlotHolders <=> pc[c] \in SlotPlaces
  BY DEF SlotHolders
<1>3. /\ Cardinality(SlotHolders \cup {c})
           = IF c \in SlotHolders THEN Cardinality(SlotHolders) ELSE Cardinality(SlotHolders) + 1
      /\ Cardinality(SlotHolders \ {c})
           = IF c \in SlotHolders THEN Cardinality(SlotHolders) - 1 ELSE Cardinality(SlotHolders)
  BY HoldersFinite, FS_AddElement, FS_RemoveElement
<1>4. freeSlots \in Nat /\ Cardinality(SlotHolders) \in Nat /\ Slots \in Nat
  BY HoldersFinite, LimitsAssumption DEF TypeOK, LimitsAssumption
<1> DEFINE n == Cardinality(SlotHolders)
<1>5. Cardinality(SlotHolders)' =
         IF place \in SlotPlaces THEN (IF pc[c] \in SlotPlaces THEN n ELSE n + 1)
                                 ELSE (IF pc[c] \in SlotPlaces THEN n - 1 ELSE n)
  BY <1>1, <1>2, <1>3
<1>6. freeSlots + n = Slots /\ n \in Nat
  BY <1>4 DEF SlotConservation
<1> HIDE DEF n
<1>7. freeSlots' + Cardinality(SlotHolders)' = Slots
  BY <1>4, <1>5, <1>6
<1>8. QED
  BY <1>7 DEF SlotConservation

(* No call holds a slot or was admitted. *)
LEMMA InitSlots == Init => SlotConservation /\ CountInv
<1> SUFFICES ASSUME Init PROVE SlotConservation /\ CountInv
  OBVIOUS
<1>1. SlotHolders = {} /\ Admitted = {}
  BY DEF Init, SlotHolders, SlotPlaces, Admitted
<1>2. Cardinality({}) = 0
  BY FS_EmptySet
<1>3. QED
  BY <1>1, <1>2, LimitsAssumption DEF Init, SlotConservation, CountInv, LimitsAssumption

(* Every exit of agent_slot() returns the slot. *)
LEMMA NextSlots ==
  TypeOK /\ SlotConservation /\ [Next]_vars => SlotConservation'
<1> SUFFICES ASSUME TypeOK, SlotConservation, [Next]_vars PROVE SlotConservation'
  OBVIOUS
<1>1. ASSUME NEW c \in Calls, Enter(c) PROVE SlotConservation'
  <2>1. Goto(c, "entered")
    BY <1>1 DEF Enter, PassCheck
  <2>2. \/ ("entered" \in SlotPlaces <=> pc[c] \in SlotPlaces) /\ freeSlots' = freeSlots
        \/ "entered" \in SlotPlaces /\ pc[c] \notin SlotPlaces /\ freeSlots' = freeSlots - 1
        \/ "entered" \notin SlotPlaces /\ pc[c] \in SlotPlaces /\ freeSlots' = freeSlots + 1
    BY <1>1 DEF Enter, PassCheck, SlotPlaces, TypeOK
  <2>3. QED
    BY <2>1, <2>2, SlotMove
<1>2. ASSUME NEW c \in Calls, Halt(c) PROVE SlotConservation'
  <2>1. Goto(c, "halted")
    BY <1>2 DEF Halt
  <2>2. \/ ("halted" \in SlotPlaces <=> pc[c] \in SlotPlaces) /\ freeSlots' = freeSlots
        \/ "halted" \in SlotPlaces /\ pc[c] \notin SlotPlaces /\ freeSlots' = freeSlots - 1
        \/ "halted" \notin SlotPlaces /\ pc[c] \in SlotPlaces /\ freeSlots' = freeSlots + 1
    BY <1>2 DEF Halt, SlotPlaces, TypeOK
  <2>3. QED
    BY <2>1, <2>2, SlotMove
<1>3. ASSUME NEW c \in Calls, AcquireFrameLock(c) PROVE SlotConservation'
  <2>1. Goto(c, "reserving")
    BY <1>3 DEF AcquireFrameLock
  <2>2. \/ ("reserving" \in SlotPlaces <=> pc[c] \in SlotPlaces) /\ freeSlots' = freeSlots
        \/ "reserving" \in SlotPlaces /\ pc[c] \notin SlotPlaces /\ freeSlots' = freeSlots - 1
        \/ "reserving" \notin SlotPlaces /\ pc[c] \in SlotPlaces /\ freeSlots' = freeSlots + 1
    BY <1>3 DEF AcquireFrameLock, SlotPlaces, TypeOK
  <2>3. QED
    BY <2>1, <2>2, SlotMove
<1>4. ASSUME NEW c \in Calls, PassReserveCheck(c) PROVE SlotConservation'
  <2>1. Goto(c, "admitting")
    BY <1>4 DEF PassReserveCheck, PassCheck
  <2>2. \/ ("admitting" \in SlotPlaces <=> pc[c] \in SlotPlaces) /\ freeSlots' = freeSlots
        \/ "admitting" \in SlotPlaces /\ pc[c] \notin SlotPlaces /\ freeSlots' = freeSlots - 1
        \/ "admitting" \notin SlotPlaces /\ pc[c] \in SlotPlaces /\ freeSlots' = freeSlots + 1
    BY <1>4 DEF PassReserveCheck, PassCheck, SlotPlaces, TypeOK
  <2>3. QED
    BY <2>1, <2>2, SlotMove
<1>5. ASSUME NEW c \in Calls, Admit(c) PROVE SlotConservation'
  <2>1. Goto(c, "lookup")
    BY <1>5 DEF Admit, LimitsAllow
  <2>2. \/ ("lookup" \in SlotPlaces <=> pc[c] \in SlotPlaces) /\ freeSlots' = freeSlots
        \/ "lookup" \in SlotPlaces /\ pc[c] \notin SlotPlaces /\ freeSlots' = freeSlots - 1
        \/ "lookup" \notin SlotPlaces /\ pc[c] \in SlotPlaces /\ freeSlots' = freeSlots + 1
    BY <1>5 DEF Admit, LimitsAllow, SlotPlaces, TypeOK
  <2>3. QED
    BY <2>1, <2>2, SlotMove
<1>6. ASSUME NEW c \in Calls, Refuse(c) PROVE SlotConservation'
  <2>1. Goto(c, "halted")
    BY <1>6 DEF Refuse
  <2>2. \/ ("halted" \in SlotPlaces <=> pc[c] \in SlotPlaces) /\ freeSlots' = freeSlots
        \/ "halted" \in SlotPlaces /\ pc[c] \notin SlotPlaces /\ freeSlots' = freeSlots - 1
        \/ "halted" \notin SlotPlaces /\ pc[c] \in SlotPlaces /\ freeSlots' = freeSlots + 1
    BY <1>6 DEF Refuse, SlotPlaces, TypeOK
  <2>3. QED
    BY <2>1, <2>2, SlotMove
<1>7. ASSUME NEW c \in Calls, ServeFromCache(c) PROVE SlotConservation'
  <2>1. Goto(c, "returned")
    BY <1>7 DEF ServeFromCache
  <2>2. \/ ("returned" \in SlotPlaces <=> pc[c] \in SlotPlaces) /\ freeSlots' = freeSlots
        \/ "returned" \in SlotPlaces /\ pc[c] \notin SlotPlaces /\ freeSlots' = freeSlots - 1
        \/ "returned" \notin SlotPlaces /\ pc[c] \in SlotPlaces /\ freeSlots' = freeSlots + 1
    BY <1>7 DEF ServeFromCache, SlotPlaces, TypeOK
  <2>3. QED
    BY <2>1, <2>2, SlotMove
<1>8. ASSUME NEW c \in Calls, StartRecord(c) PROVE SlotConservation'
  <2>1. Goto(c, "queued")
    BY <1>8 DEF StartRecord
  <2>2. \/ ("queued" \in SlotPlaces <=> pc[c] \in SlotPlaces) /\ freeSlots' = freeSlots
        \/ "queued" \in SlotPlaces /\ pc[c] \notin SlotPlaces /\ freeSlots' = freeSlots - 1
        \/ "queued" \notin SlotPlaces /\ pc[c] \in SlotPlaces /\ freeSlots' = freeSlots + 1
    BY <1>8 DEF StartRecord, SlotPlaces, TypeOK
  <2>3. QED
    BY <2>1, <2>2, SlotMove
<1>9. ASSUME NEW c \in Calls, PassFirstSlotCheck(c) PROVE SlotConservation'
  <2>1. Goto(c, "acquiring")
    BY <1>9 DEF PassFirstSlotCheck, PassCheck
  <2>2. \/ ("acquiring" \in SlotPlaces <=> pc[c] \in SlotPlaces) /\ freeSlots' = freeSlots
        \/ "acquiring" \in SlotPlaces /\ pc[c] \notin SlotPlaces /\ freeSlots' = freeSlots - 1
        \/ "acquiring" \notin SlotPlaces /\ pc[c] \in SlotPlaces /\ freeSlots' = freeSlots + 1
    BY <1>9 DEF PassFirstSlotCheck, PassCheck, SlotPlaces, TypeOK
  <2>3. QED
    BY <2>1, <2>2, SlotMove
<1>10. ASSUME NEW c \in Calls, AcquireSlot(c) PROVE SlotConservation'
  <2>1. Goto(c, "slotted")
    BY <1>10 DEF AcquireSlot, SlotAvailable
  <2>2. \/ ("slotted" \in SlotPlaces <=> pc[c] \in SlotPlaces) /\ freeSlots' = freeSlots
        \/ "slotted" \in SlotPlaces /\ pc[c] \notin SlotPlaces /\ freeSlots' = freeSlots - 1
        \/ "slotted" \notin SlotPlaces /\ pc[c] \in SlotPlaces /\ freeSlots' = freeSlots + 1
    BY <1>10 DEF AcquireSlot, SlotAvailable, SlotPlaces, TypeOK
  <2>3. QED
    BY <2>1, <2>2, SlotMove
<1>11. ASSUME NEW c \in Calls, PassSecondSlotCheck(c) PROVE SlotConservation'
  <2>1. Goto(c, "launching")
    BY <1>11 DEF PassSecondSlotCheck, PassCheck
  <2>2. \/ ("launching" \in SlotPlaces <=> pc[c] \in SlotPlaces) /\ freeSlots' = freeSlots
        \/ "launching" \in SlotPlaces /\ pc[c] \notin SlotPlaces /\ freeSlots' = freeSlots - 1
        \/ "launching" \notin SlotPlaces /\ pc[c] \in SlotPlaces /\ freeSlots' = freeSlots + 1
    BY <1>11 DEF PassSecondSlotCheck, PassCheck, SlotPlaces, TypeOK
  <2>3. QED
    BY <2>1, <2>2, SlotMove
<1>12. ASSUME NEW c \in Calls, LaunchFails(c) PROVE SlotConservation'
  <2>1. Goto(c, "settling")
    BY <1>12 DEF LaunchFails
  <2>2. \/ ("settling" \in SlotPlaces <=> pc[c] \in SlotPlaces) /\ freeSlots' = freeSlots
        \/ "settling" \in SlotPlaces /\ pc[c] \notin SlotPlaces /\ freeSlots' = freeSlots - 1
        \/ "settling" \notin SlotPlaces /\ pc[c] \in SlotPlaces /\ freeSlots' = freeSlots + 1
    BY <1>12 DEF LaunchFails, SlotPlaces, TypeOK
  <2>3. QED
    BY <2>1, <2>2, SlotMove
<1>13. ASSUME NEW c \in Calls, Register(c) PROVE SlotConservation'
  <2>1. Goto(c, "registered")
    BY <1>13 DEF Register
  <2>2. \/ ("registered" \in SlotPlaces <=> pc[c] \in SlotPlaces) /\ freeSlots' = freeSlots
        \/ "registered" \in SlotPlaces /\ pc[c] \notin SlotPlaces /\ freeSlots' = freeSlots - 1
        \/ "registered" \notin SlotPlaces /\ pc[c] \in SlotPlaces /\ freeSlots' = freeSlots + 1
    BY <1>13 DEF Register, SlotPlaces, TypeOK
  <2>3. QED
    BY <2>1, <2>2, SlotMove
<1>14. ASSUME NEW c \in Calls, Timeout(c) PROVE SlotConservation'
  <2>1. Goto(c, "grace")
    BY <1>14 DEF Timeout
  <2>2. \/ ("grace" \in SlotPlaces <=> pc[c] \in SlotPlaces) /\ freeSlots' = freeSlots
        \/ "grace" \in SlotPlaces /\ pc[c] \notin SlotPlaces /\ freeSlots' = freeSlots - 1
        \/ "grace" \notin SlotPlaces /\ pc[c] \in SlotPlaces /\ freeSlots' = freeSlots + 1
    BY <1>14 DEF Timeout, SlotPlaces, TypeOK
  <2>3. QED
    BY <2>1, <2>2, SlotMove
<1>15. ASSUME NEW c \in Calls, Collect(c) PROVE SlotConservation'
  <2>1. Goto(c, "leaving")
    BY <1>15 DEF Collect, Leave
  <2>2. \/ ("leaving" \in SlotPlaces <=> pc[c] \in SlotPlaces) /\ freeSlots' = freeSlots
        \/ "leaving" \in SlotPlaces /\ pc[c] \notin SlotPlaces /\ freeSlots' = freeSlots - 1
        \/ "leaving" \notin SlotPlaces /\ pc[c] \in SlotPlaces /\ freeSlots' = freeSlots + 1
    BY <1>15 DEF Collect, Leave, SlotPlaces, TypeOK
  <2>3. QED
    BY <2>1, <2>2, SlotMove
<1>16. ASSUME NEW c \in Calls, LeaveGrace(c) PROVE SlotConservation'
  <2>1. Goto(c, "leaving")
    BY <1>16 DEF LeaveGrace, Leave
  <2>2. \/ ("leaving" \in SlotPlaces <=> pc[c] \in SlotPlaces) /\ freeSlots' = freeSlots
        \/ "leaving" \in SlotPlaces /\ pc[c] \notin SlotPlaces /\ freeSlots' = freeSlots - 1
        \/ "leaving" \notin SlotPlaces /\ pc[c] \in SlotPlaces /\ freeSlots' = freeSlots + 1
    BY <1>16 DEF LeaveGrace, Leave, SlotPlaces, TypeOK
  <2>3. QED
    BY <2>1, <2>2, SlotMove
<1>17. ASSUME NEW c \in Calls, Settle(c) PROVE SlotConservation'
  <2>1. Goto(c, "returned")
    BY <1>17 DEF Settle
  <2>2. \/ ("returned" \in SlotPlaces <=> pc[c] \in SlotPlaces) /\ freeSlots' = freeSlots
        \/ "returned" \in SlotPlaces /\ pc[c] \notin SlotPlaces /\ freeSlots' = freeSlots - 1
        \/ "returned" \notin SlotPlaces /\ pc[c] \in SlotPlaces /\ freeSlots' = freeSlots + 1
    BY <1>17 DEF Settle, SlotPlaces, TypeOK
  <2>3. QED
    BY <2>1, <2>2, SlotMove
<1>18. ASSUME NEW c \in Calls, ChildReports(c) PROVE SlotConservation'
  BY <1>18 DEF ChildReports, SlotConservation, SlotHolders
<1>19. ASSUME NEW c \in Calls, ChildReported(c) PROVE SlotConservation'
  BY <1>19 DEF ChildReported, SlotConservation, SlotHolders
<1>20. ASSUME NEW c \in Calls, ChildExits(c) PROVE SlotConservation'
  BY <1>20 DEF ChildExits, SlotConservation, SlotHolders
<1>21. ASSUME NEW c \in Calls, SkipChild(c) PROVE SlotConservation'
  BY <1>21 DEF SkipChild, SlotConservation, SlotHolders
<1>22. ASSUME NEW c \in Calls, SkipInterrupts(c) PROVE SlotConservation'
  BY <1>22 DEF SkipInterrupts, SlotConservation, SlotHolders
<1>23. ASSUME NEW c \in Calls, SkipFails(c) PROVE SlotConservation'
  BY <1>23 DEF SkipFails, SlotConservation, SlotHolders
<1>24. CASE ControlStep
  BY <1>24 DEF ControlStep, Pause, Resume, Stop, DeadlinePasses,
                SlotConservation, SlotHolders
<1>25. CASE UNCHANGED vars
  BY <1>25 DEF SlotConservation, SlotHolders
<1>26. ASSUME NEW c \in Calls, Submit(c) PROVE SlotConservation'
  <2>1. Goto(c, "active")
    BY <1>26 DEF Submit
  <2>2. \/ ("active" \in SlotPlaces <=> pc[c] \in SlotPlaces) /\ freeSlots' = freeSlots
        \/ "active" \notin SlotPlaces /\ pc[c] \in SlotPlaces /\ freeSlots' = freeSlots + 1
    BY <1>26 DEF Submit, SlotPlaces, TypeOK
  <2>3. QED
    BY <2>1, <2>2, SlotMove
<1>27. ASSUME NEW c \in Calls, SubmitFails(c) PROVE SlotConservation'
  <2>1. Goto(c, "leaving")
    BY <1>27 DEF SubmitFails
  <2>2. \/ ("leaving" \in SlotPlaces <=> pc[c] \in SlotPlaces) /\ freeSlots' = freeSlots
        \/ "leaving" \notin SlotPlaces /\ pc[c] \in SlotPlaces /\ freeSlots' = freeSlots + 1
    BY <1>27 DEF SubmitFails, SlotPlaces, TypeOK
  <2>3. QED
    BY <2>1, <2>2, SlotMove
<1>28. ASSUME NEW c \in Calls, TimeoutRaises(c) PROVE SlotConservation'
  <2>1. Goto(c, "leaving")
    BY <1>28 DEF TimeoutRaises, Leave
  <2>2. \/ ("leaving" \in SlotPlaces <=> pc[c] \in SlotPlaces) /\ freeSlots' = freeSlots
        \/ "leaving" \notin SlotPlaces /\ pc[c] \in SlotPlaces /\ freeSlots' = freeSlots + 1
    BY <1>28 DEF TimeoutRaises, Leave, SlotPlaces, TypeOK
  <2>3. QED
    BY <2>1, <2>2, SlotMove
<1>29. ASSUME NEW c \in Calls, ConsumeSkip(c) PROVE SlotConservation'
  <2>1. Goto(c, "settling")
    BY <1>29 DEF ConsumeSkip, SkipWins
  <2>2. \/ ("settling" \in SlotPlaces <=> pc[c] \in SlotPlaces) /\ freeSlots' = freeSlots
        \/ "settling" \notin SlotPlaces /\ pc[c] \in SlotPlaces /\ freeSlots' = freeSlots + 1
    BY <1>29 DEF ConsumeSkip, SkipWins, SlotPlaces, TypeOK
  <2>3. QED
    BY <2>1, <2>2, SlotMove
<1>q. QED
  BY <1>1, <1>2, <1>3, <1>4, <1>5, <1>6, <1>7, <1>8, <1>9, <1>10, <1>11, <1>12, <1>13,
     <1>14, <1>15, <1>16, <1>17, <1>18, <1>19, <1>20, <1>21, <1>22, <1>23, <1>24, <1>25, <1>26,
     <1>27, <1>28, <1>29
     DEF Next, CallStep, ChildStep, SkipStep

(* The cap counts the records: Admit adds one of each. *)
LEMMA NextCount ==
  TypeOK /\ PlaceInv /\ CountInv /\ [Next]_vars => CountInv'
<1> SUFFICES ASSUME TypeOK, PlaceInv, CountInv, [Next]_vars PROVE CountInv'
  OBVIOUS
<1>1. ASSUME NEW c \in Calls, Enter(c) PROVE CountInv'
  BY <1>1 DEF Enter, PassCheck, CountInv, Admitted
<1>2. ASSUME NEW c \in Calls, Halt(c) PROVE CountInv'
  BY <1>2 DEF Halt, CountInv, Admitted
<1>3. ASSUME NEW c \in Calls, AcquireFrameLock(c) PROVE CountInv'
  BY <1>3 DEF AcquireFrameLock, CountInv, Admitted
<1>4. ASSUME NEW c \in Calls, PassReserveCheck(c) PROVE CountInv'
  BY <1>4 DEF PassReserveCheck, PassCheck, CountInv, Admitted
<1>5. ASSUME NEW c \in Calls, Admit(c) PROVE CountInv'
  <2>1. Admitted' = Admitted \cup {c} /\ c \notin Admitted
    BY <1>5 DEF Admit, LimitsAllow, Admitted, TypeOK, PlaceInv
  <2>2. Cardinality(Admitted \cup {c}) = Cardinality(Admitted) + 1
    BY <2>1, HoldersFinite, FS_AddElement
  <2>3. Cardinality(Admitted)' = Cardinality(Admitted) + 1
    BY <2>1, <2>2
  <2>4. agentCount' = agentCount + 1
    BY <1>5 DEF Admit, LimitsAllow
  <2>5. QED
    BY <2>3, <2>4 DEF CountInv
<1>6. ASSUME NEW c \in Calls, Refuse(c) PROVE CountInv'
  BY <1>6 DEF Refuse, CountInv, Admitted
<1>7. ASSUME NEW c \in Calls, ServeFromCache(c) PROVE CountInv'
  <2>1. Admitted' = Admitted
    BY <1>7 DEF ServeFromCache, Admitted, TypeOK, PlaceInv
  <2>2. QED
    BY <1>7, <2>1 DEF ServeFromCache, CountInv
<1>8. ASSUME NEW c \in Calls, StartRecord(c) PROVE CountInv'
  <2>1. Admitted' = Admitted
    BY <1>8 DEF StartRecord, Admitted, TypeOK, PlaceInv
  <2>2. QED
    BY <1>8, <2>1 DEF StartRecord, CountInv
<1>9. ASSUME NEW c \in Calls, PassFirstSlotCheck(c) PROVE CountInv'
  BY <1>9 DEF PassFirstSlotCheck, PassCheck, CountInv, Admitted
<1>10. ASSUME NEW c \in Calls, AcquireSlot(c) PROVE CountInv'
  BY <1>10 DEF AcquireSlot, SlotAvailable, CountInv, Admitted
<1>11. ASSUME NEW c \in Calls, PassSecondSlotCheck(c) PROVE CountInv'
  BY <1>11 DEF PassSecondSlotCheck, PassCheck, CountInv, Admitted
<1>12. ASSUME NEW c \in Calls, LaunchFails(c) PROVE CountInv'
  BY <1>12 DEF LaunchFails, CountInv, Admitted
<1>13. ASSUME NEW c \in Calls, Register(c) PROVE CountInv'
  BY <1>13 DEF Register, CountInv, Admitted
<1>14. ASSUME NEW c \in Calls, Timeout(c) PROVE CountInv'
  BY <1>14 DEF Timeout, CountInv, Admitted
<1>15. ASSUME NEW c \in Calls, Collect(c) PROVE CountInv'
  BY <1>15 DEF Collect, Leave, CountInv, Admitted
<1>16. ASSUME NEW c \in Calls, LeaveGrace(c) PROVE CountInv'
  BY <1>16 DEF LeaveGrace, Leave, CountInv, Admitted
<1>17. ASSUME NEW c \in Calls, Settle(c) PROVE CountInv'
  <2>1. Admitted' = Admitted
    BY <1>17 DEF Settle, Admitted, TypeOK, PlaceInv
  <2>2. QED
    BY <1>17, <2>1 DEF Settle, CountInv
<1>18. ASSUME NEW c \in Calls, ChildReports(c) PROVE CountInv'
  BY <1>18 DEF ChildReports, CountInv, Admitted
<1>19. ASSUME NEW c \in Calls, ChildReported(c) PROVE CountInv'
  BY <1>19 DEF ChildReported, CountInv, Admitted
<1>20. ASSUME NEW c \in Calls, ChildExits(c) PROVE CountInv'
  BY <1>20 DEF ChildExits, CountInv, Admitted
<1>21. ASSUME NEW c \in Calls, SkipChild(c) PROVE CountInv'
  BY <1>21 DEF SkipChild, CountInv, Admitted
<1>22. ASSUME NEW c \in Calls, SkipInterrupts(c) PROVE CountInv'
  BY <1>22 DEF SkipInterrupts, CountInv, Admitted
<1>23. ASSUME NEW c \in Calls, SkipFails(c) PROVE CountInv'
  BY <1>23 DEF SkipFails, CountInv, Admitted
<1>24. CASE ControlStep
  BY <1>24 DEF ControlStep, Pause, Resume, Stop, DeadlinePasses, CountInv, Admitted
<1>25. CASE UNCHANGED vars
  BY <1>25 DEF CountInv, Admitted
<1>26. ASSUME NEW c \in Calls, Submit(c) PROVE CountInv'
  BY <1>26 DEF Submit, CountInv, Admitted
<1>27. ASSUME NEW c \in Calls, SubmitFails(c) PROVE CountInv'
  BY <1>27 DEF SubmitFails, CountInv, Admitted
<1>28. ASSUME NEW c \in Calls, TimeoutRaises(c) PROVE CountInv'
  BY <1>28 DEF TimeoutRaises, Leave, CountInv, Admitted
<1>29. ASSUME NEW c \in Calls, ConsumeSkip(c) PROVE CountInv'
  BY <1>29 DEF ConsumeSkip, SkipWins, CountInv, Admitted
<1>q. QED
  BY <1>1, <1>2, <1>3, <1>4, <1>5, <1>6, <1>7, <1>8, <1>9, <1>10, <1>11, <1>12, <1>13,
     <1>14, <1>15, <1>16, <1>17, <1>18, <1>19, <1>20, <1>21, <1>22, <1>23, <1>24, <1>25, <1>26,
     <1>27, <1>28, <1>29
     DEF Next, CallStep, ChildStep, SkipStep

(* A call that turns "done" is one more for its fingerprint and none more   *)
(* for any other.                                                           *)
LEMMA DoneAdded ==
  ASSUME TypeOK, NEW c \in Calls, record[c] = "running" \/ record[c] = "queued",
         record' = [record EXCEPT ![c] = "done"], Put(c), CacheCountsDoneCalls
  PROVE  CacheCountsDoneCalls'
<1>1. SUFFICES ASSUME NEW fp \in Fingerprints
               PROVE  current'[fp] = Cardinality(DoneCalls(fp)')
  BY DEF CacheCountsDoneCalls
<1>2. IsFiniteSet(DoneCalls(fp))
  BY CallsAssumption, FS_Subset DEF CallsAssumption, DoneCalls
<1>3. current[fp] = Cardinality(DoneCalls(fp)) /\ current[fp] \in Nat
  BY DEF CacheCountsDoneCalls, TypeOK
<1>4. CASE FpOf[c] = fp
  <2>1. DoneCalls(fp)' = DoneCalls(fp) \cup {c} /\ c \notin DoneCalls(fp)
    BY <1>4 DEF DoneCalls, TypeOK
  <2>2. current'[fp] = current[fp] + 1
    BY <1>4 DEF Put, TypeOK
  <2>3. Cardinality(DoneCalls(fp) \cup {c}) = Cardinality(DoneCalls(fp)) + 1
    BY <1>2, <2>1, FS_AddElement
  <2>4. QED
    BY <1>3, <2>1, <2>2, <2>3
<1>5. CASE FpOf[c] # fp
  <2>1. DoneCalls(fp)' = DoneCalls(fp)
    BY <1>5 DEF DoneCalls, TypeOK
  <2>2. current'[fp] = current[fp]
    BY <1>5 DEF Put, TypeOK
  <2>3. QED
    BY <1>3, <2>1, <2>2
<1>6. QED
  BY <1>4, <1>5

(* Nothing else moves the counts. *)
LEMMA DoneKept ==
  ASSUME CacheCountsDoneCalls, UNCHANGED current,
         \A c \in Calls : record'[c] = "done" <=> record[c] = "done"
  PROVE  CacheCountsDoneCalls'
<1>1. \A fp : DoneCalls(fp)' = DoneCalls(fp)
  BY DEF DoneCalls
<1>2. QED
  BY <1>1 DEF CacheCountsDoneCalls

(* Nothing is cached at first. *)
LEMMA InitCache == Init => CacheCountsDoneCalls
<1> SUFFICES ASSUME Init, NEW fp \in Fingerprints PROVE current[fp] = Cardinality(DoneCalls(fp))
  BY DEF CacheCountsDoneCalls
<1>1. DoneCalls(fp) = {} /\ current[fp] = 0
  BY DEF Init, DoneCalls
<1>2. QED
  BY <1>1, FS_EmptySet

(* A call marked "done" puts its result in the same step. *)
LEMMA NextCache ==
  TypeOK /\ PlaceInv /\ CacheCountsDoneCalls /\ [Next]_vars => CacheCountsDoneCalls'
<1> SUFFICES ASSUME TypeOK, PlaceInv, CacheCountsDoneCalls, [Next]_vars
             PROVE  CacheCountsDoneCalls'
  OBVIOUS
<1>1. ASSUME NEW c \in Calls, Enter(c) PROVE CacheCountsDoneCalls'
  BY <1>1, DoneKept DEF Enter, PassCheck
<1>2. ASSUME NEW c \in Calls, Halt(c) PROVE CacheCountsDoneCalls'
  BY <1>2, DoneKept DEF Halt
<1>3. ASSUME NEW c \in Calls, AcquireFrameLock(c) PROVE CacheCountsDoneCalls'
  BY <1>3, DoneKept DEF AcquireFrameLock
<1>4. ASSUME NEW c \in Calls, PassReserveCheck(c) PROVE CacheCountsDoneCalls'
  BY <1>4, DoneKept DEF PassReserveCheck, PassCheck
<1>5. ASSUME NEW c \in Calls, Admit(c) PROVE CacheCountsDoneCalls'
  BY <1>5, DoneKept DEF Admit, TypeOK, PlaceInv
<1>6. ASSUME NEW c \in Calls, Refuse(c) PROVE CacheCountsDoneCalls'
  BY <1>6, DoneKept DEF Refuse
<1>7. ASSUME NEW c \in Calls, ServeFromCache(c) PROVE CacheCountsDoneCalls'
  <2>1. record[c] = "queued" /\ record' = [record EXCEPT ![c] = "done"] /\ Put(c)
    BY <1>7 DEF ServeFromCache, PlaceInv
  <2>2. QED
    BY <2>1, DoneAdded
<1>8. ASSUME NEW c \in Calls, StartRecord(c) PROVE CacheCountsDoneCalls'
  BY <1>8, DoneKept DEF StartRecord, TypeOK, PlaceInv
<1>9. ASSUME NEW c \in Calls, PassFirstSlotCheck(c) PROVE CacheCountsDoneCalls'
  BY <1>9, DoneKept DEF PassFirstSlotCheck, PassCheck
<1>10. ASSUME NEW c \in Calls, AcquireSlot(c) PROVE CacheCountsDoneCalls'
  BY <1>10, DoneKept DEF AcquireSlot
<1>11. ASSUME NEW c \in Calls, PassSecondSlotCheck(c) PROVE CacheCountsDoneCalls'
  BY <1>11, DoneKept DEF PassSecondSlotCheck, PassCheck
<1>12. ASSUME NEW c \in Calls, LaunchFails(c) PROVE CacheCountsDoneCalls'
  BY <1>12, DoneKept DEF LaunchFails
<1>13. ASSUME NEW c \in Calls, Register(c) PROVE CacheCountsDoneCalls'
  BY <1>13, DoneKept DEF Register
<1>14. ASSUME NEW c \in Calls, Timeout(c) PROVE CacheCountsDoneCalls'
  BY <1>14, DoneKept DEF Timeout
<1>15. ASSUME NEW c \in Calls, Collect(c) PROVE CacheCountsDoneCalls'
  BY <1>15, DoneKept DEF Collect, Leave
<1>16. ASSUME NEW c \in Calls, LeaveGrace(c) PROVE CacheCountsDoneCalls'
  BY <1>16, DoneKept DEF LeaveGrace, Leave
<1>17. ASSUME NEW c \in Calls, Settle(c) PROVE CacheCountsDoneCalls'
  <2>1. record[c] = "running"
    BY <1>17 DEF Settle, PlaceInv
  <2>2. CASE outcome[c] = "answer"
    <3>1. record' = [record EXCEPT ![c] = "done"] /\ Put(c)
      BY <1>17, <2>2 DEF Settle
    <3>2. QED
      BY <2>1, <3>1, DoneAdded
  <2>3. CASE outcome[c] # "answer"
    BY <1>17, <2>1, <2>3, DoneKept DEF Settle, TypeOK
  <2>4. QED
    BY <2>2, <2>3
<1>18. ASSUME NEW c \in Calls, ChildReports(c) PROVE CacheCountsDoneCalls'
  BY <1>18, DoneKept DEF ChildReports
<1>19. ASSUME NEW c \in Calls, ChildReported(c) PROVE CacheCountsDoneCalls'
  BY <1>19, DoneKept DEF ChildReported
<1>20. ASSUME NEW c \in Calls, ChildExits(c) PROVE CacheCountsDoneCalls'
  BY <1>20, DoneKept DEF ChildExits
<1>21. ASSUME NEW c \in Calls, SkipChild(c) PROVE CacheCountsDoneCalls'
  BY <1>21, DoneKept DEF SkipChild
<1>22. ASSUME NEW c \in Calls, SkipInterrupts(c) PROVE CacheCountsDoneCalls'
  BY <1>22, DoneKept DEF SkipInterrupts
<1>23. ASSUME NEW c \in Calls, SkipFails(c) PROVE CacheCountsDoneCalls'
  BY <1>23, DoneKept DEF SkipFails
<1>24. CASE ControlStep
  BY <1>24, DoneKept DEF ControlStep, Pause, Resume, Stop, DeadlinePasses
<1>25. CASE UNCHANGED vars
  BY <1>25, DoneKept
<1>26. ASSUME NEW c \in Calls, Submit(c) PROVE CacheCountsDoneCalls'
  BY <1>26, DoneKept DEF Submit
<1>27. ASSUME NEW c \in Calls, SubmitFails(c) PROVE CacheCountsDoneCalls'
  BY <1>27, DoneKept DEF SubmitFails
<1>28. ASSUME NEW c \in Calls, TimeoutRaises(c) PROVE CacheCountsDoneCalls'
  BY <1>28, DoneKept DEF TimeoutRaises, Leave
<1>29. ASSUME NEW c \in Calls, ConsumeSkip(c) PROVE CacheCountsDoneCalls'
  BY <1>29, DoneKept DEF ConsumeSkip, SkipWins
<1>q. QED
  BY <1>1, <1>2, <1>3, <1>4, <1>5, <1>6, <1>7, <1>8, <1>9, <1>10, <1>11, <1>12, <1>13,
     <1>14, <1>15, <1>16, <1>17, <1>18, <1>19, <1>20, <1>21, <1>22, <1>23, <1>24, <1>25, <1>26,
     <1>27, <1>28, <1>29
     DEF Next, CallStep, ChildStep, SkipStep

-----------------------------------------------------------------------------
(* The inductive invariant, and what follows from it. *)

(* Every reachable state of a run satisfies the inductive invariant. *)
THEOREM Invariance == Spec => []IInv
<1>1. Init => IInv
  BY InitTypeOK, InitSlots, InitPlaces, InitCache DEF IInv
<1>2. IInv /\ [Next]_vars => IInv'
  BY NextTypeOK, NextSlots, NextCount, NextPlaces, NextActive, NextSkip, NextCache
     DEF IInv
<1>3. QED
  BY <1>1, <1>2, PTL DEF Spec

(* However calls, timeouts, skips, stops and halts interleave, the          *)
(* semaphore accounts for exactly the calls inside agent_slot().            *)
THEOREM SlotsConserved == Spec => []SlotConservation
<1>1. IInv => SlotConservation
  BY DEF IInv
<1>2. QED
  BY <1>1, Invariance, PTL

(* An acknowledged skip is never lost. *)
THEOREM SkipsAreHonoured == Spec => []SkipHonoured
<1>1. IInv => SkipHonoured
  BY DEF IInv, PlaceInv, SkipInv, Asked, SkipHonoured, Ended
<1>2. QED
  BY <1>1, Invariance, PTL

(* What the cache of a run offers a later resume is one result for each of  *)
(* its calls that ended "done".                                             *)
THEOREM CacheIsSound == Spec => []CacheCountsDoneCalls
<1>1. IInv => CacheCountsDoneCalls
  BY DEF IInv
<1>2. QED
  BY <1>1, Invariance, PTL

-----------------------------------------------------------------------------
(* AgentExecution implements AgentPool. *)

(* A call that waits for its child holds a slot, so a call that holds a     *)
(* slot and has no child yet finds fewer than Slots of them.                *)
LEMMA PoolBelowSlots ==
  ASSUME TypeOK, SlotConservation, NEW c \in Calls, pc[c] = "launching"
  PROVE  Cardinality(WithChild) < Slots
<1>1. IsFiniteSet(SlotHolders)
  BY HoldersFinite
<1>2. /\ WithChild \subseteq SlotHolders
      /\ c \in SlotHolders
      /\ c \notin WithChild
  BY DEF WithChild, SlotHolders, SlotPlaces
<1>3. /\ IsFiniteSet(WithChild)
      /\ Cardinality(WithChild) \in Nat /\ Cardinality(SlotHolders) \in Nat
      /\ Cardinality(WithChild) < Cardinality(SlotHolders)
  <2>1. IsFiniteSet(WithChild)
    BY <1>1, <1>2, FS_Subset
  <2>2. Cardinality(WithChild) <= Cardinality(SlotHolders) /\ WithChild # SlotHolders
    BY <1>1, <1>2, FS_Subset
  <2>3. Cardinality(WithChild) # Cardinality(SlotHolders)
    BY <1>1, <1>2, <2>2, FS_Subset
  <2>4. Cardinality(WithChild) \in Nat /\ Cardinality(SlotHolders) \in Nat
    BY <1>1, <2>1, FS_CardinalityType
  <2>5. QED
    BY <2>1, <2>2, <2>3, <2>4
<1>4. freeSlots + Cardinality(SlotHolders) = Slots /\ freeSlots \in Nat
  BY DEF SlotConservation, TypeOK
<1> HIDE DEF SlotHolders, WithChild
<1>5. QED
  BY <1>3, <1>4, LimitsAssumption DEF LimitsAssumption

(* The pool counts with the operator of its own instance of FiniteSets. *)
LEMMA SameCardinality == \A S : Pool!Cardinality(S) = Cardinality(S)
BY DEF Pool!Cardinality, Cardinality

(* The initial states of a run are initial states of the pool. *)
LEMMA InitPool == Init => Pool!Init
BY DEF Init, WithChild, Pool!Init

(* Admit, ServeFromCache, StartRecord, Register, the four ways to leave the *)
(* child, and Settle each make one step of the pool; every other action    *)
(* leaves what the pool sees alone.                                         *)
LEMMA NextPool == IInv /\ [Next]_vars => [Pool!Next]_(Pool!vars)
<1> SUFFICES ASSUME IInv, [Next]_vars PROVE [Pool!Next]_(Pool!vars)
  OBVIOUS
<1>t. /\ TypeOK /\ SlotConservation /\ CountInv /\ PlaceInv /\ ActiveInv
  BY DEF IInv
<1>1. ASSUME NEW c \in Calls, Admit(c) PROVE Pool!Admit(c)
  <2>1. record[c] = "none" /\ Pool!Become(c, "queued")
    BY <1>1, <1>t DEF Admit, Pool!Become, WithChild, TypeOK, PlaceInv
  <2>2. Cardinality(Pool!Admitted) < MaxAgents
    BY <1>1, <1>t DEF Admit, LimitsAllow, CountInv, Admitted, Pool!Admitted
  <2>3. QED
    BY <2>1, <2>2, SameCardinality DEF Pool!Admit, Pool!Become
<1>2. ASSUME NEW c \in Calls, ServeFromCache(c) PROVE Pool!Reuse(c)
  BY <1>2, <1>t DEF ServeFromCache, Pool!Reuse, Pool!Become, WithChild, TypeOK, PlaceInv
<1>3. ASSUME NEW c \in Calls, StartRecord(c) PROVE Pool!Begin(c)
  BY <1>3, <1>t DEF StartRecord, Pool!Begin, Pool!Become, WithChild, TypeOK, PlaceInv
<1>4. ASSUME NEW c \in Calls, Register(c) PROVE Pool!Launch(c)
  <2>1. Cardinality(WithChild) < Slots
    BY <1>4, <1>t, PoolBelowSlots DEF Register
  <2>2. record[c] = "running" /\ child[c] = "none"
    BY <1>4, <1>t DEF Register, PlaceInv
  <2>3. {d \in Calls : child'[d] # "none"} = {d \in Calls : child[d] # "none"} \cup {c}
    BY <1>4, <1>t DEF Register, TypeOK
  <2>4. c \notin WithChild /\ WithChild' = WithChild \cup {c}
    BY <1>4, <1>t DEF Register, WithChild, TypeOK
  <2>5. QED
    BY <1>4, <2>1, <2>2, <2>3, <2>4, SameCardinality DEF Register, Pool!Launch
<1>5. ASSUME NEW c \in Calls, Collect(c) \/ TimeoutRaises(c) \/ LeaveGrace(c) \/ SubmitFails(c)
      PROVE  Pool!Retire(c)
  <2>1. c \in WithChild /\ WithChild' = WithChild \ {c} /\ UNCHANGED <<record, child>>
    BY <1>5, <1>t DEF Collect, TimeoutRaises, LeaveGrace, SubmitFails, Leave, WithChild, TypeOK
  <2>2. QED
    BY <2>1 DEF Pool!Retire
<1>6. ASSUME NEW c \in Calls, Submit(c) PROVE UNCHANGED Pool!vars
  <2>1. {d \in Calls : child'[d] # "none"} = {d \in Calls : child[d] # "none"}
    BY <1>6, <1>t DEF Submit, PlaceInv, TypeOK
  <2>2. WithChild' = WithChild /\ UNCHANGED record
    BY <1>6, <1>t DEF Submit, WithChild, TypeOK
  <2>3. QED
    BY <2>1, <2>2 DEF Pool!vars
<1>7. ASSUME NEW c \in Calls, ConsumeSkip(c) PROVE UNCHANGED Pool!vars
  BY <1>7, <1>t DEF ConsumeSkip, WithChild, TypeOK, Pool!vars
<1>8. ASSUME NEW c \in Calls, Settle(c) PROVE Pool!Resolve(c)
  <2>1. /\ record[c] = "running"
        /\ c \notin WithChild /\ WithChild' = WithChild
        /\ outcome[c] # "failure" => child[c] # "none"
        /\ UNCHANGED child
    BY <1>8, <1>t DEF Settle, PlaceInv, WithChild, TypeOK
  <2>2. CASE outcome[c] = "answer"
    BY <1>8, <2>1, <2>2 DEF Settle, Pool!Resolve, Pool!Become
  <2>3. CASE outcome[c] = "skipped"
    BY <1>8, <2>1, <2>3 DEF Settle, Pool!Resolve, Pool!Become
  <2>4. CASE outcome[c] \notin {"answer", "skipped"}
    BY <1>8, <2>1, <2>4 DEF Settle, Pool!Resolve, Pool!Become
  <2>5. QED
    BY <2>2, <2>3, <2>4
<1>9. ASSUME NEW c \in Calls, Enter(c) PROVE UNCHANGED Pool!vars
  BY <1>9, <1>t DEF Enter, PassCheck, Pool!vars, WithChild, TypeOK
<1>10. ASSUME NEW c \in Calls, Halt(c) PROVE UNCHANGED Pool!vars
  BY <1>10, <1>t DEF Halt, Pool!vars, WithChild, TypeOK
<1>11. ASSUME NEW c \in Calls, AcquireFrameLock(c) PROVE UNCHANGED Pool!vars
  BY <1>11, <1>t DEF AcquireFrameLock, Pool!vars, WithChild, TypeOK
<1>12. ASSUME NEW c \in Calls, PassReserveCheck(c) PROVE UNCHANGED Pool!vars
  BY <1>12, <1>t DEF PassReserveCheck, PassCheck, Pool!vars, WithChild, TypeOK
<1>13. ASSUME NEW c \in Calls, Refuse(c) PROVE UNCHANGED Pool!vars
  BY <1>13, <1>t DEF Refuse, Pool!vars, WithChild, TypeOK
<1>14. ASSUME NEW c \in Calls, PassFirstSlotCheck(c) PROVE UNCHANGED Pool!vars
  BY <1>14, <1>t DEF PassFirstSlotCheck, PassCheck, Pool!vars, WithChild, TypeOK
<1>15. ASSUME NEW c \in Calls, AcquireSlot(c) PROVE UNCHANGED Pool!vars
  BY <1>15, <1>t DEF AcquireSlot, Pool!vars, WithChild, TypeOK
<1>16. ASSUME NEW c \in Calls, PassSecondSlotCheck(c) PROVE UNCHANGED Pool!vars
  BY <1>16, <1>t DEF PassSecondSlotCheck, PassCheck, Pool!vars, WithChild, TypeOK
<1>17. ASSUME NEW c \in Calls, LaunchFails(c) PROVE UNCHANGED Pool!vars
  BY <1>17, <1>t DEF LaunchFails, Pool!vars, WithChild, TypeOK
<1>18. ASSUME NEW c \in Calls, Timeout(c) PROVE UNCHANGED Pool!vars
  BY <1>18, <1>t DEF Timeout, Pool!vars, WithChild, TypeOK
<1>19. ASSUME NEW c \in Calls, ChildReports(c) PROVE UNCHANGED Pool!vars
  <2>1. {d \in Calls : child'[d] # "none"} = {d \in Calls : child[d] # "none"}
    BY <1>19, <1>t DEF ChildReports, TypeOK
  <2>2. QED
    BY <1>19, <2>1 DEF ChildReports, WithChild, Pool!vars
<1>20. ASSUME NEW c \in Calls, ChildReported(c) PROVE UNCHANGED Pool!vars
  <2>1. {d \in Calls : child'[d] # "none"} = {d \in Calls : child[d] # "none"}
    BY <1>20, <1>t DEF ChildReported, TypeOK
  <2>2. QED
    BY <1>20, <2>1 DEF ChildReported, WithChild, Pool!vars
<1>21. ASSUME NEW c \in Calls, ChildExits(c) PROVE UNCHANGED Pool!vars
  <2>1. {d \in Calls : child'[d] # "none"} = {d \in Calls : child[d] # "none"}
    BY <1>21, <1>t DEF ChildExits, TypeOK
  <2>2. QED
    BY <1>21, <2>1 DEF ChildExits, WithChild, Pool!vars
<1>22. ASSUME NEW c \in Calls, SkipChild(c) PROVE UNCHANGED Pool!vars
  BY <1>22, <1>t DEF SkipChild, Pool!vars, WithChild, TypeOK
<1>23. ASSUME NEW c \in Calls, SkipInterrupts(c) PROVE UNCHANGED Pool!vars
  BY <1>23, <1>t DEF SkipInterrupts, Pool!vars, WithChild, TypeOK
<1>24. ASSUME NEW c \in Calls, SkipFails(c) PROVE UNCHANGED Pool!vars
  BY <1>24, <1>t DEF SkipFails, Pool!vars, WithChild, TypeOK
<1>25. CASE ControlStep
  BY <1>25, <1>t DEF ControlStep, Pause, Resume, Stop, DeadlinePasses, Pool!vars, WithChild, TypeOK
<1>26. CASE UNCHANGED vars
  BY <1>26, <1>t DEF Pool!vars, WithChild, TypeOK
<1>q. QED
  BY <1>1, <1>2, <1>3, <1>4, <1>5, <1>6, <1>7, <1>8, <1>9, <1>10, <1>11, <1>12, <1>13, <1>14,
     <1>15, <1>16, <1>17, <1>18, <1>19, <1>20, <1>21, <1>22, <1>23, <1>24, <1>25, <1>26
     DEF Next, CallStep, ChildStep, SkipStep, Pool!Next

(* Whatever the threads of a run do, an observer of the records and of the  *)
(* registry sees an AgentPool: the cap, one child a call, the slot bound    *)
(* and final results hold for every number of calls, slots and agents.      *)
THEOREM ImplementsPool == Spec => PoolSpec
<1>1. Init => Pool!Init
  BY InitPool
<1>2. IInv /\ [Next]_vars => [Pool!Next]_(Pool!vars)
  BY NextPool
<1>3. QED
  BY <1>1, <1>2, Invariance, PTL DEF Spec, PoolSpec, Pool!Spec

-----------------------------------------------------------------------------
(* A stopped run launches no more children. *)

(* Where a call can be that had not passed its last check when the run was  *)
(* stopped: the two places that lead to a child are out of its reach.       *)
Grounded(c) == /\ stopEvent
               /\ child[c] = "none"
               /\ pc[c] \in BeforeLastCheck \cup Ended

(* A stopped run lets no call past a check, and only a call past its last   *)
(* check registers a child.                                                 *)
LEMMA NextGrounded ==
  ASSUME NEW c \in Calls, TypeOK, Grounded(c), [Next]_vars
  PROVE  Grounded(c)'
<1> USE DEF TypeOK, Grounded, BeforeLastCheck, Ended
<1>1. ASSUME NEW d \in Calls, Enter(d) PROVE Grounded(c)'
  BY <1>1 DEF Enter, PassCheck, CheckPasses
<1>2. ASSUME NEW d \in Calls, Halt(d) PROVE Grounded(c)'
  BY <1>2 DEF Halt
<1>3. ASSUME NEW d \in Calls, AcquireFrameLock(d) PROVE Grounded(c)'
  BY <1>3 DEF AcquireFrameLock
<1>4. ASSUME NEW d \in Calls, PassReserveCheck(d) PROVE Grounded(c)'
  BY <1>4 DEF PassReserveCheck, PassCheck, CheckPasses
<1>5. ASSUME NEW d \in Calls, Admit(d) PROVE Grounded(c)'
  BY <1>5 DEF Admit
<1>6. ASSUME NEW d \in Calls, Refuse(d) PROVE Grounded(c)'
  BY <1>6 DEF Refuse
<1>7. ASSUME NEW d \in Calls, ServeFromCache(d) PROVE Grounded(c)'
  BY <1>7 DEF ServeFromCache
<1>8. ASSUME NEW d \in Calls, StartRecord(d) PROVE Grounded(c)'
  BY <1>8 DEF StartRecord
<1>9. ASSUME NEW d \in Calls, PassFirstSlotCheck(d) PROVE Grounded(c)'
  BY <1>9 DEF PassFirstSlotCheck, PassCheck, CheckPasses
<1>10. ASSUME NEW d \in Calls, AcquireSlot(d) PROVE Grounded(c)'
  BY <1>10 DEF AcquireSlot
<1>11. ASSUME NEW d \in Calls, PassSecondSlotCheck(d) PROVE Grounded(c)'
  BY <1>11 DEF PassSecondSlotCheck, PassCheck, CheckPasses
<1>12. ASSUME NEW d \in Calls, LaunchFails(d) PROVE Grounded(c)'
  BY <1>12 DEF LaunchFails
<1>13. ASSUME NEW d \in Calls, Register(d) PROVE Grounded(c)'
  BY <1>13 DEF Register
<1>14. ASSUME NEW d \in Calls, Timeout(d) PROVE Grounded(c)'
  BY <1>14 DEF Timeout
<1>15. ASSUME NEW d \in Calls, Collect(d) PROVE Grounded(c)'
  BY <1>15 DEF Collect, Leave
<1>16. ASSUME NEW d \in Calls, LeaveGrace(d) PROVE Grounded(c)'
  BY <1>16 DEF LeaveGrace, Leave
<1>17. ASSUME NEW d \in Calls, Settle(d) PROVE Grounded(c)'
  BY <1>17 DEF Settle
<1>18. ASSUME NEW d \in Calls, ChildReports(d) PROVE Grounded(c)'
  BY <1>18 DEF ChildReports
<1>19. ASSUME NEW d \in Calls, ChildReported(d) PROVE Grounded(c)'
  BY <1>19 DEF ChildReported
<1>20. ASSUME NEW d \in Calls, ChildExits(d) PROVE Grounded(c)'
  BY <1>20 DEF ChildExits
<1>21. ASSUME NEW d \in Calls, SkipChild(d) PROVE Grounded(c)'
  BY <1>21 DEF SkipChild
<1>22. ASSUME NEW d \in Calls, SkipInterrupts(d) PROVE Grounded(c)'
  BY <1>22 DEF SkipInterrupts
<1>23. ASSUME NEW d \in Calls, SkipFails(d) PROVE Grounded(c)'
  BY <1>23 DEF SkipFails
<1>24. CASE ControlStep
  BY <1>24 DEF ControlStep, Pause, Resume, Stop, DeadlinePasses
<1>25. CASE UNCHANGED vars
  BY <1>25
<1>26. ASSUME NEW d \in Calls, Submit(d) PROVE Grounded(c)'
  BY <1>26 DEF Submit
<1>27. ASSUME NEW d \in Calls, SubmitFails(d) PROVE Grounded(c)'
  BY <1>27 DEF SubmitFails
<1>28. ASSUME NEW d \in Calls, TimeoutRaises(d) PROVE Grounded(c)'
  BY <1>28 DEF TimeoutRaises, Leave
<1>29. ASSUME NEW d \in Calls, ConsumeSkip(d) PROVE Grounded(c)'
  BY <1>29 DEF ConsumeSkip, SkipWins
<1>q. QED
  BY <1>1, <1>2, <1>3, <1>4, <1>5, <1>6, <1>7, <1>8, <1>9, <1>10, <1>11, <1>12, <1>13,
     <1>14, <1>15, <1>16, <1>17, <1>18, <1>19, <1>20, <1>21, <1>22, <1>23, <1>24, <1>25, <1>26,
     <1>27, <1>28, <1>29
     DEF Next, CallStep, ChildStep, SkipStep

(* Once the stop event is set, a call that waits anywhere before its last   *)
(* check_runtime(), for the gate, the frame lock or a slot, never gets a    *)
(* child.                                                                   *)
THEOREM StopIsFinal == Spec => StopPreventsLaunch
<1> SUFFICES ASSUME NEW c \in Calls
             PROVE  Spec => [](stopEvent /\ pc[c] \in BeforeLastCheck => [](child[c] = "none"))
  BY DEF StopPreventsLaunch
<1>1. IInv => TypeOK
  BY DEF IInv
<1>2. IInv /\ stopEvent /\ pc[c] \in BeforeLastCheck => Grounded(c)
  BY DEF IInv, PlaceInv, BeforeLastCheck, Grounded
<1>3. TypeOK /\ Grounded(c) /\ [Next]_vars => Grounded(c)'
  BY NextGrounded
<1>4. Grounded(c) => child[c] = "none"
  BY DEF Grounded
<1>5. QED
  BY <1>1, <1>2, <1>3, <1>4, Invariance, PTL DEF Spec

-----------------------------------------------------------------------------
(* Why every call under way ends: what TLC checks of EveryCallEnds on small *)
(* instances rests on two facts about safety.  A call only goes forward,    *)
(* and who waits, waits for a call that does not.                           *)

Rank(place) ==
  CASE place = "idle"      -> 0
    [] place = "entered"   -> 1
    [] place = "reserving" -> 2
    [] place = "admitting" -> 3
    [] place = "lookup"    -> 4
    [] place = "queued"    -> 5
    [] place = "acquiring" -> 6
    [] place = "slotted"   -> 7
    [] place = "launching" -> 8
    [] place = "registered" -> 9
    [] place = "active"    -> 10
    [] place = "grace"     -> 11
    [] place = "leaving"   -> 12
    [] place = "settling"  -> 13
    [] place \in Ended     -> 14

OnlyForward == \A c \in Calls : pc'[c] # pc[c] => Rank(pc[c]) < Rank(pc'[c])

(* A step moves one call forward, or none. *)
LEMMA NextIsForward == TypeOK /\ [Next]_vars => OnlyForward
<1> SUFFICES ASSUME TypeOK, [Next]_vars PROVE OnlyForward
  OBVIOUS
<1> USE DEF TypeOK, Ended
<1>1. ASSUME NEW c \in Calls, NEW place \in Places, Goto(c, place), Rank(pc[c]) < Rank(place)
      PROVE  OnlyForward
  BY <1>1 DEF OnlyForward
<1>2. ASSUME NEW c \in Calls, Enter(c) \/ CallStep(c) PROVE OnlyForward
  <2>1. CASE \/ Enter(c) \/ PassReserveCheck(c) \/ PassFirstSlotCheck(c) \/ PassSecondSlotCheck(c)
             \/ Halt(c)
    BY <1>1, <2>1 DEF Enter, PassReserveCheck, PassFirstSlotCheck, PassSecondSlotCheck, PassCheck,
       Halt, Rank
  <2>2. CASE AcquireFrameLock(c) \/ Admit(c) \/ Refuse(c) \/ ServeFromCache(c) \/ StartRecord(c)
    BY <1>1, <2>2 DEF AcquireFrameLock, Admit, Refuse, ServeFromCache, StartRecord, Rank
  <2>3. CASE AcquireSlot(c) \/ LaunchFails(c) \/ Register(c) \/ Submit(c) \/ Timeout(c)
    BY <1>1, <2>3 DEF AcquireSlot, LaunchFails, Register, Submit, Timeout, Rank
  <2>4. CASE Collect(c) \/ TimeoutRaises(c) \/ LeaveGrace(c)
    BY <1>1, <2>4 DEF Collect, TimeoutRaises, LeaveGrace, Leave, Rank
  <2>5. CASE SubmitFails(c) \/ ConsumeSkip(c) \/ Settle(c)
    BY <1>1, <2>5 DEF SubmitFails, ConsumeSkip, Settle, Rank
  <2> QED  BY <1>2, <2>1, <2>2, <2>3, <2>4, <2>5 DEF CallStep
<1>3. ASSUME NEW c \in Calls, ChildStep(c) \/ SkipStep(c) PROVE UNCHANGED pc
  BY <1>3 DEF ChildStep, ChildReports, ChildReported, ChildExits, SkipStep, SkipChild, SkipInterrupts,
     SkipFails
<1>4. ControlStep => UNCHANGED pc
  BY DEF ControlStep, Pause, Resume, Stop, DeadlinePasses
<1>5. UNCHANGED pc => OnlyForward
  BY DEF OnlyForward
<1>6. QED
  BY <1>2, <1>3, <1>4, <1>5 DEF Next

(* Whatever other calls, children and controls do, a call passes each place *)
(* at most once: no retry, halt, timeout or skip sends it back              *)
(* (api.py, _agent_sync; runner.py, run).                                   *)
THEOREM CallsOnlyGoForward == Spec => [][OnlyForward]_vars
<1>1. IInv /\ [Next]_vars => OnlyForward
  BY NextIsForward DEF IInv
<1>2. QED
  BY <1>1, Invariance, PTL DEF Spec

(* A frame lock is owned by the call that reserves or admits in the frame. *)
Owned == \A c \in Calls, f \in Frames : frameLock[f] = c <=> pc[c] \in LockPlaces /\ FrameOf[c] = f

LEMMA NextOwned == TypeOK /\ Owned /\ [Next]_vars => Owned'
<1> SUFFICES ASSUME TypeOK, Owned, [Next]_vars PROVE Owned'
  OBVIOUS
<1> USE CallsAssumption DEF TypeOK, CallsAssumption, Owned, LockPlaces
<1>1. ASSUME NEW d \in Calls, Enter(d) PROVE Owned'
  BY <1>1 DEF Enter, PassCheck
<1>2. ASSUME NEW d \in Calls, Halt(d) PROVE Owned'
  BY <1>2 DEF Halt
<1>3. ASSUME NEW d \in Calls, AcquireFrameLock(d) PROVE Owned'
  BY <1>3 DEF AcquireFrameLock
<1>4. ASSUME NEW d \in Calls, PassReserveCheck(d) PROVE Owned'
  BY <1>4 DEF PassReserveCheck, PassCheck
<1>5. ASSUME NEW d \in Calls, Admit(d) PROVE Owned'
  BY <1>5 DEF Admit
<1>6. ASSUME NEW d \in Calls, Refuse(d) PROVE Owned'
  BY <1>6 DEF Refuse
<1>7. ASSUME NEW d \in Calls, ServeFromCache(d) PROVE Owned'
  BY <1>7 DEF ServeFromCache
<1>8. ASSUME NEW d \in Calls, StartRecord(d) PROVE Owned'
  BY <1>8 DEF StartRecord
<1>9. ASSUME NEW d \in Calls, PassFirstSlotCheck(d) PROVE Owned'
  BY <1>9 DEF PassFirstSlotCheck, PassCheck
<1>10. ASSUME NEW d \in Calls, AcquireSlot(d) PROVE Owned'
  BY <1>10 DEF AcquireSlot
<1>11. ASSUME NEW d \in Calls, PassSecondSlotCheck(d) PROVE Owned'
  BY <1>11 DEF PassSecondSlotCheck, PassCheck
<1>12. ASSUME NEW d \in Calls, LaunchFails(d) PROVE Owned'
  BY <1>12 DEF LaunchFails
<1>13. ASSUME NEW d \in Calls, Register(d) PROVE Owned'
  BY <1>13 DEF Register
<1>14. ASSUME NEW d \in Calls, Timeout(d) PROVE Owned'
  BY <1>14 DEF Timeout
<1>15. ASSUME NEW d \in Calls, Collect(d) PROVE Owned'
  BY <1>15 DEF Collect, Leave
<1>16. ASSUME NEW d \in Calls, LeaveGrace(d) PROVE Owned'
  BY <1>16 DEF LeaveGrace, Leave
<1>17. ASSUME NEW d \in Calls, Settle(d) PROVE Owned'
  BY <1>17 DEF Settle
<1>18. ASSUME NEW d \in Calls, ChildReports(d) PROVE Owned'
  BY <1>18 DEF ChildReports
<1>19. ASSUME NEW d \in Calls, ChildReported(d) PROVE Owned'
  BY <1>19 DEF ChildReported
<1>20. ASSUME NEW d \in Calls, ChildExits(d) PROVE Owned'
  BY <1>20 DEF ChildExits
<1>21. ASSUME NEW d \in Calls, SkipChild(d) PROVE Owned'
  BY <1>21 DEF SkipChild
<1>22. ASSUME NEW d \in Calls, SkipInterrupts(d) PROVE Owned'
  BY <1>22 DEF SkipInterrupts
<1>23. ASSUME NEW d \in Calls, SkipFails(d) PROVE Owned'
  BY <1>23 DEF SkipFails
<1>24. CASE ControlStep
  BY <1>24 DEF ControlStep, Pause, Resume, Stop, DeadlinePasses
<1>25. CASE UNCHANGED vars
  BY <1>25
<1>26. ASSUME NEW d \in Calls, Submit(d) PROVE Owned'
  BY <1>26 DEF Submit
<1>27. ASSUME NEW d \in Calls, SubmitFails(d) PROVE Owned'
  BY <1>27 DEF SubmitFails
<1>28. ASSUME NEW d \in Calls, TimeoutRaises(d) PROVE Owned'
  BY <1>28 DEF TimeoutRaises, Leave
<1>29. ASSUME NEW d \in Calls, ConsumeSkip(d) PROVE Owned'
  BY <1>29 DEF ConsumeSkip, SkipWins
<1>q. QED
  BY <1>1, <1>2, <1>3, <1>4, <1>5, <1>6, <1>7, <1>8, <1>9, <1>10, <1>11, <1>12, <1>13,
     <1>14, <1>15, <1>16, <1>17, <1>18, <1>19, <1>20, <1>21, <1>22, <1>23, <1>24, <1>25, <1>26,
     <1>27, <1>28, <1>29
     DEF Next, CallStep, ChildStep, SkipStep

(* The run is paused and not stopped; who waits for the gate, for its       *)
(* frame's lock or for a slot; and who has what it waits for.               *)
Held == paused /\ ~stopEvent
UnderWay(c) == pc[c] \notin {"idle"} \cup Ended
WaitsForGate(c) == pc[c] \in {"reserving", "queued", "slotted"} /\ Held
WaitsForLock(c) == pc[c] = "entered" /\ frameLock[FrameOf[c]] # NoOne
WaitsForSlot(c) == pc[c] = "acquiring" /\ freeSlots = 0
Waits(c) == WaitsForGate(c) \/ WaitsForLock(c) \/ WaitsForSlot(c)
Keeps(d, c) == \/ WaitsForLock(c) /\ frameLock[FrameOf[c]] = d
               \/ WaitsForSlot(c) /\ d \in SlotHolders

(* While the run is not held at the gate, what a call or its child waits    *)
(* for is in the hands of a call that goes on by itself.                    *)
WaitsAreShort ==
  ~Held => \A c \in Calls :
    /\ Waits(c) => \E d \in Calls : Keeps(d, c) /\ UnderWay(d) /\ ~Waits(d)
    /\ frameLock[FrameOf[c]] # NoOne =>
         UnderWay(frameLock[FrameOf[c]]) /\ ~Waits(frameLock[FrameOf[c]])

LEMMA OwnersDoNotWait == ASSUME TypeOK, SlotConservation, Owned PROVE WaitsAreShort
<1> SUFFICES ASSUME ~Held, NEW c \in Calls
             PROVE  /\ Waits(c) => \E d \in Calls : Keeps(d, c) /\ UnderWay(d) /\ ~Waits(d)
                    /\ frameLock[FrameOf[c]] # NoOne =>
                         UnderWay(frameLock[FrameOf[c]]) /\ ~Waits(frameLock[FrameOf[c]])
  BY DEF WaitsAreShort
<1> USE CallsAssumption, LimitsAssumption DEF CallsAssumption, LimitsAssumption
<1>1. ASSUME NEW d \in Calls, pc[d] \in LockPlaces \cup SlotPlaces PROVE UnderWay(d) /\ ~Waits(d)
  BY <1>1 DEF UnderWay, Waits, WaitsForGate, WaitsForLock, WaitsForSlot, LockPlaces, SlotPlaces, Ended
<1>2. frameLock[FrameOf[c]] # NoOne =>
        /\ frameLock[FrameOf[c]] \in Calls
        /\ UnderWay(frameLock[FrameOf[c]]) /\ ~Waits(frameLock[FrameOf[c]])
  BY <1>1 DEF Owned, TypeOK
<1>3. CASE WaitsForSlot(c)
  <2>1. Cardinality(SlotHolders) # 0
    <3>1. IsFiniteSet(SlotHolders) /\ Cardinality(SlotHolders) \in Nat
      BY HoldersFinite
    <3> QED  BY <1>3, <3>1 DEF WaitsForSlot, SlotConservation
  <2>2. PICK d \in Calls : d \in SlotHolders
    BY <2>1, FS_EmptySet DEF SlotHolders
  <2> QED  BY <1>1, <1>2, <1>3, <2>2 DEF Keeps, SlotHolders
<1>4. CASE WaitsForLock(c)
  BY <1>2, <1>4 DEF WaitsForLock, Keeps
<1> QED  BY <1>2, <1>3, <1>4 DEF Waits, WaitsForGate

(* Nobody waits in a circle: unless the run is held, a call that waits for  *)
(* its frame's lock or for a slot waits for a call under way that waits for *)
(* nothing, and so does a child that reports (api.py, the lock around       *)
(* reserve_agent and on_child_update; context.py, agent_slot).              *)
THEOREM NobodyWaitsInACircle == Spec => []WaitsAreShort
<1>1. Init => Owned
  BY CallsAssumption DEF Init, Owned, CallsAssumption, LockPlaces
<1>2. IInv => TypeOK /\ SlotConservation
  BY DEF IInv
<1>3. TypeOK /\ Owned /\ [Next]_vars => Owned'
  BY NextOwned
<1>4. TypeOK /\ SlotConservation /\ Owned => WaitsAreShort
  BY OwnersDoNotWait
<1>5. QED
  BY <1>1, <1>2, <1>3, <1>4, Invariance, PTL DEF Spec
=============================================================================
