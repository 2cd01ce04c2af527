--------------------------- MODULE Dashboard_proofs ---------------------------
(***************************************************************************)
(* The dashboard, for any runs, sessions, savers, sizes and shapes.        *)
(*                                                                         *)
(* What its caches serve is current.  The argument is about the counter: a *)
(* version that a saver is about to write is new, so no cache can have an  *)
(* entry under it, and every replacement of a record is followed by one of *)
(* the counter, or by the failure of its save.  It is new because its time *)
(* is, or because it is larger than all before it: a clock that is set     *)
(* back takes away the one reason, two bumps that overlap the other.       *)
(*                                                                         *)
(* What it selects exists.  A record only grows, and what the cache of     *)
(* details keeps is a lower bound of every later reading; the selection is *)
(* within that bound.  The rows of the list are a finite set in a strict   *)
(* order, so that each place of the list holds one.                        *)
(***************************************************************************)
EXTENDS Dashboard, FiniteSetTheorems, WellFoundedInduction, TLAPS

(* The parts of the store that the argument needs, with their types. *)
StoreType ==
  /\ version \in Nat /\ clock \in Nat \ {0}
  /\ stepped \in BOOLEAN /\ overlapped \in BOOLEAN
  /\ saving \in [Savers -> [at : {"idle", "replaced", "counted"}, run : Runs \cup {Nothing},
                            version : Nat]]
  /\ DOMAIN file = Runs /\ DOMAIN cache = Runs /\ DOMAIN details = Runs
  /\ loading.version \in Nat
  /\ \A r \in Runs : /\ cache[r] # Nothing => cache[r].signature[1] \in Nat
                     /\ details[r] # Nothing => details[r].signature[1] \in Nat

Seen(n, entries) == \E r \in Runs : entries[r] # Nothing /\ entries[r].signature[1] = n
Counted(p) == saving[p].at = "counted"

(* The numbers that are stamps of something: the counter, what a reader has *)
(* read of it, what it keeps entries under.                                 *)
Stamp(n) == n = version \/ n = loading.version \/ Seen(n, cache) \/ Seen(n, details)

(* As long as the clock is not set back: what was read of it lies in the    *)
(* past, and nobody has read it alike.                                      *)
TimesDiffer ==
  /\ \A n \in Nat : Stamp(n) => n < clock
  /\ \A p \in Savers : Counted(p) => /\ 0 < saving[p].version /\ saving[p].version < clock
                                     /\ ~Stamp(saving[p].version)
  /\ \A p, q \in Savers : Counted(p) /\ Counted(q) /\ saving[p].version = saving[q].version => p = q

(* As long as no two bumps overlap: the counter goes up.                    *)
CounterRises ==
  /\ \A n \in Nat : Stamp(n) => n <= version
  /\ \A p \in Savers : Counted(p) => version < saving[p].version

(* An entry is the record, or under another counter, or its run is being    *)
(* saved, or was and waits for the next bump.                               *)
Current(entries) ==
  \A r \in Runs : entries[r] # Nothing =>
    \/ entries[r].record = file[r]
    \/ entries[r].signature[1] # version
    \/ BeingSaved(r) \/ r \in unbumped

Ordered == ~stepped \/ ~overlapped
StoreInv ==
  /\ StoreType
  /\ ~stepped => TimesDiffer
  /\ ~overlapped => CounterRises
  /\ Ordered => Current(cache) /\ Current(details)

USE DEF filesVars, historyVars

-----------------------------------------------------------------------------
LEMMA StoreStarts == StoreInit => StoreInv
<1> SUFFICES ASSUME StoreInit PROVE StoreInv
  OBVIOUS
<1> USE DEF StoreInit, Idle, NoLoad
<1>1. StoreType
  <2>1. stepped \in BOOLEAN /\ overlapped \in BOOLEAN
    BY Zenon
  <2> QED  BY <2>1 DEF StoreType
<1>2. \A n \in Nat : Stamp(n) => n = 0
  BY DEF Stamp, Seen
<1>3. TimesDiffer /\ CounterRises
  BY <1>2 DEF TimesDiffer, CounterRises, Counted
<1>4. Current(cache) /\ Current(details)
  BY DEF Current
<1> QED  BY <1>1, <1>3, <1>4 DEF StoreInv

(* Saves.  The entries stay; a replaced record's run is being saved.        *)
LEMMA SavesKeepStoreInv == StoreInv /\ SaveStep => StoreInv'
<1> SUFFICES ASSUME StoreInv, NEW p \in Savers,
                    \/ \E r \in Runs, record \in Records : ReplaceRecord(p, r, record)
                    \/ ReadCounter(p) \/ ReplaceCounter(p) \/ SaveFails(p)
             PROVE  StoreInv'
  BY DEF SaveStep
<1> USE DEF StoreInv, StoreType, Ordered
<1>1. UNCHANGED <<cache, details, loading>>
  BY DEF ReplaceRecord, ReadCounter, ReplaceCounter, SaveFails
<1>2. ASSUME NEW r \in Runs, NEW record \in Records, ReplaceRecord(p, r, record)
      PROVE  StoreInv'
  <2>1. StoreType'
    BY <1>1, <1>2 DEF ReplaceRecord
  <2>2. /\ \A q \in Savers : Counted(q)' => q # p /\ Counted(q) /\ saving'[q] = saving[q]
        /\ \A q \in Runs : BeingSaved(q) => BeingSaved(q)'
        /\ BeingSaved(r)'
    BY <1>2 DEF ReplaceRecord, BeingSaved, Idle, Counted
  <2>3. UNCHANGED <<version, clock, stepped, overlapped, unbumped>>
    BY <1>2 DEF ReplaceRecord
  <2>4. \A n : Stamp(n)' <=> Stamp(n)
    BY <1>1, <2>3 DEF Stamp, Seen
  <2>5. ~stepped' => TimesDiffer'
    BY <2>2, <2>3, <2>4 DEF TimesDiffer
  <2>6. ~overlapped' => CounterRises'
    BY <2>2, <2>3, <2>4 DEF CounterRises
  <2>7. Ordered' => Current(cache)' /\ Current(details)'
    BY <1>1, <1>2, <2>2, <2>3 DEF ReplaceRecord, Current
  <2> QED  BY <2>1, <2>5, <2>6, <2>7
<1>3. CASE ReadCounter(p)
  <2>1. PICK now \in 1 .. clock :
          /\ saving' = [saving EXCEPT ![p] = [at |-> "counted", run |-> saving[p].run,
                                             version |-> NextVersion(now)]]
          /\ clock' = now + 1
          /\ (now = clock /\ stepped' = stepped) \/ stepped' = TRUE
    BY <1>3 DEF ReadCounter
  <2>2. /\ saving[p].at = "replaced" /\ Counted(p)'
        /\ saving'[p].run = saving[p].run /\ saving'[p].version = NextVersion(now)
        /\ \A q \in Savers : q # p => saving'[q] = saving[q]
        /\ UNCHANGED <<version, overlapped, unbumped, file>>
    BY <1>3, <2>1 DEF ReadCounter, Counted
  <2>3. /\ NextVersion(now) \in Nat /\ version < NextVersion(now) /\ 0 < NextVersion(now)
        /\ version < now => NextVersion(now) = now
    BY DEF NextVersion
  <2>4. StoreType'
    <3>1. stepped' \in BOOLEAN /\ overlapped' \in BOOLEAN
      BY <2>1, <2>2, Zenon
    <3>2. clock' \in Nat \ {0}
      BY <2>1
    <3> QED  BY <1>1, <2>1, <2>2, <2>3, <3>1, <3>2
  <2>5. \A n : Stamp(n)' <=> Stamp(n)
    BY <1>1, <2>2 DEF Stamp, Seen
  <2>6. ASSUME ~stepped' PROVE TimesDiffer'
    <3>1. TimesDiffer /\ now = clock /\ clock' = clock + 1
      BY <2>1, <2>6
    <3>2. version < clock /\ NextVersion(now) = clock
      BY <2>3, <3>1 DEF TimesDiffer, Stamp
    <3>3. \A n \in Nat : Stamp(n)' => n < clock'
      BY <2>5, <3>1 DEF TimesDiffer
    <3>4. ASSUME NEW q \in Savers, Counted(q)'
          PROVE  /\ 0 < saving'[q].version /\ saving'[q].version < clock'
                 /\ ~Stamp(saving[q].version)'
      <4>1. CASE q = p
        <5>1. saving'[q].version = clock /\ ~Stamp(clock)
          BY <2>2, <3>1, <3>2, <4>1 DEF TimesDiffer
        <5> QED  BY <2>5, <3>1, <5>1
      <4>2. CASE q # p
        <5>1. Counted(q) /\ saving'[q].version = saving[q].version
          BY <2>2, <3>4, <4>2 DEF Counted
        <5> QED  BY <2>5, <3>1, <5>1 DEF TimesDiffer
      <4> QED  BY <4>1, <4>2
    <3>5. ASSUME NEW q \in Savers, NEW s \in Savers, Counted(q)', Counted(s)',
                 saving'[q].version = saving'[s].version
          PROVE  q = s
      <4>1. \A x \in Savers : Counted(x)' /\ x # p =>
              Counted(x) /\ saving'[x].version = saving[x].version /\ saving[x].version # clock
        BY <2>2, <3>1 DEF Counted, TimesDiffer
      <4>2. saving'[p].version = clock
        BY <2>2, <3>2
      <4> QED  BY <3>1, <3>5, <4>1, <4>2 DEF TimesDiffer
    <3> QED  BY <3>3, <3>4, <3>5 DEF TimesDiffer
  <2>7. ~overlapped' => CounterRises'
    BY <2>2, <2>3, <2>5 DEF CounterRises, Counted
  <2>8. \A r \in Runs : BeingSaved(r)' <=> BeingSaved(r)
    BY <2>1, <2>2 DEF BeingSaved, Counted
  <2>9. Ordered' => Ordered
    BY <2>1, <2>2
  <2>10. Ordered' => Current(cache)' /\ Current(details)'
    BY <1>1, <2>2, <2>8, <2>9 DEF Current
  <2> QED  BY <2>4, <2>6, <2>7, <2>10
<1>4. CASE ReplaceCounter(p)
  <2>1. /\ saving'[p].at = "idle" /\ version' = saving[p].version /\ Counted(p)
        /\ \A q \in Savers : q # p => saving'[q] = saving[q]
        /\ overlapped' = (overlapped \/ \E q \in Savers \ {p} : Counted(q))
        /\ UNCHANGED <<clock, stepped, file>>
    BY <1>4 DEF ReplaceCounter, Idle, Counted
  <2>2. StoreType'
    BY <1>1, <1>4, <2>1 DEF ReplaceCounter, Idle
  <2>3. \A n : Stamp(n)' => Stamp(n) \/ n = saving[p].version
    BY <1>1, <2>1 DEF Stamp, Seen
  <2>4. \A q \in Savers : Counted(q)' => q # p /\ Counted(q) /\ saving'[q].version = saving[q].version
    BY <2>1 DEF Counted
  <2>5. ASSUME ~stepped' PROVE TimesDiffer'
    <3>1. TimesDiffer
      BY <2>1, <2>5
    <3>2. \A n \in Nat : Stamp(n)' => n < clock'
      BY <2>1, <2>3, <3>1 DEF TimesDiffer
    <3>3. \A q \in Savers : Counted(q)' => /\ 0 < saving'[q].version /\ saving'[q].version < clock'
                                           /\ ~Stamp(saving[q].version)'
      BY <2>1, <2>3, <2>4, <3>1 DEF TimesDiffer
    <3>4. \A q, s \in Savers : Counted(q)' /\ Counted(s)' /\ saving'[q].version = saving'[s].version => q = s
      BY <2>4, <3>1 DEF TimesDiffer
    <3> QED  BY <3>2, <3>3, <3>4 DEF TimesDiffer
  <2>6. ASSUME ~overlapped' PROVE CounterRises'
    <3>1. CounterRises /\ \A q \in Savers : ~Counted(q)'
      BY <2>1, <2>4, <2>6
    <3>2. version < saving[p].version /\ version \in Nat /\ saving[p].version \in Nat
      BY <2>1, <3>1 DEF CounterRises
    <3>3. \A n \in Nat : Stamp(n)' => n <= version'
      BY <2>1, <2>3, <3>1, <3>2 DEF CounterRises
    <3> QED  BY <3>1, <3>3 DEF CounterRises
  <2>7. ASSUME Ordered' PROVE Current(cache)' /\ Current(details)'
    <3>1. ~stepped => ~Seen(saving[p].version, cache) /\ ~Seen(saving[p].version, details)
      BY <2>1 DEF TimesDiffer, Stamp
    <3>2. ~overlapped => ~Seen(saving[p].version, cache) /\ ~Seen(saving[p].version, details)
      <4>1. ~overlapped => ~Stamp(saving[p].version)
        <5>1. saving[p].version \in Nat
          OBVIOUS
        <5> QED  BY <2>1, <5>1 DEF CounterRises
      <4> QED  BY <4>1 DEF Stamp
    <3>3. ~Seen(saving[p].version, cache) /\ ~Seen(saving[p].version, details)
      BY <2>1, <2>7, <3>1, <3>2
    <3> QED  BY <1>1, <2>1, <3>3 DEF Current, Seen
  <2> QED  BY <2>2, <2>5, <2>6, <2>7
<1>5. CASE SaveFails(p)
  <2>1. /\ saving'[p].at = "idle" /\ unbumped' = unbumped \cup {saving[p].run}
        /\ \A q \in Savers : q # p => saving'[q] = saving[q]
        /\ UNCHANGED <<version, clock, file, stepped, overlapped>>
    BY <1>5 DEF SaveFails, Idle
  <2>2. StoreType'
    BY <1>1, <1>5, <2>1 DEF SaveFails, Idle
  <2>3. \A n : Stamp(n)' <=> Stamp(n)
    BY <1>1, <2>1 DEF Stamp, Seen
  <2>4. \A q \in Savers : Counted(q)' => Counted(q) /\ saving'[q] = saving[q]
    BY <2>1 DEF Counted
  <2>5. ~stepped' => TimesDiffer'
    BY <2>1, <2>3, <2>4 DEF TimesDiffer
  <2>6. ~overlapped' => CounterRises'
    BY <2>1, <2>3, <2>4 DEF CounterRises
  <2>7. \A r \in Runs : BeingSaved(r) => BeingSaved(r)' \/ r \in unbumped'
    BY <2>1 DEF BeingSaved
  <2>8. Ordered' => Current(cache)' /\ Current(details)'
    BY <1>1, <2>1, <2>7 DEF Current
  <2> QED  BY <2>2, <2>5, <2>6, <2>8
<1> QED  BY <1>2, <1>3, <1>4, <1>5

(* An entry that a reader may keep of a run. *)
Served(entry, q) ==
  entry # Nothing =>
    /\ entry.signature[1] \in Nat /\ Stamp(entry.signature[1])
    /\ Ordered => \/ entry.record = file[q] \/ entry.signature[1] # version
                  \/ BeingSaved(q) \/ q \in unbumped

LEMMA EntriesAreServed ==
  StoreInv => \A r \in Runs : Served(cache[r], r) /\ Served(details[r], r)
  BY DEF StoreInv, StoreType, Stamp, Seen, Current, Served

(* What is kept is the record, under a counter that was read. *)
LEMMA KeptIsServed ==
  StoreInv =>
    \A entries \in {cache, details}, n \in {version, loading.version} :
      \A r, size : \A q \in Runs : Served(Keep(entries, r, <<n, size>>)[q], q)
<1> SUFFICES ASSUME StoreInv, NEW entries \in {cache, details},
                    NEW n \in {version, loading.version}, NEW r, NEW size, NEW q \in Runs
             PROVE  Served(Keep(entries, r, <<n, size>>)[q], q)
  OBVIOUS
<1> DEFINE kept == Keep(entries, r, <<n, size>>)
           new == [signature |-> <<n, size>>, record |-> file[r]]
<1>1. Served(entries[q], q)
  BY EntriesAreServed
<1>2. CASE kept = entries
  BY <1>1, <1>2
<1>3. CASE kept = [entries EXCEPT ![r] = new]
  <2>1. DOMAIN entries = Runs
    BY DEF StoreInv, StoreType
  <2>2. CASE q # r
    BY <1>1, <1>3, <2>1, <2>2
  <2>3. CASE q = r
    <3>1. kept[q] = new /\ new.signature[1] = n /\ new.record = file[q]
      BY <1>3, <2>1, <2>3
    <3>2. n \in Nat /\ Stamp(n)
      BY DEF StoreInv, StoreType, Stamp
    <3> HIDE DEF kept, new
    <3> QED  BY <3>1, <3>2 DEF Served, kept
  <2> QED  BY <2>2, <2>3
<1> QED  BY <1>2, <1>3 DEF Keep

(* A reading changes neither the files nor what is being saved, and stamps  *)
(* nothing anew.                                                            *)
LEMMA ReadsKeepStoreInv ==
  ASSUME StoreInv, UNCHANGED filesVars,
         DOMAIN cache' = Runs, DOMAIN details' = Runs,
         loading'.version \in {loading.version, version, 0},
         \A r \in Runs : Served(cache'[r], r) /\ Served(details'[r], r)
  PROVE  StoreInv'
<1> USE DEF StoreInv
<1>1. StoreType'
  BY DEF StoreType, Served
<1>2. \A n \in Nat : Stamp(n)' => Stamp(n) \/ n = 0
  BY DEF Stamp, Seen, Served
<1>3. ~stepped' => TimesDiffer'
  <2>1. clock \in Nat \ {0} /\ \A p \in Savers : saving[p].version \in Nat
    BY DEF StoreType
  <2> QED  BY <1>2, <2>1 DEF TimesDiffer, Counted
<1>4. ~overlapped' => CounterRises'
  <2>1. version \in Nat
    BY DEF StoreType
  <2> QED  BY <1>2, <2>1 DEF CounterRises, Counted
<1>5. Ordered' => Current(cache)' /\ Current(details)'
  BY DEF Ordered, Current, BeingSaved, Served
<1> QED  BY <1>1, <1>3, <1>4, <1>5

(* The steps of a reader. *)
LEMMA DetailIsServed ==
  ASSUME StoreInv, NEW r, DetailRead(r)
  PROVE  DOMAIN details' = Runs /\ \A q \in Runs : Served(details'[q], q)
<1>1. details' = Keep(details, r, <<version, file[r].size>>)
  BY DEF DetailRead, Signature
<1>2. DOMAIN details' = Runs
  BY <1>1 DEF Keep, StoreInv, StoreType
<1> QED  BY <1>1, <1>2, KeptIsServed

LEMMA LoadStepsKeepStoreInv ==
  ASSUME StoreInv, StartLoad \/ LoadRecord
  PROVE  StoreInv'
<1>1. CASE StartLoad
  BY <1>1, EntriesAreServed, ReadsKeepStoreInv DEF StartLoad, StoreInv, StoreType
<1>2. CASE LoadRecord
  <2>1. PICK r : /\ cache' = Keep(cache, r, <<loading.version, file[r].size>>)
                 /\ loading'.version = loading.version
                 /\ UNCHANGED <<filesVars, details>>
    BY <1>2 DEF LoadRecord
  <2>2. DOMAIN cache' = Runs /\ DOMAIN details' = Runs
    BY <2>1 DEF Keep, StoreInv, StoreType
  <2>3. \A q \in Runs : Served(cache'[q], q) /\ Served(details'[q], q)
    BY <2>1, EntriesAreServed, KeptIsServed
  <2> QED  BY <2>1, <2>2, <2>3, ReadsKeepStoreInv
<1> QED  BY <1>1, <1>2

LEMMA ViewsKeepStoreInv ==
  ASSUME StoreInv, UNCHANGED filesVars,
         UNCHANGED details \/ \E r : DetailRead(r),
         EndLoad \/ UNCHANGED <<cache, loading>>
  PROVE  StoreInv'
<1>1. DOMAIN details' = Runs /\ \A q \in Runs : Served(details'[q], q)
  BY DetailIsServed, EntriesAreServed DEF StoreInv, StoreType
<1>2. DOMAIN cache' = Runs /\ \A q \in Runs : cache'[q] = cache[q] \/ cache'[q] = Nothing
  BY DEF EndLoad, StoreInv, StoreType
<1>3. \A q \in Runs : Served(cache'[q], q)
  BY <1>2, EntriesAreServed DEF Served
<1>4. loading'.version \in {loading.version, version, 0}
  BY DEF EndLoad, NoLoad
<1> QED  BY <1>1, <1>2, <1>3, <1>4, ReadsKeepStoreInv

-----------------------------------------------------------------------------
(* Every step of the dashboard saves, loads or looks at a run. *)
LEMMA StepsKeepStoreInv == StoreInv /\ [Next]_vars => StoreInv'
<1> SUFFICES ASSUME StoreInv, [Next]_vars PROVE StoreInv'
  OBVIOUS
<1> DEFINE View == /\ UNCHANGED filesVars
                   /\ UNCHANGED details \/ \E r : DetailRead(r)
                   /\ EndLoad \/ UNCHANGED <<cache, loading>>
<1>1. CASE Save
  BY <1>1, SavesKeepStoreInv DEF Save
<1>2. CASE Load \/ LoadNext
  BY <1>2, LoadStepsKeepStoreInv DEF Load, LoadNext
<1>3. CASE FinishLoad
  <2>1. View
    BY <1>3 DEF FinishLoad, EndLoad
  <2> QED  BY <2>1, ViewsKeepStoreInv
<1>4. CASE ReadLastVersion \/ Poll \/ Draw \/ Control \/ Quit \/ UNCHANGED vars
  <2>1. View
    BY <1>4 DEF ReadLastVersion, Poll, Draw, Control, Quit, storeVars, vars
  <2> QED  BY <2>1, ViewsKeepStoreInv
<1>5. CASE Move \/ ExpandGroup \/ CollapseRun \/ CollapseGroup \/ OpenRun
           \/ EnterPhase \/ EnterAgent \/ Back
  <2> USE DEF HandleKey
  <2>1. ASSUME Move PROVE View
    BY <2>1 DEF Move, MoveList, MovePhases, MoveAgents
  <2>2. ASSUME ExpandGroup \/ CollapseRun \/ CollapseGroup PROVE View
    BY <2>2 DEF ExpandGroup, CollapseRun, CollapseGroup
  <2>3. ASSUME OpenRun PROVE View
    BY <2>3 DEF OpenRun
  <2>4. ASSUME EnterPhase \/ EnterAgent \/ Back PROVE View
    BY <2>4 DEF EnterPhase, EnterAgent, Back
  <2>5. View
    BY <1>5, <2>1, <2>2, <2>3, <2>4
  <2> QED  BY <2>5, ViewsKeepStoreInv
<1> QED  BY <1>1, <1>2, <1>3, <1>4, <1>5 DEF Next, LoadStep, KeyStep

(* No cache serves what another process has replaced, but for a record that *)
(* is being saved or whose save failed before its bump: the counter of      *)
(* store.py:180-189 is changed after every record, to a value that no       *)
(* reading of WorkflowRepository (model.py:207-251) has kept anything       *)
(* under, as long as the clock is not set back or no two bumps overlap.     *)
THEOREM CachesStayCurrent == Spec => []CachesAreCurrent
<1>1. Init => StoreInv
  BY StoreStarts DEF Init
<1>2. StoreInv => CachesAreCurrent
  BY DEF StoreInv, StoreType, Current, Ordered, CachesAreCurrent, Hit, Signature
<1> QED  BY <1>1, <1>2, StepsKeepStoreInv, PTL DEF Spec

-----------------------------------------------------------------------------
(* Smallest, largest and ranked members of finite sets. *)

(* A set of natural numbers has a smallest. *)
LEMMA Smallest ==
  ASSUME NEW T \in SUBSET Nat, T # {}
  PROVE  Min(T) \in T /\ \A n \in T : Min(T) <= n
<1>1. IsWellFoundedOn(OpToRel(<, Nat), Nat)
  BY NatLessThanWellFounded
<1>2. PICK x \in T : \A y \in T : <<y, x>> \notin OpToRel(<, Nat)
  BY <1>1, WFMin
<1>3. \A y \in T : ~(y < x)
  BY <1>2 DEF OpToRel
<1>4. \A y \in T : x <= y
  BY <1>3
<1> QED  BY <1>4 DEF Min

(* In a strict order of a finite set, one more lies before what is later. *)
Before(x, S, R) == {a \in S : <<a, x>> \in R}
StrictOrder(S, R) ==
  /\ \A a \in S : <<a, a>> \notin R
  /\ \A a, b, c \in S : <<a, b>> \in R /\ <<b, c>> \in R => <<a, c>> \in R
  /\ \A a, b \in S : a # b => <<a, b>> \in R \/ <<b, a>> \in R

LEMMA LaterHasMoreBefore ==
  ASSUME NEW S, IsFiniteSet(S), NEW R, StrictOrder(S, R),
         NEW a \in S, NEW b \in S, <<a, b>> \in R
  PROVE  /\ Cardinality(Before(a, S, R)) \in Nat /\ Cardinality(Before(b, S, R)) \in Nat
         /\ Cardinality(Before(a, S, R)) < Cardinality(Before(b, S, R))
<1> DEFINE A == Before(a, S, R)
           B == Before(b, S, R)
<1>1. A \in SUBSET B /\ B \in SUBSET S /\ a \in B /\ a \notin A
  BY DEF StrictOrder, Before
<1>2. IsFiniteSet(B) /\ IsFiniteSet(A)
  BY <1>1, FS_Subset
<1> HIDE DEF A, B
<1>3. Cardinality(A) \in Nat /\ Cardinality(B) \in Nat
  BY <1>2, FS_CardinalityType
<1>4. Cardinality(A) <= Cardinality(B) /\ Cardinality(A) # Cardinality(B)
  BY <1>1, <1>2, FS_Subset
<1> QED  BY <1>3, <1>4 DEF A, B

(* So each place below the size of the set is taken. *)
LEMMA EveryPlaceIsTaken ==
  ASSUME NEW S, IsFiniteSet(S), NEW R, StrictOrder(S, R), NEW i \in 1 .. Cardinality(S)
  PROVE  \E x \in S : Cardinality(Before(x, S, R)) = i - 1
<1> DEFINE n == Cardinality(S)
           place == [x \in S |-> Cardinality(Before(x, S, R))]
<1>1. n \in Nat
  BY FS_CardinalityType
<1>2. \A x \in S : place[x] \in 0 .. n - 1
  <2> TAKE x \in S
  <2>1. Before(x, S, R) \in SUBSET S /\ x \notin Before(x, S, R)
    BY DEF Before, StrictOrder
  <2>2. /\ IsFiniteSet(Before(x, S, R)) /\ Cardinality(Before(x, S, R)) <= n
        /\ Cardinality(Before(x, S, R)) # n
    BY <2>1, FS_Subset
  <2>3. Cardinality(Before(x, S, R)) \in Nat
    BY <2>2, FS_CardinalityType
  <2> QED  BY <1>1, <2>2, <2>3
<1>3. \A x, y \in S : place[x] = place[y] => x = y
  <2> SUFFICES ASSUME NEW x \in S, NEW y \in S, x # y PROVE place[x] # place[y]
    OBVIOUS
  <2>1. <<x, y>> \in R \/ <<y, x>> \in R
    BY DEF StrictOrder
  <2> QED  BY <2>1, LaterHasMoreBefore
<1>4. place \in [S -> 0 .. n - 1]
  BY <1>2
<1> HIDE DEF place
<1>5. place \in Injection(S, 0 .. n - 1)
  BY <1>3, <1>4 DEF Injection, IsInjective
<1>6. IsFiniteSet(0 .. n - 1) /\ Cardinality(0 .. n - 1) = n
  <2>1. 0 \in Int /\ n - 1 \in Int
    BY <1>1
  <2> QED  BY <1>1, <2>1, FS_Interval
<1>7. place \in Surjection(S, 0 .. n - 1)
  BY <1>5, <1>6, FS_Injection
<1>8. i - 1 \in 0 .. n - 1
  BY <1>1
<1> QED  BY <1>7, <1>8 DEF Surjection, place

(* The last of a finite set of numbers. *)
LEMMA Largest ==
  ASSUME NEW S \in SUBSET Nat, IsFiniteSet(S), S # {}
  PROVE  Max(S) \in S /\ \A n \in S : n <= Max(S)
<1> DEFINE R == {p \in Nat \X Nat : p[1] < p[2]}
<1>1. StrictOrder(S, R)
  BY DEF StrictOrder
<1>2. Cardinality(S) \in 1 .. Cardinality(S)
  BY FS_CardinalityType, FS_EmptySet
<1> HIDE DEF R
<1>3. PICK x \in S : Cardinality(Before(x, S, R)) = Cardinality(S) - 1
  <2>1. \A i \in 1 .. Cardinality(S) : \E x \in S : Cardinality(Before(x, S, R)) = i - 1
    BY <1>1, EveryPlaceIsTaken
  <2> QED  BY <1>2, <2>1
<1>4. ASSUME NEW y \in S, x < y PROVE FALSE
  <2>1. Before(x, S, R) \in SUBSET (S \ {x, y}) /\ S \ {x, y} \in SUBSET S
    BY <1>4 DEF Before, R
  <2>2. IsFiniteSet(S \ {x}) /\ Cardinality(S \ {x}) = Cardinality(S) - 1
    BY FS_RemoveElement
  <2>3. Before(x, S, R) \in SUBSET (S \ {x}) /\ y \in S \ {x} /\ y \notin Before(x, S, R)
    BY <1>4, <2>1
  <2> QED  BY <1>3, <2>2, <2>3, FS_Subset
<1>5. \A n \in S : n <= x
  BY <1>4
<1> QED  BY <1>5 DEF Max

-----------------------------------------------------------------------------
LEMMA PlaceOfRun ==
  ASSUME NEW ws \in Seq(Views), NEW r
  PROVE  /\ FlatIndex(ws, r) \in Nat
         /\ r \in RunsOf(ws) => FlatIndex(ws, r) \in DOMAIN ws /\ ws[FlatIndex(ws, r)].run = r
<1> DEFINE I == {i \in 1 .. Len(ws) : ws[i].run = r}
<1>1. FlatIndex(ws, r) = IF I # {} THEN Min(I) ELSE 0
  BY DEF FlatIndex, SelectInSeq
<1>2. I \in SUBSET Nat
  OBVIOUS
<1>3. r \in RunsOf(ws) => I # {}
  BY DEF RunsOf
<1>4. I # {} => Min(I) \in I
  BY <1>2, Smallest
<1> QED  BY <1>1, <1>2, <1>3, <1>4

LEMMA ImageIsFinite ==
  ASSUME NEW S, IsFiniteSet(S), NEW f, DOMAIN f = S
  PROVE  IsFiniteSet({f[x] : x \in S})
<1>1. [x \in S |-> f[x]] \in Surjection(S, {f[x] : x \in S})
  BY DEF Surjection
<1> QED  BY <1>1, FS_Surjection

LEMMA FewRows ==
  ASSUME NEW ws \in Seq(Views), NEW expanded
  PROVE  IsFiniteSet(RunsOf(ws)) /\ IsFiniteSet(Rows(ws, expanded))
<1> DEFINE runs == [i \in DOMAIN ws |-> ws[i].run]
           headers == [r \in RunsOf(ws) |-> Header(SessionOf[r])]
           runRows == [r \in RunsOf(ws) |-> RunRow(r)]
           H == {headers[r] : r \in RunsOf(ws)}
           R == {runRows[r] : r \in RunsOf(ws)}
<1>1. IsFiniteSet(DOMAIN ws)
  <2>1. DOMAIN ws = 1 .. Len(ws) /\ 1 \in Int /\ Len(ws) \in Int
    OBVIOUS
  <2> QED  BY <2>1, FS_Interval
<1>2. RunsOf(ws) = {runs[i] : i \in DOMAIN ws}
  BY DEF RunsOf
<1>3. DOMAIN runs = DOMAIN ws /\ DOMAIN headers = RunsOf(ws) /\ DOMAIN runRows = RunsOf(ws)
  OBVIOUS
<1>4. IsFiniteSet(RunsOf(ws))
  <2> HIDE DEF runs
  <2> QED  BY <1>1, <1>2, <1>3, ImageIsFinite
<1>5. IsFiniteSet(H) /\ IsFiniteSet(R)
  <2> HIDE DEF headers, runRows
  <2> QED  BY <1>3, <1>4, ImageIsFinite
<1>6. Rows(ws, expanded) \in SUBSET (H \cup R)
  BY DEF Rows, Keys
<1> HIDE DEF H, R
<1>7. IsFiniteSet(H \cup R)
  BY <1>5, FS_Union
<1> QED  BY <1>4, <1>6, <1>7, FS_Subset

LEMMA RunsOfViews ==
  ASSUME NEW ws \in Seq(Views)
  PROVE  RunsOf(ws) \in SUBSET Runs
<1>1. \A i \in DOMAIN ws : ws[i] \in Views
  OBVIOUS
<1> QED  BY <1>1 DEF RunsOf, Views

LEMMA NewestOfSession ==
  ASSUME NEW ws \in Seq(Views), NEW key \in Keys(ws)
  PROVE  Newest(ws, key) \in Nat /\ SessionOf[Newest(ws, key)] = key
<1> DEFINE S == {r \in RunsOf(ws) : SessionOf[r] = key}
<1>1. S \in SUBSET Nat /\ S \in SUBSET RunsOf(ws) /\ S # {}
  BY RunsOfViews, RunsAssumption DEF Keys
<1>2. IsFiniteSet(S)
  BY <1>1, FewRows, FS_Subset
<1>3. Max(S) \in S
  BY <1>1, <1>2, Largest
<1> QED  BY <1>1, <1>3 DEF Newest

(* What a row is. *)
LEMMA RowIs ==
  ASSUME NEW ws, NEW expanded, NEW row \in Rows(ws, expanded)
  PROVE  /\ row.key \in Keys(ws)
         /\ \/ row.kind = "group" /\ row = Header(row.key)
            \/ row.kind = "run" /\ row = RunRow(row.run) /\ row.run \in RunsOf(ws)
  BY DEF Rows, Header, RunRow, Keys

LEMMA RowsAreOrdered ==
  ASSUME NEW ws \in Seq(Views), NEW expanded
  PROVE  LET rows == Rows(ws, expanded)
         IN StrictOrder(rows, {p \in rows \X rows : Above(ws, p[1], p[2])})
<1> DEFINE rows == Rows(ws, expanded)
           R == {p \in rows \X rows : Above(ws, p[1], p[2])}
<1>1. \A a, b \in rows : <<a, b>> \in R <=> Above(ws, a, b)
  OBVIOUS
<1>2. \A a \in rows : /\ Newest(ws, a.key) \in Nat /\ SessionOf[Newest(ws, a.key)] = a.key
                      /\ FlatIndex(ws, a.run) \in Nat
                      /\ a.kind \in {"group", "run"}
  BY RowIs, NewestOfSession, PlaceOfRun
<1>3. \A a, b \in rows : a.key = b.key /\ a.kind = "group" /\ b.kind = "group" => a = b
  BY RowIs DEF Header
<1>4. \A a, b \in rows : a.kind = "run" /\ b.kind = "run"
                           /\ FlatIndex(ws, a.run) = FlatIndex(ws, b.run) => a = b
  BY RowIs, PlaceOfRun
<1> HIDE DEF rows, R
<1>5. \A a \in rows : ~Above(ws, a, a)
  BY <1>2 DEF Above
<1>6. \A a, b, c \in rows : Above(ws, a, b) /\ Above(ws, b, c) => Above(ws, a, c)
  BY <1>2 DEF Above
<1>7. \A a, b \in rows : a # b => Above(ws, a, b) \/ Above(ws, b, a)
  BY <1>2, <1>3, <1>4 DEF Above
<1>8. StrictOrder(rows, R)
  BY <1>1, <1>5, <1>6, <1>7 DEF StrictOrder
<1> QED  BY <1>8 DEF rows, R

(* Each place of the list holds a row. *)
LEMMA ItemsAreRows ==
  ASSUME NEW ws \in Seq(Views), NEW expanded
  PROVE  Items(ws, expanded) \in Seq(Rows(ws, expanded))
<1> DEFINE rows == Rows(ws, expanded)
           R == {p \in rows \X rows : Above(ws, p[1], p[2])}
<1>1. IsFiniteSet(rows) /\ Cardinality(rows) \in Nat
  BY FewRows, FS_CardinalityType
<1>2. \A row \in rows : {a \in rows : Above(ws, a, row)} = Before(row, rows, R)
  BY DEF Before
<1>3. StrictOrder(rows, R)
  BY RowsAreOrdered
<1>4. \A i \in 1 .. Cardinality(rows) : \E row \in rows : Cardinality({a \in rows : Above(ws, a, row)}) = i - 1
  <2> HIDE DEF R
  <2>1. \A i \in 1 .. Cardinality(rows) : \E row \in rows : Cardinality(Before(row, rows, R)) = i - 1
    BY <1>1, <1>3, EveryPlaceIsTaken
  <2> QED  BY <1>2, <2>1
<1>5. Items(ws, expanded) = [i \in 1 .. Cardinality(rows) |->
        CHOOSE row \in rows : Cardinality({a \in rows : Above(ws, a, row)}) = i - 1]
  BY DEF Items
<1>6. \A i \in 1 .. Cardinality(rows) : Items(ws, expanded)[i] \in rows
  BY <1>4, <1>5
<1>7. Items(ws, expanded) \in [1 .. Cardinality(rows) -> rows]
  BY <1>5, <1>6
<1> HIDE DEF rows
<1> QED  BY <1>1, <1>7 DEF rows

-----------------------------------------------------------------------------
(* TypeOK in parts, and that the lists are sequences. *)
FileTypes ==
  /\ file \in [Runs -> Records \cup {Nothing}]
  /\ order \in Seq(Runs)
  /\ ToSet(order) = {r \in Runs : file[r] # Nothing} /\ IsInjective(order)
  /\ version \in Nat /\ clock \in Nat \ {0}
  /\ saves \in 0 .. MaxSaves /\ faults \in 0 .. MaxFaults
  /\ saving \in [Savers -> [at : {"idle", "replaced", "counted"}, run : Runs \cup {Nothing},
                            version : Nat]]
  /\ \A p \in Savers : saving[p].at # "idle" => saving[p].run \in Runs
Histories == stepped \in BOOLEAN /\ overlapped \in BOOLEAN /\ unbumped \in SUBSET Runs
ReadTypes ==
  /\ cache \in [Runs -> Entries] /\ details \in [Runs -> Entries]
  /\ loading.version \in Nat
  /\ loading.todo \in Seq(Runs) /\ loading.views \in Seq(Views)
LoopTypes ==
  /\ pc \in {"load", "loading", "counter", "wait", "gone"}
  /\ after \in {"start", "active", "idle"} /\ launched \in Runs \cup {Nothing}
  /\ lastSeen \in Nat
Fitting(n) ==
  /\ n \in Navs
  /\ n.view = "workflow" => n.focus # "detail"
  /\ n.view = "agent" => n.focus # "phases"
ViewTypes ==
  /\ workflows \in Seq(Views) /\ opened \in BOOLEAN
  /\ Fitting(nav) /\ chosen \in Titles \cup {Nothing}

(* What is listed has a file, and what was listed once is not listed as nothing. *)
Listed ==
  /\ \A i \in DOMAIN loading.todo : file[loading.todo[i]] # Nothing
  /\ \A r \in RunsOf(loading.views) \cup RunsOf(workflows) : file[r] # Nothing
  /\ workflows # <<>> \/ loading.todo # <<>> \/ loading.views # <<>> => order # <<>> /\ Limit # 0
  /\ workflows # <<>> /\ pc = "loading" => loading.todo # <<>> \/ loading.views # <<>>
  /\ nav.view # "list" => workflows # <<>>

(* A detail that is kept is of a run that has ended, and its file has only grown since. *)
DetailsLag ==
  \A r \in Runs : details[r] # Nothing =>
    file[r] # Nothing /\ ~Active(file[r]) /\ Within(details[r].record.shape, file[r].shape)

(* The least that a reading of a run in detail will show from now on. *)
Floors == [r \in Runs |-> IF details[r] # Nothing THEN details[r].record ELSE file[r]]
Selects(n, title, phases) ==
  /\ n.phase \in DOMAIN phases
  /\ n.agent = 1 \/ \E i \in DOMAIN phases : phases[i].title = title /\ n.agent <= phases[i].agents
Selected == nav.view # "list" => Selects(nav, chosen, Floors[CurrentRun].shape.phases)

DashInv == FileTypes /\ Histories /\ ReadTypes /\ LoopTypes /\ ViewTypes /\ Listed /\ DetailsLag /\ Selected

-----------------------------------------------------------------------------
LEMMA ShapesAre ==
  \A record \in Records :
    /\ record.size \in Sizes /\ record.shape.announced \in Nat
    /\ record.shape.phases \in Phases /\ record.shape.phases # <<>>
    /\ \A i, j \in DOMAIN record.shape.phases :
         record.shape.phases[i].title = record.shape.phases[j].title => i = j
  BY ShapesAssumption DEF Records, IsShape

LEMMA PhasesAre ==
  ASSUME NEW phases \in Phases
  PROVE  /\ DOMAIN phases = 1 .. Len(phases) /\ Len(phases) \in Nat
         /\ phases # <<>> => Len(phases) # 0 /\ 1 \in DOMAIN phases
         /\ \A i \in DOMAIN phases : phases[i].title \in Titles /\ phases[i].agents \in Nat
<1> DEFINE S == [title : Titles, agents : Nat]
<1>1. phases \in Seq(S)
  BY DEF Phases
<1>2. \A phase \in S : phase.title \in Titles /\ phase.agents \in Nat
  OBVIOUS
<1> HIDE DEF S
<1> QED  BY <1>1, <1>2

LEMMA WithinItself == \A record \in Records : Within(record.shape, record.shape)
<1> SUFFICES ASSUME NEW record \in Records PROVE Within(record.shape, record.shape)
  OBVIOUS
<1>1. record.shape.phases \in Phases
  BY ShapesAre
<1>2. /\ Len(record.shape.phases) \in Nat
      /\ \A i \in DOMAIN record.shape.phases : record.shape.phases[i].agents \in Nat
  BY <1>1, PhasesAre
<1> QED  BY <1>1, <1>2 DEF Within

LEMMA WithinPasses ==
  ASSUME NEW a \in Records, NEW b \in Records, NEW c \in Records,
         Within(a.shape, b.shape), Within(b.shape, c.shape)
  PROVE  Within(a.shape, c.shape)
<1> DEFINE A == a.shape.phases
           B == b.shape.phases
           C == c.shape.phases
<1>1. A \in Phases /\ B \in Phases /\ C \in Phases
  BY ShapesAre
<1>2. Len(A) <= Len(C)
  <2>1. Len(A) \in Nat /\ Len(B) \in Nat /\ Len(C) \in Nat
    BY <1>1, PhasesAre
  <2>2. Len(A) <= Len(B) /\ Len(B) <= Len(C)
    BY DEF Within
  <2> HIDE DEF A, B, C
  <2> QED  BY <2>1, <2>2
<1>3. ASSUME NEW i \in DOMAIN A, A[i].agents > 0
      PROVE  \E k \in DOMAIN C : C[k].title = A[i].title /\ C[k].agents >= A[i].agents
  <2>1. PICK j \in DOMAIN B : B[j].title = A[i].title /\ B[j].agents >= A[i].agents
    BY <1>3 DEF Within
  <2>2. A[i].agents \in Nat /\ B[j].agents \in Nat
    BY <1>1, PhasesAre
  <2>3. PICK k \in DOMAIN C : C[k].title = B[j].title /\ C[k].agents >= B[j].agents
    BY <1>3, <2>1, <2>2 DEF Within
  <2>4. C[k].agents \in Nat
    BY <1>1, PhasesAre
  <2> HIDE DEF A, B, C
  <2> QED  BY <2>1, <2>2, <2>3, <2>4
<1> QED  BY <1>2, <1>3 DEF Within

LEMMA StaysSelected ==
  ASSUME NEW n \in Navs, NEW title, NEW old \in Records, NEW new \in Records,
         Within(old.shape, new.shape), Selects(n, title, old.shape.phases)
  PROVE  Selects(n, title, new.shape.phases)
<1> DEFINE A == old.shape.phases
           B == new.shape.phases
<1>1. A \in Phases /\ B \in Phases /\ n.agent \in Places
  BY ShapesAre DEF Navs
<1>2. n.phase \in DOMAIN B
  <2>1. /\ DOMAIN A = 1 .. Len(A) /\ DOMAIN B = 1 .. Len(B) /\ Len(A) \in Nat /\ Len(B) \in Nat
        /\ Len(A) <= Len(B) /\ n.phase \in DOMAIN A
    BY <1>1, PhasesAre DEF Within, Selects
  <2> HIDE DEF A, B
  <2> QED  BY <2>1
<1>3. ASSUME n.agent # 1
      PROVE  \E k \in DOMAIN B : B[k].title = title /\ n.agent <= B[k].agents
  <2>1. PICK i \in DOMAIN A : A[i].title = title /\ n.agent <= A[i].agents
    BY <1>3 DEF Selects
  <2>2. A[i].agents \in Nat /\ A[i].agents > 0
    <3>1. A[i].agents \in Nat
      BY <1>1, PhasesAre
    <3> QED  BY <1>1, <2>1, <3>1 DEF Places
  <2>3. PICK k \in DOMAIN B : B[k].title = A[i].title /\ B[k].agents >= A[i].agents
    BY <2>2 DEF Within
  <2>4. B[k].agents \in Nat
    BY <1>1, PhasesAre
  <2> HIDE DEF A, B
  <2> QED  BY <1>1, <2>1, <2>2, <2>3, <2>4 DEF Places
<1> QED  BY <1>2, <1>3 DEF Selects

LEMMA DetailIsWide ==
  ASSUME FileTypes, ReadTypes, DetailsLag, NEW r \in Runs, file[r] # Nothing
  PROVE  /\ Detail(r) \in Records /\ Floors[r] \in Records
         /\ Within(Floors[r].shape, Detail(r).shape)
<1>1. file[r] \in Records /\ (details[r] # Nothing => details[r].record \in Records)
  BY DEF FileTypes, ReadTypes, Entries
<1>2. \A record \in Records : Within(record.shape, record.shape)
  BY WithinItself
<1>3. Floors[r] = IF details[r] # Nothing THEN details[r].record ELSE file[r]
  BY DEF Floors
<1>4. details[r] # Nothing => Within(details[r].record.shape, file[r].shape)
  BY DEF DetailsLag
<1>5. \/ details[r] # Nothing /\ Detail(r) = details[r].record
      \/ Detail(r) = file[r]
  BY DEF Detail, Found, Hit
<1>6. CASE details[r] = Nothing
  BY <1>1, <1>2, <1>3, <1>5, <1>6
<1>7. CASE details[r] # Nothing
  BY <1>1, <1>2, <1>3, <1>4, <1>5, <1>7
<1> QED  BY <1>6, <1>7

LEMMA DetailIsFloor ==
  ASSUME FileTypes, ReadTypes, DetailsLag, NEW r \in Runs, DetailRead(r), UNCHANGED file
  PROVE  /\ details' \in [Runs -> Entries] /\ DetailsLag'
         /\ Floors' = [Floors EXCEPT ![r] = Detail(r)]
<1> DEFINE entry == [signature |-> Signature(r), record |-> file[r]]
<1>1. file[r] # Nothing /\ file[r] \in Records /\ Signature(r) \in Nat \X Sizes
  BY ShapesAre DEF DetailRead, FileTypes, Signature
<1>2. entry \in Entries /\ entry.record = file[r] /\ entry.signature = Signature(r)
  BY <1>1 DEF Entries
<1>3. DOMAIN details = Runs
  BY DEF ReadTypes
<1>4. CASE Hit(details, r, Signature(r))
  <2>1. details' = details /\ Detail(r) = details[r].record /\ details[r] # Nothing
    BY <1>4 DEF DetailRead, Keep, Detail, Found, Hit
  <2>2. Floors' = Floors /\ Floors[r] = Detail(r)
    BY <2>1 DEF Floors
  <2>3. Floors = [Floors EXCEPT ![r] = Floors[r]]
    BY DEF Floors
  <2> QED  BY <2>1, <2>2, <2>3 DEF DetailsLag, ReadTypes
<1>5. CASE ~Hit(details, r, Signature(r)) /\ Active(file[r])
  <2>1. details' = details /\ Detail(r) = file[r]
    BY <1>5 DEF DetailRead, Keep, Detail, Found
  <2>2. details[r] = Nothing
    BY <1>5 DEF DetailsLag
  <2>3. Floors' = Floors /\ Floors[r] = Detail(r)
    BY <2>1, <2>2 DEF Floors
  <2>4. Floors = [Floors EXCEPT ![r] = Floors[r]]
    BY DEF Floors
  <2> QED  BY <2>1, <2>3, <2>4 DEF DetailsLag, ReadTypes
<1>6. CASE ~Hit(details, r, Signature(r)) /\ ~Active(file[r])
  <2>1. details' = [details EXCEPT ![r] = entry] /\ Detail(r) = file[r]
    BY <1>6 DEF DetailRead, Keep, Detail, Found
  <2> HIDE DEF entry
  <2>2. details'[r] = entry /\ \A q \in Runs : q # r => details'[q] = details[q]
    BY <1>3, <2>1
  <2>3. details' \in [Runs -> Entries]
    BY <1>2, <2>1 DEF ReadTypes
  <2>4. Within(file[r].shape, file[r].shape)
    BY <1>1, WithinItself
  <2>5. DetailsLag'
    <3> SUFFICES ASSUME NEW q \in Runs, details'[q] # Nothing
                 PROVE  /\ file'[q] # Nothing /\ ~Active(file'[q])
                        /\ Within(details'[q].record.shape, file'[q].shape)
      BY DEF DetailsLag, Active, Within
    <3>1. CASE q = r
      BY <1>1, <1>2, <1>6, <2>2, <2>4, <3>1
    <3>2. CASE q # r
      BY <2>2, <3>2 DEF DetailsLag
    <3> QED  BY <3>1, <3>2
  <2>6. \A q \in Runs : Floors'[q] = IF q = r THEN Detail(r) ELSE Floors[q]
    BY <1>2, <2>1, <2>2 DEF Floors
  <2> QED  BY <2>3, <2>5, <2>6 DEF Floors
<1> QED  BY <1>4, <1>5, <1>6

-----------------------------------------------------------------------------
(* A run that is saved moves to the front of the listing. *)
LEMMA MovedToFront ==
  ASSUME NEW s \in Seq(Runs), IsInjective(s), NEW r \in Runs, NEW t, t = <<r>> \o RemoveFirst(s, r)
  PROVE  t \in Seq(Runs) /\ t # <<>> /\ IsInjective(t) /\ ToSet(t) = ToSet(s) \cup {r}
<1> DEFINE I == {i \in 1 .. Len(s) : s[i] = r}
           k == Min(I)
           rest == RemoveFirst(s, r)
<1>1. ASSUME I = {} PROVE rest = s
  BY <1>1 DEF RemoveFirst
<1>2. ASSUME I # {}
      PROVE  /\ k \in 1 .. Len(s) /\ s[k] = r
             /\ rest = SubSeq(s, 1, k - 1) \o SubSeq(s, k + 1, Len(s))
  <2>1. I \in SUBSET Nat
    OBVIOUS
  <2>2. k \in I
    <3> HIDE DEF I
    <3> QED  BY <1>2, <2>1, Smallest
  <2>3. SelectInSeq(s, LAMBDA v : v = r) = k
    BY <1>2 DEF SelectInSeq
  <2>4. \E i \in 1 .. Len(s) : s[i] = r
    BY <1>2
  <2> HIDE DEF k
  <2>5. rest = RemoveAt(s, k)
    BY <2>3, <2>4 DEF RemoveFirst
  <2> QED  BY <2>2, <2>5 DEF RemoveAt
<1>3. /\ rest \in Seq(Runs)
      /\ \A i \in DOMAIN rest : rest[i] # r
      /\ \A i \in DOMAIN rest : \E j \in DOMAIN s : rest[i] = s[j]
      /\ \A j \in DOMAIN s : s[j] # r => \E i \in DOMAIN rest : rest[i] = s[j]
      /\ \A i, j \in DOMAIN rest : rest[i] = rest[j] => i = j
  <2>1. CASE I = {}
    <3>1. rest = s /\ \A i \in DOMAIN s : s[i] # r
      <4>1. rest = s
        BY <1>1, <2>1
      <4>2. \A i \in 1 .. Len(s) : s[i] # r
        BY <2>1
      <4>3. DOMAIN s = 1 .. Len(s)
        OBVIOUS
      <4> QED  BY <4>1, <4>2, <4>3
    <3> HIDE DEF rest
    <3> QED  BY <3>1 DEF IsInjective
  <2>2. CASE I # {}
    <3>1. k \in 1 .. Len(s) /\ s[k] = r
      BY <1>2, <2>2
    <3> DEFINE a == SubSeq(s, 1, k - 1)
               b == SubSeq(s, k + 1, Len(s))
    <3> HIDE DEF k
    <3>2. /\ a \in Seq(Runs) /\ Len(a) = k - 1 /\ \A i \in 1 .. k - 1 : a[i] = s[i]
          /\ b \in Seq(Runs) /\ Len(b) = Len(s) - k /\ \A i \in 1 .. Len(s) - k : b[i] = s[i + k]
      BY <3>1
    <3> HIDE DEF a, b, rest
    <3>3. rest = a \o b
      BY <1>2, <2>2 DEF a, b
    <3>4. /\ rest \in Seq(Runs) /\ Len(rest) = Len(s) - 1
          /\ \A i \in 1 .. Len(s) - 1 : rest[i] = IF i < k THEN s[i] ELSE s[i + 1]
      <4>1. rest \in Seq(Runs) /\ Len(rest) = Len(s) - 1
        <5>1. rest \in Seq(Runs) /\ Len(rest) = Len(a) + Len(b)
          BY ONLY <3>2, <3>3
        <5> QED  BY <3>1, <3>2, <5>1
      <4>2. ASSUME NEW i \in 1 .. Len(s) - 1, i < k PROVE rest[i] = s[i]
        BY <3>1, <3>2, <3>3, <4>2
      <4>3. ASSUME NEW i \in 1 .. Len(s) - 1, ~(i < k) PROVE rest[i] = s[i + 1]
        <5>1. rest[i] = b[i - (k - 1)] /\ i - (k - 1) \in 1 .. Len(s) - k
          BY <3>1, <3>2, <3>3, <4>3
        <5> QED  BY <3>1, <3>2, <5>1
      <4> QED  BY <4>1, <4>2, <4>3
    <3>5. \A i, j \in 1 .. Len(s) : s[i] = s[j] => i = j
      BY DEF IsInjective
    <3> DEFINE from(i) == IF i < k THEN i ELSE i + 1
    <3>6. \A i \in DOMAIN rest : from(i) \in DOMAIN s /\ from(i) # k /\ rest[i] = s[from(i)]
      <4>1. DOMAIN rest = 1 .. Len(s) - 1 /\ DOMAIN s = 1 .. Len(s)
        BY <3>4
      <4>2. \A i \in 1 .. Len(s) - 1 : from(i) \in 1 .. Len(s) /\ from(i) # k
        BY <3>1
      <4> QED  BY <3>4, <4>1, <4>2
    <3>7. \A i, j \in DOMAIN rest : rest[i] = rest[j] => i = j
      <4>1. \A i, j \in DOMAIN rest : from(i) = from(j) => i = j
        BY <3>1, <3>4
      <4> HIDE DEF from
      <4> QED  BY <3>5, <3>6, <4>1
    <3>8. ASSUME NEW j \in DOMAIN s, s[j] # r PROVE \E i \in DOMAIN rest : rest[i] = s[j]
      <4>1. CASE j < k
        <5>1. j \in DOMAIN rest /\ rest[j] = s[j]
          BY <3>1, <3>4, <4>1
        <5> QED  BY <5>1
      <4>2. CASE k < j
        <5>1. j - 1 \in DOMAIN rest /\ rest[j - 1] = s[j]
          BY <3>1, <3>4, <4>2
        <5> QED  BY <5>1
      <4> QED  BY <3>1, <3>8, <4>1, <4>2
    <3>9. ASSUME NEW i \in DOMAIN rest PROVE rest[i] # r
      <4> HIDE DEF from
      <4>1. PICK j \in 1 .. Len(s) : j # k /\ rest[i] = s[j]
        BY <3>6
      <4> QED  BY <3>1, <3>5, <4>1
    <3> QED  BY <3>4, <3>6, <3>7, <3>8, <3>9
  <2> QED  BY <2>1, <2>2
<1> HIDE DEF rest, I
<1>4. t = <<r>> \o rest
  BY DEF rest
<1>5. /\ t \in Seq(Runs) /\ Len(t) = Len(rest) + 1 /\ t[1] = r
      /\ \A i \in 2 .. Len(t) : t[i] = rest[i - 1]
  <2> DEFINE one == <<r>>
  <2>1. rest \in Seq(Runs) /\ one \in Seq(Runs) /\ Len(one) = 1 /\ one[1] = r
    BY <1>3
  <2>2. t = one \o rest
    BY <1>4
  <2> HIDE DEF one
  <2>3. t \in Seq(Runs) /\ Len(t) = Len(rest) + 1
    <3>1. one \o rest \in Seq(Runs) /\ Len(one \o rest) = Len(one) + Len(rest)
      <4>1. one \in Seq(Runs) /\ rest \in Seq(Runs)
        BY ONLY <2>1
      <4> QED  BY ONLY <4>1
    <3>2. Len(rest) \in Nat
      BY ONLY <2>1
    <3> QED  BY ONLY <2>1, <2>2, <3>1, <3>2
  <2>4. t[1] = r /\ \A i \in 2 .. Len(t) : t[i] = rest[i - 1]
    BY ONLY <2>1, <2>2, <2>3
  <2> QED  BY <2>3, <2>4
<1>6. IsInjective(t)
  <2> SUFFICES ASSUME NEW i \in DOMAIN t, NEW j \in DOMAIN t, t[i] = t[j] PROVE i = j
    BY DEF IsInjective
  <2>1. \A m \in DOMAIN t : m # 1 => m - 1 \in DOMAIN rest /\ t[m] = rest[m - 1]
    BY <1>3, <1>5
  <2> QED  BY <1>3, <1>5, <2>1
<1>7. \A i \in DOMAIN t : t[i] \in ToSet(s) \cup {r}
  <2>1. \A m \in DOMAIN t : m # 1 => m - 1 \in DOMAIN rest /\ t[m] = rest[m - 1]
    BY <1>3, <1>5
  <2> QED  BY <1>3, <1>5, <2>1 DEF ToSet
<1>8. ASSUME NEW j \in DOMAIN s PROVE s[j] \in ToSet(t)
  <2>1. CASE s[j] = r
    BY <1>5, <2>1 DEF ToSet
  <2>2. CASE s[j] # r
    <3>1. PICK i \in DOMAIN rest : rest[i] = s[j]
      BY <1>3, <2>2
    <3>2. i + 1 \in DOMAIN t /\ t[i + 1] = s[j]
      BY <1>3, <1>5, <3>1
    <3> QED  BY <3>2 DEF ToSet
  <2> QED  BY <2>1, <2>2
<1>9. r \in ToSet(t)
  BY <1>5 DEF ToSet
<1>10. ToSet(t) = ToSet(s) \cup {r}
  BY <1>7, <1>8, <1>9 DEF ToSet
<1> QED  BY <1>5, <1>6, <1>10

LEMMA SavesKeepFiles ==
  ASSUME FileTypes, SaveStep
  PROVE  /\ FileTypes'
         /\ order # <<>> => order' # <<>>
         /\ \A r \in Runs : file[r] # Nothing => file'[r] # Nothing /\ Grows(file[r], file'[r])
<1> USE DEF FileTypes
<1>1. PICK p \in Savers : \/ \E r \in Runs, record \in Records : ReplaceRecord(p, r, record)
                          \/ ReadCounter(p) \/ ReplaceCounter(p) \/ SaveFails(p)
  BY DEF SaveStep
<1>2. \A r \in Runs : file[r] # Nothing => Grows(file[r], file[r])
  BY ShapesAre, WithinItself DEF Grows
<1>3. ASSUME NEW r \in Runs, NEW record \in Records, ReplaceRecord(p, r, record)
      PROVE  /\ FileTypes' /\ order' # <<>>
             /\ \A q \in Runs : file[q] # Nothing => file'[q] # Nothing /\ Grows(file[q], file'[q])
  <2>1. /\ file' = [file EXCEPT ![r] = record] /\ order' = <<r>> \o RemoveFirst(order, r)
        /\ Grows(file[r], record) /\ saves' = saves + 1 /\ saves < MaxSaves
        /\ saving' = [saving EXCEPT ![p] = [at |-> "replaced", run |-> r, version |-> 0]]
        /\ UNCHANGED <<version, clock, faults>>
    BY <1>3 DEF ReplaceRecord
  <2>2. order' \in Seq(Runs) /\ order' # <<>> /\ IsInjective(order)' /\ ToSet(order') = ToSet(order) \cup {r}
    BY <2>1, MovedToFront DEF IsInjective
  <2>3. \A q \in Runs : file'[q] = IF q = r THEN record ELSE file[q]
    BY <2>1
  <2>4. record # Nothing
    BY RecordsAssumption
  <2>5. ToSet(order') = {q \in Runs : file'[q] # Nothing}
    BY <2>2, <2>3, <2>4
  <2>6. saves' \in 0 .. MaxSaves
    BY <2>1, BoundsAssumption
  <2>7. FileTypes'
    BY <2>1, <2>2, <2>5, <2>6 DEF ToSet
  <2> QED  BY <1>2, <2>1, <2>2, <2>3, <2>4, <2>7
<1>4. CASE ReadCounter(p)
  <2>1. PICK now \in 1 .. clock :
          /\ saving' = [saving EXCEPT ![p] = [at |-> "counted", run |-> saving[p].run,
                                             version |-> NextVersion(now)]]
          /\ clock' = now + 1
          /\ faults' = faults \/ (faults < MaxFaults /\ faults' = faults + 1)
    BY <1>4 DEF ReadCounter
  <2>2. NextVersion(now) \in Nat /\ clock' \in Nat \ {0}
    BY <2>1 DEF NextVersion
  <2>3. faults' \in 0 .. MaxFaults
    BY <2>1, BoundsAssumption
  <2>4. FileTypes'
    BY <1>4, <2>1, <2>2, <2>3 DEF ReadCounter, ToSet, IsInjective
  <2> QED  BY <1>2, <1>4, <2>4 DEF ReadCounter
<1>5. CASE ReplaceCounter(p)
  <2>1. FileTypes'
    BY <1>5 DEF ReplaceCounter, Idle, ToSet, IsInjective
  <2> QED  BY <1>2, <1>5, <2>1 DEF ReplaceCounter
<1>6. CASE SaveFails(p)
  <2>1. faults' \in 0 .. MaxFaults
    BY <1>6, BoundsAssumption DEF SaveFails
  <2>2. FileTypes'
    BY <1>6, <2>1 DEF SaveFails, Idle, ToSet, IsInjective
  <2> QED  BY <1>2, <1>6, <2>2 DEF SaveFails
<1> QED  BY <1>1, <1>3, <1>4, <1>5, <1>6

LEMMA SavesKeepHistories == FileTypes /\ Histories /\ SaveStep => Histories'
<1> SUFFICES ASSUME FileTypes, Histories, NEW p \in Savers,
                    \/ \E r \in Runs, record \in Records : ReplaceRecord(p, r, record)
                    \/ ReadCounter(p) \/ ReplaceCounter(p) \/ SaveFails(p)
             PROVE  Histories'
  BY DEF SaveStep
<1>1. stepped' = stepped \/ stepped' = TRUE
  BY DEF ReplaceRecord, ReadCounter, ReplaceCounter, SaveFails
<1>2. overlapped' = overlapped \/ \E b \in BOOLEAN : overlapped' = (overlapped \/ b)
  BY DEF ReplaceRecord, ReadCounter, ReplaceCounter, SaveFails
<1>3. saving[p].at # "idle" => saving[p].run \in Runs
  BY DEF FileTypes
<1>4. unbumped' \in SUBSET Runs
  <2>1. unbumped' = unbumped \/ unbumped' = {} \/ unbumped' = unbumped \cup {saving[p].run}
    BY DEF ReplaceRecord, ReadCounter, ReplaceCounter, SaveFails
  <2>2. saving[p].run \in Runs \/ unbumped' = unbumped \/ unbumped' = {}
    BY <1>3 DEF ReplaceRecord, ReadCounter, ReplaceCounter, SaveFails
  <2> QED  BY <2>1, <2>2 DEF Histories
<1>5. stepped' \in BOOLEAN /\ overlapped' \in BOOLEAN
  BY <1>1, <1>2, Zenon DEF Histories
<1> QED  BY <1>4, <1>5 DEF Histories

-----------------------------------------------------------------------------
LEMMA ClampIs ==
  ASSUME NEW i \in Nat, NEW n \in Nat
  PROVE  /\ Clamp(i, n) \in Places
         /\ n = 0 => Clamp(i, n) = 1
         /\ n # 0 => Clamp(i, n) \in 1 .. n
         /\ i \in 1 .. n => Clamp(i, n) = i
         /\ Clamp(i, n) = 1 \/ Clamp(i, n) <= n
<1>1. {i, n} \in SUBSET Nat /\ {i, n} # {}
  OBVIOUS
<1>2. Min({i, n}) \in {i, n} /\ Min({i, n}) <= i /\ Min({i, n}) <= n
  BY <1>1, Smallest
<1> QED  BY <1>2 DEF Clamp, Places

LEMMA CurrentIsListed ==
  ASSUME NEW ws \in Seq(Views), NEW n \in Navs, ws # <<>>
  PROVE  CurrentIn(ws, n) \in RunsOf(ws) /\ CurrentIn(ws, n) \in Runs
<1>1. n.run \in Nat /\ Len(ws) \in Nat /\ Len(ws) # 0
  BY DEF Navs, Places
<1>2. Clamp(n.run, Len(ws)) \in DOMAIN ws
  <2>1. DOMAIN ws = 1 .. Len(ws)
    OBVIOUS
  <2> QED  BY <1>1, <2>1, ClampIs
<1> QED  BY <1>2, RunsOfViews DEF CurrentIn, RunsOf

LEMMA FloorIsRecord ==
  ASSUME FileTypes', ReadTypes', NEW r \in Runs, file'[r] # Nothing
  PROVE  Floors'[r] \in Records
  BY DEF Floors, FileTypes, ReadTypes, Entries

LEMMA SelectionKept ==
  ASSUME DashInv, FileTypes', ReadTypes', UNCHANGED <<workflows, nav, chosen>>,
         \A r \in Runs : file[r] # Nothing => file'[r] # Nothing /\ Within(Floors[r].shape, Floors'[r].shape)
  PROVE  Selected'
<1> SUFFICES ASSUME nav.view # "list"
             PROVE  Selects(nav, chosen, Floors'[CurrentRun].shape.phases)
  BY DEF Selected, Selects, CurrentRun, CurrentIn
<1>1. workflows # <<>> /\ nav \in Navs /\ workflows \in Seq(Views)
  BY DEF DashInv, Listed, ViewTypes, Fitting
<1>2. CurrentRun \in RunsOf(workflows) /\ CurrentRun \in Runs
  BY <1>1, CurrentIsListed DEF CurrentRun
<1>3. file[CurrentRun] # Nothing
  BY <1>2 DEF DashInv, Listed
<1>4. Floors[CurrentRun] \in Records /\ Floors'[CurrentRun] \in Records
  BY <1>2, <1>3, DetailIsWide, FloorIsRecord DEF DashInv
<1>5. Selects(nav, chosen, Floors[CurrentRun].shape.phases)
  BY DEF DashInv, Selected
<1> QED  BY <1>1, <1>2, <1>3, <1>4, <1>5, StaysSelected

LEMMA SavesKeepDash == DashInv /\ Save => DashInv'
<1> SUFFICES ASSUME DashInv, Save PROVE DashInv'
  OBVIOUS
<1>1. /\ FileTypes' /\ (order # <<>> => order' # <<>>)
      /\ \A r \in Runs : file[r] # Nothing => file'[r] # Nothing /\ Grows(file[r], file'[r])
  BY SavesKeepFiles DEF Save, DashInv
<1>10. Histories'
  BY SavesKeepHistories DEF Save, DashInv
<1>2. UNCHANGED <<cache, details, loading, loopVars, viewVars>>
  BY DEF Save, SaveStep, ReplaceRecord, ReadCounter, ReplaceCounter, SaveFails
<1>3. ReadTypes' /\ LoopTypes' /\ ViewTypes'
  BY <1>2 DEF DashInv, ReadTypes, LoopTypes, ViewTypes, Fitting, loopVars, viewVars
<1>4. Listed'
  <2>1. loading.todo \in Seq(Runs) /\ RunsOf(loading.views) \in SUBSET Runs /\ RunsOf(workflows) \in SUBSET Runs
    BY RunsOfViews DEF DashInv, ReadTypes, ViewTypes
  <2> QED  BY <1>1, <1>2, <2>1 DEF DashInv, Listed, RunsOf, loopVars, viewVars
<1>5. \A r \in Runs : file[r] # Nothing =>
        /\ file[r] \in Records /\ file'[r] \in Records /\ file'[r] # Nothing
        /\ Within(file[r].shape, file'[r].shape)
        /\ ~Active(file[r]) => ~Active(file'[r])
  BY <1>1 DEF DashInv, FileTypes, Grows
<1>6. \A r \in Runs : details[r] # Nothing => file[r] # Nothing /\ details[r].record \in Records
  BY DEF DashInv, DetailsLag, ReadTypes, Entries
<1>7. DetailsLag'
  <2> SUFFICES ASSUME NEW r \in Runs, details[r] # Nothing
               PROVE  file'[r] # Nothing /\ ~Active(file'[r]) /\ Within(details[r].record.shape, file'[r].shape)
    BY <1>2 DEF DetailsLag, Active, Within
  <2>1. Within(details[r].record.shape, file[r].shape) /\ ~Active(file[r])
    BY <1>6 DEF DashInv, DetailsLag
  <2> QED  BY <1>5, <1>6, <2>1, WithinPasses
<1>8. \A r \in Runs : file[r] # Nothing => Within(Floors[r].shape, Floors'[r].shape)
  <2> SUFFICES ASSUME NEW r \in Runs, file[r] # Nothing PROVE Within(Floors[r].shape, Floors'[r].shape)
    OBVIOUS
  <2>1. CASE details[r] = Nothing
    <3>1. Floors[r] = file[r] /\ Floors'[r] = file'[r]
      BY <1>2, <2>1 DEF Floors
    <3> QED  BY <1>5, <3>1
  <2>2. CASE details[r] # Nothing
    <3>1. Floors'[r] = Floors[r]
      BY <1>2, <2>2 DEF Floors
    <3>2. Floors[r] \in Records
      BY DetailIsWide DEF DashInv
    <3> QED  BY <3>1, <3>2, WithinItself
  <2> QED  BY <2>1, <2>2
<1>9. Selected'
  BY <1>1, <1>2, <1>3, <1>5, <1>8, SelectionKept DEF viewVars
<1> QED  BY <1>1, <1>3, <1>4, <1>7, <1>9, <1>10 DEF DashInv

(* Steps of the loop that leave the files, the list and the place in it. *)
LEMMA LoopKeepsDash == DashInv /\ (Load \/ LoadNext \/ ReadLastVersion \/ Poll \/ Draw \/ Control \/ Quit) => DashInv'
<1> SUFFICES ASSUME DashInv, Load \/ LoadNext \/ ReadLastVersion \/ Poll \/ Draw \/ Control \/ Quit
             PROVE  DashInv'
  OBVIOUS
<1> USE DEF filesVars, storeVars, loopVars, viewVars
<1>1. UNCHANGED <<filesVars, workflows, opened, nav, chosen>>
  BY DEF Load, LoadNext, StartLoad, LoadRecord, ReadLastVersion, Poll, Draw, Control, Quit
<1>2. FileTypes' /\ Histories' /\ ViewTypes'
  BY <1>1 DEF DashInv, FileTypes, Histories, ViewTypes, Fitting, ToSet, IsInjective
<1>3. LoopTypes'
  BY DEF DashInv, LoopTypes, FileTypes, Load, LoadNext, ReadLastVersion, Poll, Draw, Control, Quit
<1>4. \A r \in RunsOf(workflows) : r \in Runs /\ file[r] # Nothing
  BY RunsOfViews DEF DashInv, ViewTypes, Listed
<1>5. /\ details' \in [Runs -> Entries] /\ DetailsLag'
      /\ \A r \in Runs : file[r] # Nothing => Within(Floors[r].shape, Floors'[r].shape)
  <2>1. \A r \in Runs : file[r] # Nothing => Within(Floors[r].shape, Floors[r].shape)
    BY DetailIsWide, WithinItself DEF DashInv
  <2>2. CASE UNCHANGED details
    <3>1. Floors' = Floors
      BY <1>1, <2>2 DEF Floors
    <3> QED  BY <1>1, <2>1, <2>2, <3>1 DEF DashInv, ReadTypes, DetailsLag, Active, Within
  <2>3. CASE Draw
    <3>1. DetailRead(CurrentRun) /\ CurrentRun \in RunsOf(workflows)
      BY <2>3, CurrentIsListed DEF Draw, DashInv, ViewTypes, Fitting, CurrentRun
    <3>2. PICK r \in Runs : r = CurrentRun /\ file[r] # Nothing
      BY <1>4, <3>1
    <3>3. /\ details' \in [Runs -> Entries] /\ DetailsLag'
          /\ Floors' = [Floors EXCEPT ![r] = Detail(r)]
      BY <1>1, <3>1, <3>2, DetailIsFloor DEF DashInv
    <3>4. Within(Floors[r].shape, Detail(r).shape)
      BY <3>2, DetailIsWide DEF DashInv
    <3> HIDE DEF DetailsLag, Within
    <3>5. \A q \in Runs : Floors'[q] = IF q = r THEN Detail(r) ELSE Floors[q]
      BY <3>3 DEF Floors
    <3> QED  BY <2>1, <3>3, <3>4, <3>5
  <2> QED  BY <2>2, <2>3 DEF Load, LoadNext, StartLoad, LoadRecord, ReadLastVersion, Poll, Control, Quit
<1>6. ReadTypes' /\ Listed'
  <2>1. CASE UNCHANGED <<cache, loading>> /\ (pc' = "loading" => pc = "loading")
    BY <1>1, <1>5, <2>1 DEF DashInv, ReadTypes, Listed, RunsOf
  <2>2. CASE Load
    <3> DEFINE n == IF Limit < Len(order) THEN Limit ELSE Len(order)
    <3>1. /\ UNCHANGED cache /\ loading'.version = version /\ loading'.views = <<>>
          /\ loading'.todo = SubSeq(order, 1, n)
      BY <2>2 DEF Load, StartLoad
    <3>2. /\ order \in Seq(Runs) /\ n \in 0 .. Len(order)
          /\ (order # <<>> /\ Limit # 0 <=> n # 0)
      BY BoundsAssumption DEF DashInv, FileTypes
    <3> HIDE DEF n
    <3>3. /\ loading'.todo \in Seq(Runs) /\ Len(loading'.todo) = n
          /\ \A i \in 1 .. n : loading'.todo[i] = order[i]
      BY <3>1, <3>2
    <3>4. \A i \in DOMAIN order : file[order[i]] # Nothing
      BY DEF DashInv, FileTypes, ToSet
    <3>5. ReadTypes'
      BY <1>5, <3>1, <3>3 DEF DashInv, ReadTypes, FileTypes
    <3>6. \A i \in DOMAIN loading'.todo : file[loading'.todo[i]] # Nothing
      BY <3>2, <3>3, <3>4
    <3>7. RunsOf(loading.views)' = {}
      BY <3>1 DEF RunsOf
    <3>8. order # <<>> /\ Limit # 0 <=> loading'.todo # <<>>
      BY <3>2, <3>3
    <3>9. Listed'
      <4>1. \A r \in RunsOf(workflows)' : file'[r] # Nothing
        BY <1>1, <1>4 DEF RunsOf
      <4>2. file' = file /\ order' = order /\ workflows' = workflows /\ nav' = nav /\ loading'.views = <<>>
        BY <1>1, <3>1
      <4>3. workflows # <<>> => order # <<>> /\ Limit # 0
        BY DEF DashInv, Listed
      <4>4. nav.view # "list" => workflows # <<>>
        BY DEF DashInv, Listed
      <4> QED  BY <3>6, <3>7, <3>8, <4>1, <4>2, <4>3, <4>4 DEF Listed
    <3> QED  BY <3>5, <3>9
  <2>3. CASE LoadNext
    <3> DEFINE r == Head(loading.todo)
               signature == <<loading.version, file[r].size>>
               view == [run |-> r, record |-> Found(cache, r, signature)]
               entry == [signature |-> signature, record |-> file[r]]
    <3>1. /\ loading.todo # <<>> /\ loading'.version = loading.version
          /\ loading'.todo = Tail(loading.todo) /\ loading'.views = Append(loading.views, view)
          /\ cache' = Keep(cache, r, signature) /\ pc' = "loading" /\ pc = "loading"
      BY <2>3 DEF LoadNext, LoadRecord
    <3>2. /\ loading.todo \in Seq(Runs) /\ loading.views \in Seq(Views) /\ loading.version \in Nat
          /\ cache \in [Runs -> Entries]
      BY DEF DashInv, ReadTypes
    <3>3. r \in Runs /\ file[r] # Nothing
      BY <3>1, <3>2 DEF DashInv, Listed
    <3>4. file[r] \in Records
      BY <3>3 DEF DashInv, FileTypes
    <3> HIDE DEF r
    <3>5. signature \in Nat \X Sizes
      BY <3>2, <3>4, ShapesAre
    <3> HIDE DEF signature
    <3>6. Found(cache, r, signature) \in Records
      BY <3>2, <3>3, <3>4 DEF Found, Hit, Entries
    <3>7. view \in Views /\ view.run = r
      BY <3>3, <3>6 DEF Views
    <3>8. entry \in Entries
      BY <3>4, <3>5 DEF Entries
    <3>9. cache' \in [Runs -> Entries]
      BY <3>1, <3>2, <3>8 DEF Keep
    <3> HIDE DEF view
    <3>10. loading'.todo \in Seq(Runs) /\ loading'.views \in Seq(Views) /\ loading'.views # <<>>
      BY <3>1, <3>2, <3>7
    <3>11. ReadTypes'
      BY <1>5, <3>1, <3>2, <3>9, <3>10 DEF ReadTypes
    <3>12. \A i \in DOMAIN loading'.todo : file[loading'.todo[i]] # Nothing
      <4>1. \A i \in DOMAIN loading'.todo : i + 1 \in DOMAIN loading.todo /\ loading'.todo[i] = loading.todo[i + 1]
        BY <3>1, <3>2
      <4> QED  BY <4>1 DEF DashInv, Listed
    <3>13. RunsOf(loading.views)' = RunsOf(loading.views) \cup {r}
      <4>1. /\ DOMAIN loading'.views = DOMAIN loading.views \cup {Len(loading.views) + 1}
            /\ \A i \in DOMAIN loading.views : loading'.views[i] = loading.views[i]
            /\ loading'.views[Len(loading.views) + 1] = view
        BY <3>1, <3>2, <3>7
      <4> QED  BY <3>7, <4>1 DEF RunsOf
    <3>14. Listed'
      BY <1>1, <3>1, <3>3, <3>10, <3>12, <3>13 DEF DashInv, Listed, RunsOf
    <3> QED  BY <3>11, <3>14
  <2> QED  BY <2>1, <2>2, <2>3 DEF ReadLastVersion, Poll, Draw, Control, Quit
<1>7. Selected'
  BY <1>1, <1>2, <1>5, <1>6, SelectionKept DEF DashInv
<1> QED  BY <1>2, <1>3, <1>5, <1>6, <1>7 DEF DashInv

(* The end of a load. *)
LEMMA AnchoredPlace ==
  ASSUME NEW ws \in Seq(Views), nav \in Navs, NEW r
  PROVE  /\ Anchored(ws, r) \in Places
         /\ r \in RunsOf(ws) => Anchored(ws, r) = FlatIndex(ws, r)
<1>1. nav.run \in Nat /\ Len(ws) \in Nat /\ FlatIndex(ws, r) \in Nat
  BY PlaceOfRun DEF Navs, Places
<1>2. r \in RunsOf(ws) => FlatIndex(ws, r) \in 1 .. Len(ws)
  BY PlaceOfRun
<1> QED  BY <1>1, <1>2, ClampIs DEF Anchored

LEMMA FoundAtPlace ==
  ASSUME NEW ws \in Seq(Views), NEW r \in RunsOf(ws), NEW n, n.run = FlatIndex(ws, r)
  PROVE  CurrentIn(ws, n) = r
<1>1. FlatIndex(ws, r) \in 1 .. Len(ws) /\ ws[FlatIndex(ws, r)].run = r
  BY PlaceOfRun
<1>2. Clamp(n.run, Len(ws)) = FlatIndex(ws, r) /\ ws # <<>>
  BY <1>1, ClampIs
<1> QED  BY <1>1, <1>2 DEF CurrentIn

LEMMA NormalizedIs ==
  ASSUME FileTypes, ReadTypes, DetailsLag, NEW ws \in Seq(Views), NEW n \in Navs,
         \A r \in RunsOf(ws) : file[r] # Nothing
  PROVE  LET m == Normalized(n, ws)
         IN  /\ m \in Navs /\ m.view = n.view /\ m.focus = n.focus /\ m.run = n.run
             /\ ~(n.view # "list" /\ ws # <<>>) => m.agent = 1
             /\ n.view # "list" /\ ws # <<>> =>
                  Selects(m, PhasesOf(CurrentIn(ws, n))[m.phase].title, PhasesOf(CurrentIn(ws, n)))
<1> DEFINE open == n.view # "list" /\ ws # <<>>
           phases == IF open THEN PhasesOf(CurrentIn(ws, n)) ELSE <<>>
           phase == Clamp(n.phase, Len(phases))
           agent == Clamp(n.agent, IF open THEN phases[phase].agents ELSE 0)
           m == [n EXCEPT !.phase = phase, !.agent = agent]
<1>1. Normalized(n, ws) = m
  BY DEF Normalized
<1>2. n.phase \in Nat /\ n.agent \in Nat
  BY DEF Navs, Places
<1>3. CASE open
  <2>1. CurrentIn(ws, n) \in RunsOf(ws) /\ CurrentIn(ws, n) \in Runs
    BY <1>3, CurrentIsListed
  <2>2. Detail(CurrentIn(ws, n)) \in Records
    BY <2>1, DetailIsWide
  <2>3. phases \in Phases /\ phases # <<>> /\ phases = PhasesOf(CurrentIn(ws, n))
    BY <1>3, <2>2, ShapesAre DEF PhasesOf
  <2> HIDE DEF phases
  <2>4. Len(phases) \in Nat /\ Len(phases) # 0 /\ DOMAIN phases = 1 .. Len(phases)
    BY <2>3 DEF Phases
  <2>5. phase \in DOMAIN phases /\ phase \in Places
    BY <1>2, <2>4, ClampIs
  <2>6. phases[phase].agents \in Nat
    BY <2>3, <2>5, PhasesAre
  <2> HIDE DEF phase
  <2>7. agent \in Places /\ (agent = 1 \/ agent <= phases[phase].agents)
    <3>1. PICK agents \in Nat : agents = phases[phase].agents
      BY <2>6
    <3>2. agent = Clamp(n.agent, agents)
      BY <1>3, <3>1
    <3> HIDE DEF agent
    <3> QED  BY <1>2, <3>1, <3>2, ClampIs
  <2> HIDE DEF agent
  <2>8. m \in Navs /\ m.phase = phase /\ m.agent = agent
    BY <2>5, <2>7 DEF Navs, Places
  <2>9. Selects(m, phases[m.phase].title, phases)
    BY <2>5, <2>7, <2>8 DEF Selects
  <2>10. m.view = n.view /\ m.focus = n.focus /\ m.run = n.run
    BY DEF Navs, Places
  <2> QED  BY <1>1, <1>3, <2>3, <2>8, <2>9, <2>10
<1>4. CASE ~open
  <2>1. phase \in Places /\ agent \in Places /\ agent = 1
    BY <1>2, <1>4, ClampIs
  <2> HIDE DEF phase, agent
  <2> QED  BY <1>1, <1>4, <2>1 DEF Navs, Places
<1> QED  BY <1>3, <1>4

LEMMA FinishLoadKeepsDash == DashInv /\ FinishLoad => DashInv'
<1> SUFFICES ASSUME DashInv, FinishLoad PROVE DashInv'
  OBVIOUS
<1> DEFINE ws == loading.views
           expanded == IF opened THEN nav.expanded ELSE CurrentKey(ws)
           run == Anchored(ws, CurrentRun)
           cursor == Clamp(nav.cursor, Len(Items(ws, expanded)))
           anchored == [nav EXCEPT !.expanded = expanded, !.run = run, !.cursor = cursor]
           n == Normalized(anchored, ws)
<1>1. /\ pc = "loading" /\ EndLoad
      /\ IF n.view # "list" /\ ws # <<>> THEN DetailRead(CurrentIn(ws, n)) ELSE UNCHANGED details
      /\ workflows' = ws /\ opened' = TRUE /\ nav' = OpenNew(n, ws, launched)
      /\ chosen' = IF nav'.agent = 1 THEN Nothing ELSE PhasesOf(CurrentIn(ws, n))[n.phase].title
      /\ pc' \in {"counter", "wait"} /\ after' = "idle" /\ launched' = Nothing /\ lastSeen' = lastSeen
  BY DEF FinishLoad, OpenNew
<1>2. /\ ws \in Seq(Views) /\ Fitting(nav) /\ nav \in Navs
      /\ \A r \in RunsOf(ws) : r \in Runs /\ file[r] # Nothing
      /\ UNCHANGED filesVars
  BY <1>1, RunsOfViews DEF DashInv, ReadTypes, ViewTypes, Fitting, Listed, EndLoad
<1>3. anchored \in Navs /\ anchored.view = nav.view /\ anchored.focus = nav.focus /\ anchored.run = run
  <2>1. expanded \in SUBSET {SessionOf[r] : r \in Runs}
    <3>1. Keys(ws) \in SUBSET {SessionOf[r] : r \in Runs}
      BY <1>2 DEF Keys
    <3>2. CurrentKey(ws) \in SUBSET Keys(ws)
      BY DEF CurrentKey
    <3> QED  BY <1>2, <3>1, <3>2 DEF Navs, Places
  <2>2. run \in Places
    BY <1>2, AnchoredPlace
  <2>3. cursor \in Places
    <3>1. nav.cursor \in Nat /\ Len(Items(ws, expanded)) \in Nat
      BY <1>2, ItemsAreRows DEF Navs, Places
    <3> QED  BY <3>1, ClampIs
  <2> HIDE DEF expanded, run, cursor
  <2> QED  BY <1>2, <2>1, <2>2, <2>3 DEF Navs, Places
<1> HIDE DEF anchored
<1>4. /\ n \in Navs /\ n.view = nav.view /\ n.focus = nav.focus /\ n.run = run
      /\ ~(nav.view # "list" /\ ws # <<>>) => n.agent = 1
      /\ nav.view # "list" /\ ws # <<>> =>
           Selects(n, PhasesOf(CurrentIn(ws, n))[n.phase].title, PhasesOf(CurrentIn(ws, n)))
  <2>1. /\ n \in Navs /\ n.view = anchored.view /\ n.focus = anchored.focus /\ n.run = anchored.run
        /\ ~(anchored.view # "list" /\ ws # <<>>) => n.agent = 1
        /\ anchored.view # "list" /\ ws # <<>> =>
             Selects(n, PhasesOf(CurrentIn(ws, anchored))[n.phase].title, PhasesOf(CurrentIn(ws, anchored)))
    BY <1>2, <1>3, NormalizedIs DEF DashInv
  <2>2. CurrentIn(ws, anchored) = CurrentIn(ws, n)
    BY <2>1 DEF CurrentIn
  <2> QED  BY <1>3, <2>1, <2>2
<1> HIDE DEF n, run
<1>5. /\ nav' \in Navs /\ nav'.view = nav.view /\ nav'.focus = nav.focus
      /\ IF launched \in RunsOf(ws) THEN nav'.phase = 1 /\ nav'.agent = 1 ELSE nav' = n
  <2>1. CASE launched \in RunsOf(ws)
    <3>1. nav' = [n EXCEPT !.run = FlatIndex(ws, launched), !.phase = 1, !.agent = 1]
      BY <1>1, <2>1 DEF OpenNew
    <3>2. FlatIndex(ws, launched) \in Places
      <4>1. FlatIndex(ws, launched) \in 1 .. Len(ws)
        BY <1>2, <2>1, PlaceOfRun
      <4> QED  BY <4>1 DEF Places
    <3>3. nav' \in Navs
      <4>1. 1 \in Places
        BY DEF Places
      <4>2. PICK place \in Places : place = FlatIndex(ws, launched)
        BY <3>2
      <4>3. [n EXCEPT !.run = place, !.phase = 1, !.agent = 1] \in Navs
        BY <1>4, <4>1 DEF Navs
      <4> QED  BY <3>1, <4>2, <4>3
    <3>4. n.view = nav.view /\ n.focus = nav.focus /\ n \in Navs
      BY <1>4
    <3>5. nav'.view = n.view /\ nav'.focus = n.focus /\ nav'.phase = 1 /\ nav'.agent = 1
      BY <3>1, <3>4 DEF Navs
    <3> QED  BY <2>1, <3>3, <3>4, <3>5
  <2>2. CASE launched \notin RunsOf(ws)
    BY <1>1, <1>4, <2>2 DEF OpenNew
  <2> QED  BY <2>1, <2>2
<1>13. chosen' \in Titles \cup {Nothing}
  <2>1. CASE nav.view # "list" /\ ws # <<>>
    <3>1. CurrentIn(ws, n) \in RunsOf(ws) /\ CurrentIn(ws, n) \in Runs
      BY <1>2, <1>4, <2>1, CurrentIsListed
    <3>2. Detail(CurrentIn(ws, n)) \in Records
      BY <1>2, <3>1, DetailIsWide DEF DashInv
    <3>3. n.phase \in DOMAIN PhasesOf(CurrentIn(ws, n)) /\ PhasesOf(CurrentIn(ws, n)) \in Phases
      BY <1>4, <2>1, <3>2, ShapesAre DEF PhasesOf, Selects
    <3> QED  BY <1>1, <3>3, PhasesAre
  <2>2. CASE ~(nav.view # "list" /\ ws # <<>>)
    <3>1. n.agent = 1
      BY <1>4, <2>2
    <3> QED  BY <1>1, <1>5, <3>1
  <2> QED  BY <2>1, <2>2
<1>6. FileTypes' /\ Histories' /\ LoopTypes' /\ ViewTypes'
  BY <1>1, <1>2, <1>5, <1>13
     DEF DashInv, FileTypes, Histories, LoopTypes, ViewTypes, Fitting, ToSet, IsInjective
<1>7. /\ details' \in [Runs -> Entries] /\ DetailsLag'
      /\ IF nav.view # "list" /\ ws # <<>>
         THEN Floors' = [Floors EXCEPT ![CurrentIn(ws, n)] = Detail(CurrentIn(ws, n))]
         ELSE Floors' = Floors
  <2>1. CASE nav.view # "list" /\ ws # <<>>
    <3>1. CurrentIn(ws, n) \in Runs /\ DetailRead(CurrentIn(ws, n))
      BY <1>1, <1>2, <1>4, <2>1, CurrentIsListed
    <3> QED  BY <1>2, <2>1, <3>1, DetailIsFloor DEF DashInv
  <2>2. CASE ~(nav.view # "list" /\ ws # <<>>)
    <3>1. UNCHANGED details
      BY <1>1, <1>4, <2>2
    <3> QED  BY <1>2, <2>2, <3>1 DEF DashInv, ReadTypes, DetailsLag, Active, Within, Floors
  <2> QED  BY <2>1, <2>2
<1>8. ReadTypes'
  <2>1. cache' \in [Runs -> Entries] /\ loading' = NoLoad
    BY <1>1 DEF EndLoad, DashInv, ReadTypes, Entries
  <2> QED  BY <1>7, <2>1 DEF ReadTypes, NoLoad
<1>9. ws # <<>> => order # <<>> /\ Limit # 0
  BY DEF DashInv, Listed
<1>10. nav.view # "list" => ws # <<>>
  BY <1>1 DEF DashInv, Listed, EndLoad
<1>11. Listed'
  <2>1. loading'.todo = <<>> /\ loading'.views = <<>> /\ workflows' = ws
    BY <1>1 DEF EndLoad, NoLoad
  <2>2. \A r \in RunsOf(loading.views)' \cup RunsOf(workflows)' : file'[r] # Nothing
    BY <1>2, <2>1 DEF RunsOf
  <2>3. pc' # "loading" /\ file' = file /\ order' = order
    BY <1>1, <1>2
  <2> QED  BY <1>5, <1>9, <1>10, <2>1, <2>2, <2>3 DEF Listed
<1>12. Selected'
  <2> SUFFICES ASSUME nav'.view # "list" PROVE Selects(nav', chosen', Floors'[CurrentIn(ws, nav')].shape.phases)
    BY <1>1 DEF Selected, Selects, CurrentRun, CurrentIn
  <2>1. ws # <<>> /\ nav.view # "list"
    BY <1>5, <1>10
  <2>2. CASE launched \in RunsOf(ws)
    <3>1. CurrentIn(ws, nav') \in RunsOf(ws) /\ CurrentIn(ws, nav') \in Runs
      BY <1>2, <1>5, <2>1, CurrentIsListed
    <3>2. Floors'[CurrentIn(ws, nav')] \in Records
      BY <1>2, <1>6, <1>8, <3>1, FloorIsRecord
    <3>3. 1 \in DOMAIN Floors'[CurrentIn(ws, nav')].shape.phases
      BY <3>2, ShapesAre DEF Phases
    <3> QED  BY <1>5, <2>2, <3>3 DEF Selects
  <2>3. CASE launched \notin RunsOf(ws)
    <3>1. nav' = n /\ CurrentIn(ws, n) \in Runs
      BY <1>2, <1>4, <1>5, <2>1, <2>3, CurrentIsListed
    <3>2. Floors'[CurrentIn(ws, n)] = Detail(CurrentIn(ws, n))
      BY <1>7, <2>1, <3>1 DEF Floors
    <3> QED  BY <1>1, <1>4, <2>1, <3>1, <3>2 DEF PhasesOf, Selects
  <2> QED  BY <2>2, <2>3
<1> QED  BY <1>6, <1>7, <1>8, <1>11, <1>12 DEF DashInv

-----------------------------------------------------------------------------
(* Keys. *)

(* A look at a listed run in detail. *)
LEMMA LookedAt ==
  ASSUME DashInv, UNCHANGED file, NEW r \in RunsOf(workflows), DetailRead(r)
  PROVE  /\ details' \in [Runs -> Entries] /\ DetailsLag'
         /\ r \in Runs /\ file[r] # Nothing /\ Detail(r) \in Records
         /\ Floors' = [Floors EXCEPT ![r] = Detail(r)] /\ Floors'[r] = Detail(r)
         /\ Within(Floors[r].shape, Detail(r).shape)
<1>1. r \in Runs /\ file[r] # Nothing
  BY RunsOfViews DEF DashInv, ViewTypes, Listed
<1>2. /\ details' \in [Runs -> Entries] /\ DetailsLag'
      /\ Floors' = [Floors EXCEPT ![r] = Detail(r)]
  BY <1>1, DetailIsFloor DEF DashInv
<1>3. Floors'[r] = Detail(r)
  BY <1>1, <1>2 DEF Floors
<1> QED  BY <1>1, <1>2, <1>3, DetailIsWide DEF DashInv

(* A key changes the place in the views, which must stay a place. *)
LEMMA KeyKeepsDash ==
  ASSUME DashInv, NEW n, NEW title \in Titles \cup {Nothing}, HandleKey(n, title), Fitting(n),
         details' \in [Runs -> Entries], DetailsLag',
         n.view # "list" => workflows # <<>> /\ Selects(n, title, Floors'[CurrentIn(workflows, n)].shape.phases)
  PROVE  DashInv'
<1>1. /\ nav' = n /\ chosen' = IF n.agent = 1 THEN Nothing ELSE title
      /\ UNCHANGED <<filesVars, cache, loading, loopVars, workflows, opened>>
  BY DEF HandleKey
<1>2. FileTypes' /\ Histories' /\ ReadTypes' /\ LoopTypes' /\ ViewTypes'
  BY <1>1 DEF DashInv, FileTypes, Histories, ReadTypes, LoopTypes, ViewTypes, Fitting, ToSet, IsInjective, loopVars
<1>3. Listed'
  BY <1>1 DEF DashInv, Listed, RunsOf, loopVars
<1>4. Selected'
  BY <1>1 DEF Selected, Selects, CurrentRun, CurrentIn
<1> QED  BY <1>2, <1>3, <1>4 DEF DashInv

LEMMA KeyInListKeepsDash ==
  ASSUME DashInv, NEW n, HandleKey(n, chosen), UNCHANGED details, Fitting(n), n.view = "list"
  PROVE  DashInv'
<1>1. details' \in [Runs -> Entries] /\ DetailsLag'
  BY DEF DashInv, ReadTypes, DetailsLag, HandleKey, Active, Within
<1>2. chosen \in Titles \cup {Nothing}
  BY DEF DashInv, ViewTypes
<1> QED  BY <1>1, <1>2, KeyKeepsDash

LEMMA AtCursorIsRow ==
  ASSUME DashInv, AllItems # <<>>
  PROVE  /\ AtCursor \in Rows(workflows, nav.expanded)
         /\ AtCursor.key \in {SessionOf[r] : r \in Runs}
         /\ \E i \in 1 .. Len(AllItems) : AllItems[i] = AtCursor
<1>1. workflows \in Seq(Views) /\ nav.cursor \in Nat
  BY DEF DashInv, ViewTypes, Fitting, Navs, Places
<1>2. AllItems \in Seq(Rows(workflows, nav.expanded))
  BY <1>1, ItemsAreRows DEF AllItems
<1>3. Len(AllItems) \in Nat /\ Len(AllItems) # 0
  BY <1>2
<1>4. Clamp(nav.cursor, Len(AllItems)) \in 1 .. Len(AllItems)
  BY <1>1, <1>3, ClampIs
<1>5. AtCursor \in Rows(workflows, nav.expanded)
  BY <1>2, <1>4 DEF AtCursor
<1>6. AtCursor.key \in Keys(workflows)
  BY <1>5, RowIs
<1> QED  BY <1>1, <1>4, <1>5, <1>6, RunsOfViews DEF Keys, AtCursor

LEMMA KeysInListKeepDash ==
  DashInv /\ (ExpandGroup \/ CollapseRun \/ CollapseGroup \/ \E to \in Beside(nav.cursor) : MoveList(to)) => DashInv'
<1> SUFFICES ASSUME DashInv, ExpandGroup \/ CollapseRun \/ CollapseGroup \/ \E to \in Beside(nav.cursor) : MoveList(to)
             PROVE  DashInv'
  OBVIOUS
<1>1. Fitting(nav) /\ nav.cursor \in Places /\ nav.expanded \in SUBSET {SessionOf[r] : r \in Runs}
  BY DEF DashInv, ViewTypes, Fitting, Navs
<1>2. Len(AllItems) \in Nat
  BY ItemsAreRows DEF DashInv, ViewTypes, AllItems
<1>3. ASSUME NEW cursor \in Places, NEW expanded \in SUBSET {SessionOf[r] : r \in Runs}
      PROVE  /\ Fitting([nav EXCEPT !.cursor = cursor, !.expanded = expanded])
             /\ Fitting([nav EXCEPT !.cursor = cursor]) /\ Fitting([nav EXCEPT !.expanded = expanded])
             /\ [nav EXCEPT !.cursor = cursor, !.expanded = expanded].view = nav.view
             /\ [nav EXCEPT !.cursor = cursor].view = nav.view /\ [nav EXCEPT !.expanded = expanded].view = nav.view
  BY <1>1 DEF Fitting, Navs
<1>4. ASSUME NEW to \in Beside(nav.cursor), MoveList(to) PROVE DashInv'
  <2> DEFINE cursor == Clamp(to, Len(AllItems))
  <2>1. to \in Nat
    BY <1>1 DEF Beside, Places
  <2>2. cursor \in Places
    BY <1>2, <2>1, ClampIs
  <2>3. nav.view = "list" /\ UNCHANGED details /\ HandleKey([nav EXCEPT !.cursor = cursor], chosen)
    BY <1>4 DEF MoveList
  <2> HIDE DEF cursor
  <2> QED  BY <1>1, <1>3, <2>2, <2>3, KeyInListKeepsDash
<1>5. CASE ExpandGroup
  <2>1. nav.view = "list" /\ UNCHANGED details /\ AllItems # <<>>
    BY <1>5 DEF ExpandGroup, OnItem
  <2>2. nav.cursor + 1 \in Places /\ nav.expanded \cup {AtCursor.key} \in SUBSET {SessionOf[r] : r \in Runs}
    BY <1>1, <2>1, AtCursorIsRow DEF Places
  <2>3. \/ HandleKey([nav EXCEPT !.expanded = nav.expanded \cup {AtCursor.key}], chosen)
        \/ HandleKey([nav EXCEPT !.cursor = nav.cursor + 1], chosen)
    BY <1>5 DEF ExpandGroup
  <2> QED  BY <1>1, <1>3, <2>1, <2>2, <2>3, KeyInListKeepsDash
<1>6. CASE CollapseRun
  <2> DEFINE cursor == SelectInSeq(AllItems, LAMBDA i : i.key = AtCursor.key)
             I == {i \in 1 .. Len(AllItems) : AllItems[i].key = AtCursor.key}
  <2>1. nav.view = "list" /\ UNCHANGED details /\ AllItems # <<>>
    BY <1>6 DEF CollapseRun, OnItem
  <2>2. I \in SUBSET Nat /\ I # {} /\ 0 \notin I
    BY <2>1, AtCursorIsRow
  <2>3. cursor = Min(I)
    BY <2>2 DEF SelectInSeq
  <2>4. cursor \in Places
    <3> HIDE DEF I, cursor
    <3> QED  BY <2>2, <2>3, Smallest DEF Places
  <2>5. nav.expanded \ {AtCursor.key} \in SUBSET {SessionOf[r] : r \in Runs}
    BY <1>1
  <2>6. HandleKey([nav EXCEPT !.cursor = cursor, !.expanded = nav.expanded \ {AtCursor.key}], chosen)
    BY <1>6 DEF CollapseRun
  <2> HIDE DEF cursor
  <2> QED  BY <1>1, <1>3, <2>1, <2>4, <2>5, <2>6, KeyInListKeepsDash
<1>7. CASE CollapseGroup
  <2>1. nav.view = "list" /\ UNCHANGED details
        /\ HandleKey([nav EXCEPT !.expanded = nav.expanded \ {AtCursor.key}], chosen)
    BY <1>7 DEF CollapseGroup, OnItem
  <2>2. nav.expanded \ {AtCursor.key} \in SUBSET {SessionOf[r] : r \in Runs}
    BY <1>1
  <2> QED  BY <1>1, <1>3, <2>1, <2>2, KeyInListKeepsDash
<1> QED  BY <1>4, <1>5, <1>6, <1>7

(* What the open run shows. *)
LEMMA OpenIsSelected ==
  ASSUME DashInv, nav.view # "list"
  PROVE  /\ workflows # <<>> /\ CurrentRun \in RunsOf(workflows)
         /\ PhasesOfCurrent \in Phases /\ PhasesOfCurrent # <<>>
         /\ Selects(nav, chosen, PhasesOfCurrent)
         /\ PhaseAt(nav.phase) = PhasesOfCurrent[nav.phase] /\ AgentsOfPhase \in Nat
         /\ AgentsOfPhase = PhasesOfCurrent[nav.phase].agents
         /\ \A i \in DOMAIN PhasesOfCurrent :
              PhasesOfCurrent[i].title = PhasesOfCurrent[nav.phase].title => i = nav.phase
<1>1. workflows # <<>> /\ workflows \in Seq(Views) /\ nav \in Navs
  BY DEF DashInv, Listed, ViewTypes, Fitting
<1>2. CurrentRun \in RunsOf(workflows) /\ CurrentRun \in Runs
  BY <1>1, CurrentIsListed DEF CurrentRun
<1>3. /\ Detail(CurrentRun) \in Records /\ Floors[CurrentRun] \in Records
      /\ Within(Floors[CurrentRun].shape, Detail(CurrentRun).shape)
  BY <1>2, DetailIsWide DEF DashInv, Listed
<1>4. /\ PhasesOfCurrent \in Phases /\ PhasesOfCurrent # <<>>
      /\ \A i, j \in DOMAIN PhasesOfCurrent : PhasesOfCurrent[i].title = PhasesOfCurrent[j].title => i = j
  BY <1>3, ShapesAre DEF PhasesOfCurrent, PhasesOf
<1>5. Selects(nav, chosen, PhasesOfCurrent)
  BY <1>1, <1>3, StaysSelected DEF PhasesOfCurrent, PhasesOf, DashInv, Selected
<1>6. nav.phase \in DOMAIN PhasesOfCurrent
  BY <1>5 DEF Selects
<1>7. Clamp(nav.phase, Len(PhasesOfCurrent)) = nav.phase
  <2>1. Len(PhasesOfCurrent) \in Nat /\ DOMAIN PhasesOfCurrent = 1 .. Len(PhasesOfCurrent)
    BY <1>4 DEF Phases
  <2>2. nav.phase \in Nat /\ nav.phase \in 1 .. Len(PhasesOfCurrent)
    BY <1>6, <2>1
  <2> QED  BY <2>1, <2>2, ClampIs
<1>8. PhaseAt(nav.phase) = PhasesOfCurrent[nav.phase] /\ PhasesOfCurrent[nav.phase].agents \in Nat
  BY <1>4, <1>6, <1>7, PhasesAre DEF PhaseAt
<1> QED  BY <1>1, <1>2, <1>4, <1>5, <1>6, <1>8 DEF AgentsOfPhase

LEMMA KeyOnRunKeepsDash ==
  ASSUME DashInv, nav.view # "list", NEW n, NEW title \in Titles \cup {Nothing},
         HandleKey(n, title), Fitting(n), n.run = nav.run,
         \/ DetailRead(CurrentRun) /\ Selects(n, title, PhasesOfCurrent)
         \/ UNCHANGED details /\ n.phase = nav.phase /\ n.agent = nav.agent /\ title = chosen
  PROVE  DashInv'
<1>1. UNCHANGED file /\ CurrentIn(workflows, n) = CurrentRun
  BY DEF HandleKey, CurrentRun, CurrentIn
<1>2. workflows # <<>> /\ CurrentRun \in RunsOf(workflows)
  BY OpenIsSelected
<1>3. CASE DetailRead(CurrentRun) /\ Selects(n, title, PhasesOfCurrent)
  <2>1. details' \in [Runs -> Entries] /\ DetailsLag' /\ Floors'[CurrentRun] = Detail(CurrentRun)
    BY <1>1, <1>2, <1>3, LookedAt
  <2> QED  BY <1>1, <1>2, <1>3, <2>1, KeyKeepsDash DEF PhasesOfCurrent, PhasesOf
<1>4. CASE UNCHANGED details /\ n.phase = nav.phase /\ n.agent = nav.agent /\ title = chosen
  <2>1. details' \in [Runs -> Entries] /\ DetailsLag' /\ Floors' = Floors
    BY <1>1, <1>4 DEF DashInv, ReadTypes, DetailsLag, Active, Within, Floors
  <2>2. Selects(n, title, Floors[CurrentRun].shape.phases)
    BY <1>4 DEF DashInv, Selected, Selects
  <2> QED  BY <1>1, <1>2, <2>1, <2>2, KeyKeepsDash
<1> QED  BY <1>3, <1>4

LEMMA KeysOnRunKeepDash ==
  DashInv /\ (\/ \E to \in Beside(nav.phase) : MovePhases(to)
              \/ \E to \in Beside(nav.agent) : MoveAgents(to)
              \/ EnterPhase \/ EnterAgent \/ Back) => DashInv'
<1> SUFFICES ASSUME DashInv,
                    \/ \E to \in Beside(nav.phase) : MovePhases(to)
                    \/ \E to \in Beside(nav.agent) : MoveAgents(to)
                    \/ EnterPhase \/ EnterAgent \/ Back
             PROVE  DashInv'
  OBVIOUS
<1> DEFINE Kept(n, title) ==
             \/ DetailRead(CurrentRun) /\ Selects(n, title, PhasesOfCurrent)
             \/ UNCHANGED details /\ n.phase = nav.phase /\ n.agent = nav.agent /\ title = chosen
           Handled(n, title) ==
             HandleKey(n, title) /\ Fitting(n) /\ n.run = nav.run /\ Kept(n, title)
<1>1. /\ Fitting(nav) /\ nav \in Navs /\ nav.phase \in Places /\ nav.agent \in Places /\ 1 \in Places
      /\ chosen \in Titles \cup {Nothing}
  BY DEF DashInv, ViewTypes, Fitting, Navs, Places
<1>2. nav.view # "list"
  BY DEF MovePhases, MoveAgents, EnterPhase, EnterAgent, Back
<1>3. /\ PhasesOfCurrent \in Phases /\ PhasesOfCurrent # <<>> /\ Selects(nav, chosen, PhasesOfCurrent)
      /\ PhaseAt(nav.phase) = PhasesOfCurrent[nav.phase] /\ PhaseAt(nav.phase).title \in Titles
      /\ AgentsOfPhase = PhasesOfCurrent[nav.phase].agents /\ AgentsOfPhase \in Nat
  BY <1>2, OpenIsSelected, PhasesAre DEF Selects
<1>4. ASSUME NEW to \in Beside(nav.phase), MovePhases(to)
      PROVE  \E n \in Navs, title \in Titles \cup {Nothing} : Handled(n, title)
  <2> DEFINE phase == Clamp(to, Len(PhasesOfCurrent))
             n == [nav EXCEPT !.phase = phase, !.agent = 1]
  <2>1. to \in Nat
    BY <1>1 DEF Beside, Places
  <2>2. /\ Len(PhasesOfCurrent) \in Nat /\ Len(PhasesOfCurrent) # 0
        /\ DOMAIN PhasesOfCurrent = 1 .. Len(PhasesOfCurrent)
    BY <1>3 DEF Phases
  <2>3. phase \in Places /\ phase \in DOMAIN PhasesOfCurrent
    BY <2>1, <2>2, ClampIs
  <2>4. HandleKey(n, PhaseAt(to).title) /\ DetailRead(CurrentRun) /\ PhaseAt(to).title \in Titles
    BY <1>3, <1>4, <2>3, PhasesAre DEF MovePhases, PhaseAt
  <2> HIDE DEF phase
  <2>5. n \in Navs /\ n.phase = phase /\ n.agent = 1 /\ n.run = nav.run /\ n.view = nav.view /\ n.focus = nav.focus
    BY <1>1, <2>3 DEF Navs
  <2> HIDE DEF n
  <2>6. Fitting(n) /\ Selects(n, PhaseAt(to).title, PhasesOfCurrent)
    BY <1>1, <2>3, <2>5 DEF Fitting, Selects
  <2> QED  BY <2>4, <2>5, <2>6
<1>5. ASSUME NEW to \in Beside(nav.agent), MoveAgents(to)
      PROVE  \E n \in Navs, title \in Titles \cup {Nothing} : Handled(n, title)
  <2> DEFINE agent == Clamp(to, AgentsOfPhase)
             n == [nav EXCEPT !.agent = agent]
  <2>1. to \in Nat
    BY <1>1 DEF Beside, Places
  <2>2. agent \in Places /\ (agent = 1 \/ agent <= AgentsOfPhase)
    <3>1. PICK agents \in Nat : agents = AgentsOfPhase
      BY <1>3
    <3> QED  BY <2>1, <3>1, ClampIs
  <2>3. HandleKey(n, PhaseAt(nav.phase).title) /\ DetailRead(CurrentRun)
    BY <1>5 DEF MoveAgents
  <2> HIDE DEF agent
  <2>4. /\ n \in Navs /\ n.phase = nav.phase /\ n.agent = agent
        /\ n.run = nav.run /\ n.view = nav.view /\ n.focus = nav.focus
    BY <1>1, <2>2 DEF Navs
  <2> HIDE DEF n
  <2>5. Fitting(n) /\ Selects(n, PhaseAt(nav.phase).title, PhasesOfCurrent)
    BY <1>1, <1>3, <2>2, <2>4 DEF Fitting, Selects
  <2> QED  BY <1>3, <2>3, <2>4, <2>5
<1>6. ASSUME EnterPhase
      PROVE  \E n \in Navs, title \in Titles \cup {Nothing} : Handled(n, title)
  <2> DEFINE n == [nav EXCEPT !.focus = "agents", !.agent = 1]
  <2>1. DetailRead(CurrentRun) /\ nav.view = "workflow" /\ (HandleKey(nav, chosen) \/ HandleKey(n, PhaseAt(nav.phase).title))
    BY <1>6 DEF EnterPhase
  <2>2. n \in Navs /\ n.phase = nav.phase /\ n.agent = 1 /\ n.run = nav.run /\ n.view = nav.view /\ n.focus = "agents"
    BY <1>1 DEF Navs
  <2> HIDE DEF n
  <2>3. Fitting(n) /\ Selects(n, PhaseAt(nav.phase).title, PhasesOfCurrent)
    BY <1>3, <2>1, <2>2 DEF Fitting, Selects
  <2> QED  BY <1>1, <1>3, <2>1, <2>2, <2>3
<1>7. ASSUME EnterAgent \/ Back
      PROVE  \E n \in Navs, title \in Titles \cup {Nothing} : Handled(n, title)
  <2>1. UNCHANGED details /\ HandleKey(nav', chosen)
    BY <1>7 DEF EnterAgent, Back, HandleKey
  <2>2. \/ nav.view = "workflow" /\ nav.focus = "agents" /\ nav' = [nav EXCEPT !.view = "agent"]
        \/ nav.view = "agent" /\ nav.focus = "agents" /\ nav' = [nav EXCEPT !.focus = "detail"]
        \/ nav.view = "agent" /\ nav.focus = "detail" /\ nav' = [nav EXCEPT !.focus = "agents"]
        \/ nav.view = "agent" /\ nav.focus = "agents" /\ nav' = [nav EXCEPT !.view = "workflow"]
        \/ nav.view = "workflow" /\ nav.focus = "agents" /\ nav' = [nav EXCEPT !.focus = "phases"]
        \/ nav.view = "workflow" /\ nav.focus = "phases" /\ nav' = [nav EXCEPT !.view = "list"]
    <3>1. /\ nav.view \in {"workflow", "agent"} /\ nav.focus \in {"phases", "agents", "detail"}
          /\ nav.view = "workflow" => nav.focus # "detail"
          /\ nav.view = "agent" => nav.focus # "phases"
      BY <1>1, <1>2 DEF Fitting, Navs
    <3>2. CASE EnterAgent
      BY <3>1, <3>2 DEF EnterAgent, HandleKey
    <3>3. CASE Back
      BY <3>1, <3>3 DEF Back, HandleKey
    <3> QED  BY <1>7, <3>2, <3>3
  <2>3. nav' \in Navs /\ Fitting(nav') /\ nav'.run = nav.run /\ nav'.phase = nav.phase /\ nav'.agent = nav.agent
    BY <1>1, <2>2 DEF Fitting, Navs
  <2> QED  BY <1>1, <2>1, <2>3
<1>8. PICK n \in Navs, title \in Titles \cup {Nothing} : Handled(n, title)
  BY <1>4, <1>5, <1>6, <1>7
<1> QED  BY <1>2, <1>8, KeyOnRunKeepsDash

LEMMA OpenRunKeepsDash == DashInv /\ OpenRun => DashInv'
<1> SUFFICES ASSUME DashInv, OpenRun PROVE DashInv'
  OBVIOUS
<1> DEFINE r == AtCursor.run
           run == FlatIndex(workflows, r)
           phases == Detail(r).shape.phases
           phase == ActivePhase(Detail(r).shape)
           n == [nav EXCEPT !.view = "workflow", !.run = run, !.phase = phase, !.agent = 1, !.focus = "phases"]
<1>1. AllItems # <<>> /\ AtCursor.kind = "run" /\ DetailRead(r)
      /\ HandleKey(n, phases[phase].title) /\ UNCHANGED file
  BY DEF OpenRun, OnItem, HandleKey
<1>2. r \in RunsOf(workflows) /\ workflows \in Seq(Views) /\ nav \in Navs
  BY <1>1, AtCursorIsRow, RowIs DEF DashInv, ViewTypes, Fitting
<1> HIDE DEF r
<1>3. /\ details' \in [Runs -> Entries] /\ DetailsLag'
      /\ Detail(r) \in Records /\ Floors'[r] = Detail(r)
  BY <1>1, <1>2, LookedAt
<1>4. run \in 1 .. Len(workflows) /\ Len(workflows) \in Nat
  BY <1>2, PlaceOfRun
<1>5. phases \in Phases /\ phases # <<>> /\ DOMAIN phases = 1 .. Len(phases) /\ Len(phases) \in Nat
  <2>1. phases \in Phases /\ phases # <<>>
    BY <1>3, ShapesAre
  <2> HIDE DEF phases
  <2> QED  BY <2>1, PhasesAre
<1>6. run \in Places /\ phase \in Places /\ 1 \in Places /\ phase \in DOMAIN phases
  <2>1. 1 \in DOMAIN phases
    BY <1>5
  <2>2. phase \in DOMAIN phases
    BY <2>1 DEF ActivePhase
  <2> HIDE DEF phase, phases
  <2> QED  BY <1>4, <1>5, <2>2 DEF Places
<1>10. phases[phase].title \in Titles
  BY <1>5, <1>6, PhasesAre
<1> HIDE DEF run, phase
<1>7. n \in Navs /\ n.view = "workflow" /\ n.focus = "phases" /\ n.run = run /\ n.phase = phase /\ n.agent = 1
  BY <1>2, <1>6 DEF Navs
<1> HIDE DEF n
<1>8. Fitting(n) /\ Selects(n, phases[phase].title, phases)
  BY <1>6, <1>7 DEF Fitting, Selects
<1>9. CurrentIn(workflows, n) = r /\ workflows # <<>>
  BY <1>2, <1>4, <1>7, FoundAtPlace DEF run
<1> QED  BY <1>1, <1>3, <1>8, <1>9, <1>10, KeyKeepsDash

LEMMA StepsKeepDash == DashInv /\ [Next]_vars => DashInv'
<1>1. ASSUME DashInv, UNCHANGED vars PROVE DashInv'
  <2> USE <1>1 DEF DashInv, vars, storeVars, loopVars, viewVars
  <2>1. FileTypes' /\ Histories' /\ ReadTypes' /\ LoopTypes' /\ ViewTypes'
    BY DEF FileTypes, Histories, ReadTypes, LoopTypes, ViewTypes, Fitting, ToSet, IsInjective
  <2>2. Listed' /\ DetailsLag'
    BY DEF Listed, DetailsLag, Active, Within, RunsOf
  <2>3. Selected'
    BY DEF Selected, Selects, Floors, CurrentRun, CurrentIn
  <2> QED  BY <2>1, <2>2, <2>3
<1> QED  BY <1>1, SavesKeepDash, LoopKeepsDash, FinishLoadKeepsDash, KeysInListKeepDash,
            KeysOnRunKeepDash, OpenRunKeepsDash DEF Next, LoadStep, KeyStep, Move

LEMMA DashStarts == Init => DashInv
<1> SUFFICES ASSUME Init PROVE DashInv
  OBVIOUS
<1> USE DEF Init, StoreInit, NoLoad, Idle
<1>1. FileTypes
  BY BoundsAssumption DEF FileTypes, ToSet, IsInjective
<1>6. Histories
  <2>1. stepped \in BOOLEAN /\ overlapped \in BOOLEAN
    BY Zenon
  <2> QED  BY <2>1 DEF Histories
<1>2. ReadTypes /\ LoopTypes /\ DetailsLag
  BY DEF ReadTypes, LoopTypes, DetailsLag, Entries
<1>3. nav \in Navs /\ nav.view = "list" /\ nav.focus = "phases"
  BY DEF Navs, Places
<1>4. ViewTypes /\ Selected
  <2>1. workflows \in Seq(Views) /\ opened \in BOOLEAN
    <3>1. workflows = <<>> /\ opened = FALSE
      OBVIOUS
    <3>2. <<>> \in Seq(Views) /\ FALSE \in BOOLEAN
      OBVIOUS
    <3> QED  BY ONLY <3>1, <3>2
  <2>2. Fitting(nav)
    BY ONLY <1>3 DEF Fitting
  <2>3. Selected
    BY ONLY <1>3 DEF Selected
  <2>4. chosen \in Titles \cup {Nothing}
    OBVIOUS
  <2> QED  BY ONLY <2>1, <2>2, <2>3, <2>4 DEF ViewTypes
<1>5. Listed
  BY DEF Listed, RunsOf
<1> QED  BY <1>1, <1>2, <1>4, <1>5, <1>6 DEF DashInv

(* The variables keep their types, the views and their panes go together    *)
(* (app.py:181-268), each file is listed once, the last saved first         *)
(* (store.py:201-209), and no place in a list is before the first.          *)
THEOREM TypeCorrect == Spec => []TypeOK
<1>1. DashInv => TypeOK
  <2> SUFFICES ASSUME DashInv PROVE TypeOK
    OBVIOUS
  <2>1. ToSet(loading.todo) \subseteq Runs /\ ToSet(loading.views) \subseteq Views /\ ToSet(workflows) \subseteq Views
    BY DEF DashInv, ReadTypes, ViewTypes, ToSet
  <2> QED  BY <2>1 DEF DashInv, FileTypes, Histories, ReadTypes, LoopTypes, ViewTypes, Fitting, TypeOK
<1> QED  BY <1>1, DashStarts, StepsKeepDash, PTL DEF Spec

(* The phase selected in an open run exists in every later reading of it,   *)
(* and under it the agent, unless an announcement has put another phase in  *)
(* its place (model.py:377-392): keys clamp to what they read (app.py:146-  *)
(* 179), a load clamps to the run it then shows (app.py:310-319), a run has *)
(* ever more phases, and each of them with agents keeps them.               *)
THEOREM SelectionIsThere == Spec => []SelectionExists
<1>1. DashInv => SelectionExists
  <2> SUFFICES ASSUME DashInv, nav.view # "list" PROVE SelectionExists
    BY DEF SelectionExists
  <2> QED  BY OpenIsSelected DEF SelectionExists, Selects
<1> QED  BY <1>1, DashStarts, StepsKeepDash, PTL DEF Spec

(* A load leaves the run open that was open (app.py:43-63), wherever it is  *)
(* in the new list, and no key in an open run opens another.                *)
THEOREM TheOpenRunStays == Spec => OpenRunSurvives
<1>1. ASSUME DashInv, FinishLoad, CurrentRun \in RunsOf(loading.views), launched = Nothing
      PROVE  CurrentRun' = CurrentRun
  <2> DEFINE ws == loading.views
             expanded == IF opened THEN nav.expanded ELSE CurrentKey(ws)
             anchored == [nav EXCEPT !.expanded = expanded,
                                     !.run = Anchored(ws, CurrentRun),
                                     !.cursor = Clamp(nav.cursor, Len(Items(ws, expanded)))]
             n == Normalized(anchored, ws)
  <2>1. ws \in Seq(Views) /\ nav \in Navs
    BY <1>1 DEF DashInv, ReadTypes, ViewTypes, Fitting
  <2>2. workflows' = ws /\ nav' = OpenNew(n, ws, launched)
    BY <1>1 DEF FinishLoad
  <2>3. Nothing \notin RunsOf(ws)
    BY <2>1, RunsOfViews, RunsAssumption
  <2>4. nav' = n
    BY <1>1, <2>2, <2>3 DEF OpenNew
  <2>5. anchored.run = Anchored(ws, CurrentRun)
    BY <2>1 DEF Navs
  <2>6. n.run = FlatIndex(ws, CurrentRun)
    <3>1. n.run = anchored.run
      <4>1. DOMAIN anchored = DOMAIN nav
        OBVIOUS
      <4> HIDE DEF anchored
      <4> QED  BY <2>1, <4>1 DEF Normalized, Navs
    <3> QED  BY <1>1, <2>1, <2>5, <3>1, AnchoredPlace
  <2> HIDE DEF n
  <2>7. CurrentIn(ws, n) = CurrentRun
    BY <1>1, <2>1, <2>6, FoundAtPlace
  <2> QED  BY <2>2, <2>4, <2>7 DEF CurrentRun, CurrentIn
<1>2. ASSUME DashInv, [Next]_vars, ~FinishLoad, nav.view # "list"
      PROVE  workflows' = workflows /\ nav'.run = nav.run
  <2>1. nav \in Navs
    BY <1>2 DEF DashInv, ViewTypes, Fitting
  <2>2. CASE Save \/ Load \/ LoadNext \/ ReadLastVersion \/ Poll \/ Draw \/ Control \/ Quit \/ UNCHANGED vars
    BY <2>2 DEF Save, Load, LoadNext, ReadLastVersion, Poll, Draw, Control, Quit, vars, viewVars
  <2>3. CASE Move
    BY <1>2, <2>1, <2>3 DEF Move, MoveList, MovePhases, MoveAgents, HandleKey, Navs
  <2>4. CASE EnterPhase \/ EnterAgent \/ Back
    <3>1. nav.focus \in {"phases", "agents", "detail"} /\ nav.view \in {"workflow", "agent"}
      BY <1>2, <2>1 DEF Navs
    <3>2. CASE EnterPhase \/ EnterAgent
      BY <2>1, <3>2 DEF EnterPhase, EnterAgent, HandleKey, Navs
    <3>3. CASE Back
      BY <2>1, <3>1, <3>3 DEF Back, HandleKey, Navs
    <3> QED  BY <2>4, <3>2, <3>3
  <2>5. ~(ExpandGroup \/ CollapseRun \/ CollapseGroup \/ OpenRun)
    BY <1>2 DEF ExpandGroup, CollapseRun, CollapseGroup, OpenRun, OnItem
  <2> QED  BY <1>2, <2>2, <2>3, <2>4, <2>5 DEF Next, LoadStep, KeyStep
<1>3. ASSUME DashInv, [Next]_vars
      PROVE  [nav.view # "list" /\ CurrentRun \in RunsOf(workflows') /\ launched = Nothing
                => CurrentRun' = CurrentRun]_vars
  <2>1. CASE FinishLoad
    BY <1>1, <1>3, <2>1 DEF FinishLoad
  <2>2. CASE ~FinishLoad
    BY <1>2, <1>3, <2>2 DEF CurrentRun, CurrentIn
  <2> QED  BY <2>1, <2>2
<1> QED  BY <1>3, DashStarts, StepsKeepDash, PTL DEF Spec, OpenRunSurvives
=============================================================================
