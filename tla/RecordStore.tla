------------------------------ MODULE RecordStore ------------------------------
(***************************************************************************)
(* The record files and the version counter of storage/store.py, and the   *)
(* cached reading of them in WorkflowRepository (tui/model.py).            *)
(*                                                                         *)
(* Any number of processes save: a save replaces the record, then reads    *)
(* and replaces the counter, and takes no lock.  One process, the          *)
(* dashboard's, reads: it lists the runs' summaries one file after the     *)
(* other, and looks at one run in detail when it needs to.  Both readings  *)
(* keep what they found of ended runs under the counter and the size.  The *)
(* size of a file and its record are read in one step: the reader keeps    *)
(* the size it saw first, and a save in between changes the counter.       *)
(***************************************************************************)
EXTENDS Naturals, Sequences, FiniteSets, SequencesExt

CONSTANTS Runs,      \* run ids, in the order they were started
          Savers,    \* processes that save records
          Sizes,     \* sizes of a record file
          Titles,    \* titles of phases
          Shapes,    \* phases of a record as a view shows them, see IsShape
          Limit,     \* records that are listed
          Nothing,
          MaxSaves,  \* bound on the saves
          MaxFaults  \* bound on the saves that fail and the times the clock is set back

ASSUME RunsAssumption == Runs \subseteq Nat /\ Nothing \notin Runs

(* A run's phases as _phase_views lists them: the ones that the snapshot    *)
(* announces in their order, then those that only agents name; a run with   *)
(* none shows one that has no agents.  Each title is listed once.  The      *)
(* current phase is an announced one.                                       *)
Phases == Seq([title : Titles, agents : Nat])
IsShape(s) ==
  /\ s \in [phases : Phases, announced : Nat, current : Titles \cup {Nothing}]
  /\ s.phases # <<>> /\ s.announced <= Len(s.phases)
  /\ \A i, j \in DOMAIN s.phases : s.phases[i].title = s.phases[j].title => i = j
  /\ s.current # Nothing => \E i \in 1 .. s.announced : s.phases[i].title = s.current
ASSUME ShapesAssumption == \A s \in Shapes : IsShape(s)
ASSUME BoundsAssumption == Limit \in Nat /\ {MaxSaves, MaxFaults} \subseteq Nat

VARIABLES
  file,     \* the record files
  order,    \* the runs that have one, the last saved first
  version,  \* the counter
  clock,    \* the wall clock of all the processes, in nanoseconds
  saving,   \* how far each saver is, for which run, with which version
  saves,    \* saves begun
  faults,   \* faults so far
  stepped,  \* history: the clock has been set back
  overlapped, \* history: a counter was replaced while another saver had read it
  unbumped, \* history: runs replaced by a save that failed, with no bump since
  cache,    \* _view_cache
  details,  \* _detail_cache
  loading   \* the version, the records left and the views of a load

historyVars == <<stepped, overlapped, unbumped>>
filesVars == <<file, order, version, clock, saving, saves, faults, historyVars>>
storeVars == <<filesVars, cache, details, loading>>

Records == [status : {"running", "completed"}, shape : Shapes, size : Sizes]
ASSUME RecordsAssumption == Nothing \notin Records

Active(record) == record.status \in {"queued", "running", "paused", "stopping"}

Idle == [at |-> "idle", run |-> Nothing, version |-> 0]
NoLoad == [version |-> 0, todo |-> <<>>, views |-> <<>>]

StoreInit ==
  /\ file = [r \in Runs |-> Nothing] /\ order = <<>>
  /\ version = 0 /\ clock = 1
  /\ saving = [p \in Savers |-> Idle] /\ saves = 0 /\ faults = 0
  /\ stepped = FALSE /\ overlapped = FALSE /\ unbumped = {}
  /\ cache = [r \in Runs |-> Nothing] /\ details = [r \in Runs |-> Nothing]
  /\ loading = NoLoad

-----------------------------------------------------------------------------
(* save_run().  A run's announced phases keep their places and more come    *)
(* after them, so that those which only agents name may move; a phase with  *)
(* agents stays, and keeps them.  A run's end is an end; the record of an   *)
(* ended run is still rewritten.                                            *)

Within(old, new) ==
  /\ Len(old.phases) <= Len(new.phases)
  /\ \A i \in DOMAIN old.phases : old.phases[i].agents > 0 =>
       \E k \in DOMAIN new.phases : /\ new.phases[k].title = old.phases[i].title
                                    /\ new.phases[k].agents >= old.phases[i].agents
Grows(old, new) ==
  old # Nothing =>
    /\ ~Active(old) => ~Active(new)
    /\ old.shape.announced <= new.shape.announced
    /\ \A i \in 1 .. old.shape.announced : new.shape.phases[i].title = old.shape.phases[i].title
    /\ Within(old.shape, new.shape)

ReplaceRecord(p, r, record) ==
  /\ saving[p] = Idle /\ saves < MaxSaves /\ saves' = saves + 1
  /\ \A q \in Runs : q < r => file[q] # Nothing
  /\ Grows(file[r], record)
  /\ file' = [file EXCEPT ![r] = record]
  /\ order' = <<r>> \o RemoveFirst(order, r)
  /\ saving' = [saving EXCEPT ![p] = [at |-> "replaced", run |-> r, version |-> 0]]
  /\ UNCHANGED <<version, clock, faults, historyVars, cache, details, loading>>

(* A faulty form: the time alone. *)
TimeOnly(now) == now

(* _bump_version: more than the counter, and no less than the time, which   *)
(* no two processes read alike unless it has been set back in between.      *)
NextVersion(now) == IF version >= now THEN version + 1 ELSE now

ReadCounter(p) ==
  /\ saving[p].at = "replaced"
  /\ \E now \in 1 .. clock :
       /\ saving' = [saving EXCEPT ![p] = [at |-> "counted", run |-> saving[p].run,
                                          version |-> NextVersion(now)]]
       /\ clock' = now + 1
       /\ \/ now = clock /\ UNCHANGED <<faults, stepped>>
          \/ now < clock /\ stepped' = TRUE /\ faults < MaxFaults /\ faults' = faults + 1
  /\ UNCHANGED <<file, order, version, saves, overlapped, unbumped, cache, details, loading>>

ReplaceCounter(p) ==
  /\ saving[p].at = "counted"
  /\ version' = saving[p].version
  /\ saving' = [saving EXCEPT ![p] = Idle]
  /\ overlapped' = (overlapped \/ \E q \in Savers \ {p} : saving[q].at = "counted")
  /\ unbumped' = {}
  /\ UNCHANGED <<file, order, clock, saves, faults, stepped, cache, details, loading>>

(* The counter's file cannot be written, or the process ends before it is:  *)
(* the record is replaced and the counter is not.                           *)
SaveFails(p) ==
  /\ saving[p].at # "idle" /\ faults < MaxFaults /\ faults' = faults + 1
  /\ saving' = [saving EXCEPT ![p] = Idle]
  /\ unbumped' = unbumped \cup {saving[p].run}
  /\ UNCHANGED <<file, order, version, clock, saves, stepped, overlapped, cache, details, loading>>

SaveStep == \E p \in Savers : \/ \E r \in Runs, record \in Records : ReplaceRecord(p, r, record)
                              \/ ReadCounter(p) \/ ReplaceCounter(p) \/ SaveFails(p)

-----------------------------------------------------------------------------
(* WorkflowRepository *)

Hit(entries, r, signature) == entries[r] # Nothing /\ entries[r].signature = signature
Found(entries, r, signature) == IF Hit(entries, r, signature) THEN entries[r].record ELSE file[r]
Keep(entries, r, signature) ==
  IF Hit(entries, r, signature) \/ Active(file[r]) THEN entries
  ELSE [entries EXCEPT ![r] = [signature |-> signature, record |-> file[r]]]

(* detail(): one run's full view. *)
Signature(r) == <<version, file[r].size>>
Detail(r) == Found(details, r, Signature(r))
DetailRead(r) == file[r] # Nothing /\ details' = Keep(details, r, Signature(r))

(* load(): the counter, then the listing, then file after file. *)
StartLoad ==
  /\ loading' = [version |-> version, todo |-> SubSeq(order, 1, IF Limit < Len(order) THEN Limit ELSE Len(order)),
                 views |-> <<>>]
  /\ UNCHANGED <<filesVars, cache, details>>

LoadRecord ==
  LET r         == Head(loading.todo)
      signature == <<loading.version, file[r].size>>
      view      == [run |-> r, record |-> Found(cache, r, signature)]
  IN
  /\ loading.todo # <<>>
  /\ loading' = [version |-> loading.version, todo |-> Tail(loading.todo), views |-> Append(loading.views, view)]
  /\ cache' = Keep(cache, r, signature)
  /\ UNCHANGED <<filesVars, details>>

(* What was not listed is forgotten. *)
RunsOf(views) == {views[i].run : i \in DOMAIN views}

EndLoad ==
  /\ loading.todo = <<>>
  /\ cache' = [r \in Runs |-> IF r \in RunsOf(loading.views) THEN cache[r] ELSE Nothing]
  /\ loading' = NoLoad
  /\ UNCHANGED filesVars

ReadStep ==
  \/ StartLoad \/ LoadRecord
  \/ EndLoad /\ (UNCHANGED details \/ \E r \in Runs : DetailRead(r))
  \/ \E r \in Runs : DetailRead(r) /\ UNCHANGED <<filesVars, cache, loading>>

StoreNext == SaveStep \/ ReadStep

-----------------------------------------------------------------------------
BeingSaved(r) == \E p \in Savers : saving[p].at # "idle" /\ saving[p].run = r

(* What a cache would serve of a run that is not just being saved is the    *)
(* record that is there: a save of another process, in whatever order its   *)
(* steps and the reader's fell, changed the counter for good.  Either half  *)
(* of max(counter + 1, time) is enough for that, the time as long as it is  *)
(* not set back, and the counter as long as no two bumps overlap; a record  *)
(* whose save failed before its bump waits for the next one (store.py:      *)
(* 145-152, 180-189; model.py:207-251).                                     *)
CachesAreCurrent ==
  ~(stepped /\ overlapped) =>
    \A r \in Runs \ unbumped : file[r] # Nothing /\ ~BeingSaved(r) =>
      /\ Hit(cache, r, Signature(r)) => cache[r].record = file[r]
      /\ Hit(details, r, Signature(r)) => details[r].record = file[r]

-----------------------------------------------------------------------------
(* What the documentation says and the code does not do. *)

(* store.py:184: consecutive saves are strictly increasing even when two    *)
(* processes bump concurrently or the clock jumps backwards.  The counter   *)
(* is read and replaced without a lock: the later write may be the smaller. *)
VersionsIncrease == [][version' >= version]_storeVars
=============================================================================
