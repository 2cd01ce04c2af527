-------------------------- MODULE TranscriptExport ---------------------------
(***************************************************************************)
(* The live export of child sessions, from run/transcripts.py and its      *)
(* callers in run/manager.py: a reader that follows the host's message     *)
(* table incrementally, and the threads that flush what it read to one     *)
(* transcript and one meta file per session.                               *)
(*                                                                         *)
(* The threads are those that report a child's progress, the exporter's    *)
(* own loop, and the run's thread, which makes the last flush.  A reading  *)
(* is under _lock, a flush under _flush_lock; which thread has a lock is   *)
(* told by pc.  The host's session database is external: it adds messages, *)
(* deactivates and deletes them, and a compaction continues a session in a *)
(* new one.  It does not rewrite the content of a message.                 *)
(***************************************************************************)
EXTENDS Naturals, Sequences, FiniteSets, SequencesExt, FiniteSetsExt

CONSTANTS Targets,      \* children's session ids
          Reporters,    \* threads that report progress
          Loop,         \* the exporter's thread
          Runner,       \* the run's thread
          Nothing,      \* no file, no job
          MaxRows,      \* bounds, for each target: messages of its lineage,
          MaxSessions,  \*   sessions of its lineage,
          MaxReports,   \*   reports of its progress;
          MaxEdits,     \* for all: messages deactivated or deleted,
          MaxFailures   \*   reads and writes that raise

Threads == Reporters \cup {Loop, Runner}

ASSUME ThreadsAssumption == Loop # Runner /\ {Loop, Runner} \cap Reporters = {}
ASSUME BoundsAssumption ==
  /\ {MaxRows, MaxReports} \subseteq [Targets -> Nat] /\ MaxSessions \in [Targets -> Nat \ {0}]
  /\ {MaxEdits, MaxFailures} \subseteq Nat

Sources == {"incremental", "public", "none"}
Transcripts == Seq(Nat \X {"active", "inactive", "torn"})
Sigs == Nat \X {"incremental", "full_fallback"} \X Nat
Jobs == [target : Targets, action : {"read", "rebuild", "append", "unchanged"},
         messages : Transcripts, sig : Sigs \cup {Nothing}]

ASSUME NothingAssumption == Nothing \notin Transcripts /\ Nothing \notin Jobs

VARIABLES
  rows,      \* the messages of each target's lineage; a message's id is its place
  sessions,  \* the sessions of the lineage, counted
  edits,     \* messages deactivated or deleted so far
  source,    \* the database: read incrementally, by its public API only, or none was opened
  closed,    \* the reader was closed
  known,     \* the targets in _targets
  active,    \* those with LiveTranscriptTarget.active
  version,   \* .metadata, counted
  mode,      \* .export_mode
  lineage,   \* .lineage_session_ids, as the number of them
  states,    \* .session_states
  last,      \* .last_message_id
  tsig,      \* .transcript_signature
  msig,      \* .metadata_signature
  file,      \* the transcript files
  meta,      \* the targets that have a meta file
  pc, todo, job,  \* of each thread: its place, the targets left, what it is to write
  stopping,  \* the exporter's stop event
  failures,  \* reads and writes that raised so far
  seen,      \* history: what the last read of each target found
  clean      \* history: the targets whose files missed no write since a rebuild

hostVars   == <<rows, sessions, edits>>
readerVars == <<source, closed, mode, lineage, states, last, tsig>>
targetVars == <<known, active, version>>
fileVars   == <<file, meta, msig, clean>>
threadVars == <<pc, todo, job>>
vars == <<hostVars, readerVars, targetVars, fileVars, threadVars, stopping, failures, seen>>

-----------------------------------------------------------------------------
(* What the reader asks of the database. *)

Ids(t, n) == {i \in DOMAIN rows[t] : rows[t][i].session <= n /\ rows[t][i].state # "deleted"}
Of(t, s)  == {i \in DOMAIN rows[t] : rows[t][i].session = s /\ rows[t][i].state # "deleted"}
IsActive(t, i) == rows[t][i].state = "active"

(* _message_rows: rows of a set of ids in order, as they are exported.      *)
Nth(ids, n) == CHOOSE i \in ids : Cardinality({j \in ids : j < i}) = n - 1
MessageRows(t, ids) ==
  [n \in 1 .. Cardinality(ids) |-> <<Nth(ids, n), rows[t][Nth(ids, n)].state>>]

MinOf(ids) == IF ids = {} THEN 0 ELSE Min(ids)
MaxOf(ids) == IF ids = {} THEN 0 ELSE Max(ids)
OnlyActive(t, ids) == {i \in ids : IsActive(t, i)}

(* _session_states: row count, first and last id, active count, active sum. *)
SessionState(t, s) ==
  LET ids == Of(t, s)
      on  == OnlyActive(t, ids)
  IN <<Cardinality(ids), MinOf(ids), MaxOf(ids), Cardinality(on), SumSet(on)>>

SessionStates(t) == [s \in 1..sessions[t] |-> SessionState(t, s)]

(* A faulty form: counts are compared, not bounds and sums. *)
CountsOnly(t) ==
  \A s \in DOMAIN states[t] :
    LET new == {i \in Of(t, s) : i > last[t]}
    IN SessionState(t, s)[1] = states[t][s][1] + Cardinality(new)

(* _is_append_only: the states are the previous ones plus the new rows.     *)
IsAppendOnly(t) ==
  \A s \in DOMAIN states[t] :
    LET old == states[t][s]
        new == {i \in Of(t, s) : i > last[t]}
        on  == OnlyActive(t, new)
    IN SessionState(t, s) = <<old[1] + Cardinality(new),
                              IF old[1] > 0 THEN old[2] ELSE MinOf(new),
                              IF new # {} THEN MaxOf(new) ELSE old[3],
                              old[4] + Cardinality(on),
                              old[5] + SumSet(on)>>

(* The signature of a meta file leaves out its time. *)
Signature(t, how, n) == <<version[t], how, n>>

-----------------------------------------------------------------------------
Init ==
  /\ rows = [t \in Targets |-> <<>>]
  /\ sessions = [t \in Targets |-> 1]
  /\ edits = 0
  /\ source \in Sources /\ closed = FALSE
  /\ known = {} /\ active = {}
  /\ version = [t \in Targets |-> 0]
  /\ mode = [t \in Targets |-> "pending"]
  /\ lineage = [t \in Targets |-> 0]
  /\ states = [t \in Targets |-> <<>>]
  /\ last = [t \in Targets |-> 0]
  /\ tsig = [t \in Targets |-> Nothing]
  /\ msig = [t \in Targets |-> Nothing]
  /\ file = [t \in Targets |-> Nothing]
  /\ meta = {}
  /\ pc = [f \in Threads |-> "idle"]
  /\ todo = [f \in Threads |-> {}]
  /\ job = [f \in Threads |-> Nothing]
  /\ stopping = FALSE
  /\ failures = 0
  /\ seen = [t \in Targets |-> <<>>]
  /\ clean = {}

-----------------------------------------------------------------------------
(* The host's database.  Once the reader has closed its own, only a reader  *)
(* without one still reads: it opens a database for each reading.           *)
Readable == ~closed \/ source = "none"

HostAppends(t) ==
  /\ Readable /\ Len(rows[t]) < MaxRows[t]
  /\ rows' = [rows EXCEPT ![t] = Append(@, [session |-> sessions[t], state |-> "active"])]
  /\ UNCHANGED <<sessions, edits, readerVars, targetVars, fileVars, threadVars, stopping,
                 failures, seen>>

HostEdits(t, i, state) ==
  /\ Readable /\ edits < MaxEdits /\ edits' = edits + 1
  /\ i \in DOMAIN rows[t] /\ IsActive(t, i)
  /\ rows' = [rows EXCEPT ![t][i].state = state]
  /\ UNCHANGED <<sessions, readerVars, targetVars, fileVars, threadVars, stopping, failures,
                 seen>>

HostCompacts(t) ==
  /\ Readable /\ sessions[t] < MaxSessions[t] /\ Of(t, sessions[t]) # {}
  /\ sessions' = [sessions EXCEPT ![t] = @ + 1]
  /\ UNCHANGED <<rows, edits, readerVars, targetVars, fileVars, threadVars, stopping, failures,
                 seen>>

-----------------------------------------------------------------------------
(* The locks. *)

LockFree == \A f \in Threads : pc[f] # "reading"
Flushing == {"flushing", "reading", "writing"}
FlushLockFree == \A f \in Threads : pc[f] \notin Flushing

Goto(f, place) == pc' = [pc EXCEPT ![f] = place]

(* upsert, for each child of a snapshot that is new (it has a session since *)
(* it runs), whose metadata changed or whose status became terminal: the    *)
(* reporter flushes it.                                                     *)
Report(f, t, on) ==
  /\ version[t] < MaxReports[t]
  /\ f # Loop /\ pc[f] = "idle" /\ LockFree
  /\ on \/ t \in known
  /\ known' = known \cup {t}
  /\ active' = IF on THEN active \cup {t} ELSE active \ {t}
  /\ version' = [version EXCEPT ![t] = @ + 1]
  /\ todo' = [todo EXCEPT ![f] = {t}]
  /\ Goto(f, "waiting")
  /\ UNCHANGED <<hostVars, readerVars, fileVars, job, stopping, failures, seen>>

(* The exporter's loop, every half second: the active targets. *)
Tick ==
  /\ pc[Loop] = "idle" /\ LockFree
  /\ known # {} /\ ~stopping
  /\ active # {}
  /\ todo' = [todo EXCEPT ![Loop] = active]
  /\ Goto(Loop, "waiting")
  /\ UNCHANGED <<hostVars, readerVars, targetVars, fileVars, job, stopping, failures, seen>>

(* _flush_target takes _lock for the whole of the reading, which only the   *)
(* thread with the flush lock does.                                         *)
StartRead(f, t) ==
  /\ t \in todo[f]
  /\ job' = [job EXCEPT ![f] = [target |-> t, action |-> "read", messages |-> <<>>,
                                sig |-> Nothing]]
  /\ Goto(f, "reading")
  /\ UNCHANGED <<hostVars, readerVars, targetVars, fileVars, todo, stopping, failures, seen>>

AcquireFlushLock(f, t) == pc[f] = "waiting" /\ FlushLockFree /\ StartRead(f, t)
NextTarget(f, t) == pc[f] = "flushing" /\ StartRead(f, t)

Reading(f) == pc[f] = "reading"

(* A faulty form: the last flush is not forced. *)
RebuildsUnforced(f, t) == lineage[t] # sessions[t] \/ ~IsAppendOnly(t)

Rebuilds(f, t) == (f = Runner /\ stopping) \/ lineage[t] # sessions[t] \/ ~IsAppendOnly(t)

(* A faulty form: a target's error ends the flush. *)
TargetKept(f) ==
  /\ job' = [job EXCEPT ![f] = Nothing]
  /\ Goto(f, "idle")
  /\ UNCHANGED todo

(* With no target left, flush() gives the lock back and returns, or raises  *)
(* its first error; either way the last flush goes on to close the reader.  *)
TargetDone(f) ==
  /\ todo' = [todo EXCEPT ![f] = @ \ {job[f].target}]
  /\ job' = [job EXCEPT ![f] = Nothing]
  /\ Goto(f, CASE todo[f] # {job[f].target} -> "flushing"
               [] todo[f] = {job[f].target} /\ f = Runner /\ stopping -> "closing"
               [] OTHER -> "idle")

Found(f, t, action, messages, sig) ==
  /\ job' = [job EXCEPT ![f] = [target |-> t, action |-> action, messages |-> messages, sig |-> sig]]
  /\ Goto(f, "writing")

(* _read_incremental: one transaction; the position moves before the files  *)
(* are written.                                                             *)
ReadIncremental(f) ==
  LET t   == job[f].target
      n   == sessions[t]
      new == {i \in Ids(t, n) : i > last[t]}
  IN
  /\ Reading(f)
  /\ source = "incremental" /\ mode[t] # "full_fallback" /\ ~closed
  /\ IF Rebuilds(f, t)
     THEN Found(f, t, "rebuild", MessageRows(t, Ids(t, n)), Signature(t, "incremental", n))
     ELSE Found(f, t, IF new = {} THEN "unchanged" ELSE "append",
                MessageRows(t, new), Signature(t, "incremental", n))
  /\ mode' = [mode EXCEPT ![t] = "incremental"]
  /\ lineage' = [lineage EXCEPT ![t] = n]
  /\ states' = [states EXCEPT ![t] = SessionStates(t)]
  /\ last' = [last EXCEPT ![t] = MaxOf({SessionState(t, s)[3] : s \in 1..n})]
  /\ seen' = [seen EXCEPT ![t] = MessageRows(t, Ids(t, n))]
  /\ UNCHANGED <<hostVars, source, closed, tsig, targetVars, fileVars, todo, stopping, failures>>

(* Without the schema, or from the first exception on, the public API: the  *)
(* messages of the root session, compared by content.  Without a database   *)
(* of its own the reader opens one, and an exception reads as no messages.  *)
FallbackFinds(t, messages) ==
  \/ messages = MessageRows(t, Ids(t, 1))
  \/ source = "none" /\ messages = <<>>

ReadFallback(f) ==
  LET t == job[f].target IN
  /\ Reading(f) /\ Readable
  /\ \/ /\ source # "incremental" \/ mode[t] = "full_fallback"
        /\ UNCHANGED failures
     \/ /\ source = "incremental" /\ mode[t] # "full_fallback"
        /\ failures < MaxFailures /\ failures' = failures + 1
  /\ \E messages \in {MessageRows(t, Ids(t, 1)), <<>>} :
       /\ FallbackFinds(t, messages)
       /\ Found(f, t, IF messages = tsig[t] THEN "unchanged" ELSE "rebuild", messages,
                Signature(t, "full_fallback", 1))
       /\ tsig' = [tsig EXCEPT ![t] = messages]
       /\ seen' = [seen EXCEPT ![t] = messages]
  /\ mode' = [mode EXCEPT ![t] = "full_fallback"]
  /\ lineage' = [lineage EXCEPT ![t] = 1]
  /\ UNCHANGED <<hostVars, source, closed, states, last, targetVars, fileVars, todo, stopping>>

(* The fallback raises too, as both do on a closed database: flush goes on  *)
(* with the next target.  Without a database of its own nothing raises.     *)
ReadFails(f) ==
  LET t == job[f].target IN
  /\ Reading(f) /\ source # "none"
  /\ IF closed THEN UNCHANGED failures
     ELSE failures < MaxFailures /\ failures' = failures + 1
  /\ mode' = [mode EXCEPT ![t] = IF source = "incremental" THEN "full_fallback" ELSE @]
  /\ TargetDone(f)
  /\ UNCHANGED <<hostVars, source, closed, lineage, states, last, tsig, targetVars, fileVars,
                 stopping, seen>>

-----------------------------------------------------------------------------
(* The files. *)

Writing(f) == pc[f] = "writing"
AfterWrite(f) ==
  /\ TargetDone(f)
  /\ UNCHANGED <<hostVars, readerVars, targetVars, stopping, seen>>

Appended(old, messages) == IF old = Nothing THEN messages ELSE old \o messages

(* A rebuild replaces both files; an append adds lines, and the meta file   *)
(* follows if it changed.                                                   *)
Write(f) ==
  LET j == job[f]
      t == j.target
  IN
  /\ Writing(f)
  /\ file' = [file EXCEPT ![t] = CASE j.action = "rebuild" -> j.messages
                                   [] j.action = "append" -> Appended(@, j.messages)
                                   [] j.action = "unchanged" -> @]
  /\ meta' = IF j.action = "rebuild" \/ j.sig # msig[t] THEN meta \cup {t} ELSE meta
  /\ msig' = [msig EXCEPT ![t] = j.sig]
  /\ clean' = IF j.action = "rebuild" THEN clean \cup {t} ELSE clean
  /\ AfterWrite(f)
  /\ UNCHANGED failures

(* A write raises.  A rebuild writes the meta file first; an append may     *)
(* leave a part of its payload; the meta file of an append comes last.      *)
WriteFails(f) ==
  LET j == job[f]
      t == j.target
  IN
  /\ Writing(f)
  /\ failures < MaxFailures /\ failures' = failures + 1
  /\ \/ /\ j.action = "rebuild"
        /\ meta' \in {meta, meta \cup {t}}
        /\ clean' = clean \ {t}
        /\ UNCHANGED file
     \/ /\ j.action = "append"
        /\ file' \in {file, [file EXCEPT ![t] = Append(Appended(@, <<>>), <<0, "torn">>)]}
        /\ clean' = clean \ {t}
        /\ UNCHANGED meta
     \/ /\ j.action = "append" /\ j.sig # msig[t]
        /\ file' = [file EXCEPT ![t] = Appended(@, j.messages)]
        /\ UNCHANGED <<meta, clean>>
     \/ /\ j.action = "unchanged" /\ j.sig # msig[t]
        /\ UNCHANGED <<file, meta, clean>>
  /\ AfterWrite(f)
  /\ UNCHANGED msig

-----------------------------------------------------------------------------
(* The end of the run: stop(final=True), then _export_child_transcripts. *)

(* The stop event, and two seconds for the loop, which may be in a flush.   *)
Stop ==
  /\ pc[Runner] = "idle" /\ ~stopping /\ known # {}
  /\ stopping' = TRUE
  /\ Goto(Runner, "joined")
  /\ UNCHANGED <<hostVars, readerVars, targetVars, fileVars, todo, job, failures, seen>>

StartLastFlush ==
  /\ pc[Runner] = "joined" /\ LockFree
  /\ todo' = [todo EXCEPT ![Runner] = known]
  /\ Goto(Runner, "waiting")
  /\ UNCHANGED <<hostVars, readerVars, targetVars, fileVars, job, stopping, failures, seen>>

(* A faulty form: the last flush waits for the lock as long as it takes. *)
LastFlushWaits == FALSE /\ UNCHANGED vars

(* Thirty seconds without the flush lock: the last flush is abandoned. *)
LastFlushTimesOut ==
  /\ pc[Runner] = "waiting" /\ stopping /\ ~FlushLockFree
  /\ todo' = [todo EXCEPT ![Runner] = {}]
  /\ Goto(Runner, "closing")
  /\ UNCHANGED <<hostVars, readerVars, targetVars, fileVars, job, stopping, failures, seen>>

HasFiles(t) == file[t] # Nothing /\ t \in meta

(* Files stay, so the targets that have both now are passed over later. *)
Close ==
  /\ pc[Runner] = "closing"
  /\ closed' = TRUE
  /\ todo' = [todo EXCEPT ![Runner] = {t \in known : ~HasFiles(t)}]
  /\ Goto(Runner, "exporting")
  /\ UNCHANGED <<hostVars, source, mode, lineage, states, last, tsig, targetVars, fileVars, job,
                 stopping, failures, seen>>

(* A target without both files is written from a database of its own; one   *)
(* that cannot be opened exports no message.                                *)
ExportMissing(t) ==
  /\ pc[Runner] = "exporting" /\ t \in todo[Runner]
  /\ todo' = [todo EXCEPT ![Runner] = @ \ {t}]
  /\ IF HasFiles(t)
     THEN UNCHANGED <<file, meta, clean>>
     ELSE /\ \E messages \in {MessageRows(t, Ids(t, 1)), <<>>} :
               file' = [file EXCEPT ![t] = messages]
          /\ meta' = meta \cup {t}
          /\ clean' = clean \ {t}
  /\ UNCHANGED <<hostVars, readerVars, targetVars, msig, pc, job, stopping, failures, seen>>

(* A write of it raises: the others are not exported. *)
ExportFails ==
  /\ pc[Runner] = "exporting"
  /\ \E t \in todo[Runner] : ~HasFiles(t)
  /\ failures < MaxFailures /\ failures' = failures + 1
  /\ Goto(Runner, "done")
  /\ UNCHANGED <<hostVars, readerVars, targetVars, fileVars, todo, job, stopping, seen>>

Finish ==
  /\ pc[Runner] = "exporting" /\ todo[Runner] = {}
  /\ Goto(Runner, "done")
  /\ UNCHANGED <<hostVars, readerVars, targetVars, fileVars, todo, job, stopping, failures, seen>>

-----------------------------------------------------------------------------
HostStep == \E t \in Targets : \/ HostAppends(t) \/ HostCompacts(t)
                               \/ \E i \in DOMAIN rows[t] : \/ HostEdits(t, i, "inactive")
                                                            \/ HostEdits(t, i, "deleted")
ReadStep(f) == ReadIncremental(f) \/ ReadFallback(f) \/ ReadFails(f)
FlushStep(f) == \E t \in Targets : AcquireFlushLock(f, t) \/ NextTarget(f, t)
WriteStep(f) == Write(f) \/ WriteFails(f)
EndStep == \/ Stop \/ StartLastFlush \/ LastFlushTimesOut \/ Close \/ Finish \/ ExportFails
           \/ \E t \in Targets : ExportMissing(t)
RunnerStep == EndStep \/ FlushStep(Runner) \/ ReadStep(Runner) \/ WriteStep(Runner)
ReportStep(f) == \E t \in Targets, on \in BOOLEAN : Report(f, t, on)

Next ==
  \/ HostStep \/ Tick \/ EndStep
  \/ \E f \in Threads : ReportStep(f) \/ FlushStep(f) \/ ReadStep(f) \/ WriteStep(f)

Spec == Init /\ [][Next]_vars

-----------------------------------------------------------------------------
(* Properties. *)

Exports == Transcripts \cup {Nothing}
Places == Flushing \cup {"idle", "waiting", "joined", "closing", "exporting", "done"}

(* The variables hold what the code's fields can hold, the position is that *)
(* of a message of the lineage that was read, and a thread has a job        *)
(* exactly while it is reading or writing, for a target it has left to do.  *)
TypeOK ==
  /\ rows \in [Targets -> Seq([session : Nat, state : {"active", "inactive", "deleted"}])]
  /\ sessions \in [Targets -> Nat]
  /\ edits \in 0..MaxEdits /\ failures \in 0..MaxFailures
  /\ {closed, stopping} \subseteq BOOLEAN /\ source \in Sources
  /\ active \subseteq known /\ known \subseteq Targets
  /\ version \in [Targets -> Nat]
  /\ mode \in [Targets -> {"pending", "incremental", "full_fallback"}]
  /\ lineage \in [Targets -> Nat] /\ last \in [Targets -> Nat]
  /\ \A t \in Targets : lineage[t] <= sessions[t] /\ last[t] <= Len(rows[t])
  /\ tsig \in [Targets -> Exports] /\ file \in [Targets -> Exports]
  /\ msig \in [Targets -> Sigs \cup {Nothing}] /\ meta \subseteq known
  /\ pc \in [Threads -> Places]
  /\ todo \in [Threads -> SUBSET known]
  /\ job \in [Threads -> Jobs \cup {Nothing}]
  /\ \A f \in Threads : (pc[f] \in {"reading", "writing"}) <=> (job[f] # Nothing)
  /\ \A f \in Threads : job[f] # Nothing => job[f].target \in todo[f]
  /\ \A f \in Threads : pc[f] = "idle" => todo[f] = {}
  /\ seen \in [Targets -> Transcripts]
  /\ clean \subseteq known

NoWriter(t) == \A f \in Threads : pc[f] = "writing" => job[f].target # t

(* Between flushes a transcript holds exactly the messages the last reading *)
(* found, in order, once and with their flags, unless a write has raised    *)
(* since the last rebuild: appends, compactions and edits of the session,   *)
(* in whatever order the reporters' and the loop's flushes meet them, lose  *)
(* and double nothing (transcripts.py:130-186, 291-320, 477-489).               *)
TranscriptIsWhatWasRead ==
  \A t \in clean : NoWriter(t) => file[t] = seen[t]

(* A write that raised after the position moved (transcripts.py:177, 505)   *)
(* costs messages until the end of the run only: when the last flush has    *)
(* written a target that it read incrementally, the file holds the whole of *)
(* what was read, whichever appends were lost or torn before.  It says      *)
(* nothing of a flush that was still waiting and writes after that one.     *)
LastFlushRepairs ==
  [][\A t \in Targets :
       stopping /\ Write(Runner) /\ job[Runner].target = t /\ mode[t] = "incremental"
         => file'[t] = seen[t] /\ t \in clean']_vars

(* The run's thread gets past stop() and to its end even if a flush of      *)
(* another thread hangs in a write with the flush lock: wherever it is, it  *)
(* has a step it can take unless a reading is under way                     *)
(* (transcripts.py:412-414).                                                *)
StopIsNeverStuck ==
  stopping /\ LockFree /\ pc[Runner] # "done" => ENABLED RunnerStep
=============================================================================
