------------------------------- MODULE Dashboard -------------------------------
(***************************************************************************)
(* The dashboard of tui/app.py over the records of RecordStore.  It is one *)
(* thread: it polls, loads the records, draws, and takes a key, while      *)
(* other processes save.                                                   *)
(*                                                                         *)
(* Places in a list count from 1.  Layout (tui/render.py), scrolling, the  *)
(* folding of prompts and the text of messages are left out.               *)
(***************************************************************************)
EXTENDS RecordStore, FiniteSetsExt

CONSTANTS SessionOf, \* the Hermes session of each run, Nothing for a legacy run
          EnvKey     \* HERMES_SESSION_ID, or Nothing

VARIABLES
  pc,        \* where the loop is
  after,     \* why it loads
  launched,  \* the run that a restart answered with
  lastSeen,  \* last_version
  workflows, \* .workflows, as [run, record]
  opened,    \* ._expanded_initialized
  nav,       \* .state
  chosen     \* history: the phase of which another than the first agent was selected

loopVars  == <<pc, after, launched, lastSeen>>
viewVars  == <<workflows, opened, nav, chosen>>
vars == <<storeVars, loopVars, viewVars>>

(* A place in a list of n, the first one if it is empty. *)
Clamp(i, n) == IF n = 0 \/ i = 0 THEN 1 ELSE Min({i, n})

Init ==
  /\ StoreInit
  /\ pc = "load" /\ after = "start" /\ launched = Nothing /\ lastSeen = 0
  /\ workflows = <<>> /\ opened = FALSE /\ chosen = Nothing
  /\ nav = [view |-> "list", focus |-> "phases", run |-> 1, phase |-> 1, agent |-> 1,
            cursor |-> 1, expanded |-> {}]

Save == SaveStep /\ UNCHANGED <<loopVars, viewVars>>

-----------------------------------------------------------------------------
(* group_sessions() and list_items(): the rows of the list are sessions, by *)
(* their newest run, and under one that is expanded its runs as loaded.     *)

Keys(ws) == {SessionOf[r] : r \in RunsOf(ws)} \ {Nothing}
Newest(ws, key) == Max({r \in RunsOf(ws) : SessionOf[r] = key})
Running(ws, key) == \E i \in DOMAIN ws : SessionOf[ws[i].run] = key /\ Active(ws[i].record)
HasActive(ws) == \E key \in Keys(ws) : Running(ws, key)

(* The session of the environment, or else the newest that runs, or else    *)
(* the newest.                                                              *)
CurrentKey(ws) ==
  LET busy  == {key \in Keys(ws) : Running(ws, key)}
      among == IF EnvKey \in Keys(ws) THEN {EnvKey} ELSE IF busy # {} THEN busy ELSE Keys(ws)
  IN {key \in among : \A other \in among : Newest(ws, other) <= Newest(ws, key)}

FlatIndex(ws, r) == SelectInSeq(ws, LAMBDA w : w.run = r)

Header(key) == [kind |-> "group", key |-> key, run |-> Nothing]
RunRow(r) == [kind |-> "run", key |-> SessionOf[r], run |-> r]
Rows(ws, expanded) ==
  {Header(key) : key \in Keys(ws)}
    \cup {RunRow(r) : r \in {q \in RunsOf(ws) : SessionOf[q] \in Keys(ws) \cap expanded}}

Above(ws, a, b) ==
  IF a.key # b.key THEN Newest(ws, a.key) > Newest(ws, b.key)
  ELSE b.kind = "run" /\ (a.kind = "run" => FlatIndex(ws, a.run) < FlatIndex(ws, b.run))

Items(ws, expanded) ==
  LET rows == Rows(ws, expanded)
  IN [i \in 1 .. Cardinality(rows) |->
        CHOOSE row \in rows : Cardinality({a \in rows : Above(ws, a, row)}) = i - 1]

CurrentIn(ws, n) == IF ws = <<>> THEN Nothing ELSE ws[Clamp(n.run, Len(ws))].run
CurrentRun == CurrentIn(workflows, nav)

-----------------------------------------------------------------------------
(* refresh(), once the records are loaded. *)

(* A faulty form: the open run is kept by its place in the list. *)
KeptByPlace(ws, r) == Clamp(nav.run, Len(ws))

(* The open run keeps its place in the new order. *)
Anchored(ws, r) == Clamp(IF r \in RunsOf(ws) THEN FlatIndex(ws, r) ELSE nav.run, Len(ws))

PhasesOf(r) == Detail(r).shape.phases
Normalized(n, ws) ==
  LET open   == n.view # "list" /\ ws # <<>>
      phases == IF open THEN PhasesOf(CurrentIn(ws, n)) ELSE <<>>
      phase  == Clamp(n.phase, Len(phases))
  IN [n EXCEPT !.phase = phase,
               !.agent = Clamp(@, IF open THEN phases[phase].agents ELSE 0)]

(* With the answer of a restart: the run that it launched. *)
OpenNew(n, ws, new) ==
  IF new \in RunsOf(ws) THEN [n EXCEPT !.run = FlatIndex(ws, new), !.phase = 1, !.agent = 1] ELSE n

Load ==
  /\ pc = "load" /\ StartLoad /\ pc' = "loading"
  /\ UNCHANGED <<after, launched, lastSeen, viewVars>>

LoadNext ==
  /\ pc = "loading" /\ LoadRecord
  /\ UNCHANGED <<loopVars, viewVars>>

(* The active branch reads the counter after the load, the idle one before. *)
FinishLoad ==
  LET ws       == loading.views
      expanded == IF opened THEN nav.expanded ELSE CurrentKey(ws)
      anchored == [nav EXCEPT !.expanded = expanded,
                              !.run = Anchored(ws, CurrentRun),
                              !.cursor = Clamp(@, Len(Items(ws, expanded)))]
      n        == Normalized(anchored, ws)
  IN
  /\ pc = "loading" /\ EndLoad
  /\ IF n.view # "list" /\ ws # <<>>
     THEN DetailRead(CurrentIn(ws, n))
     ELSE UNCHANGED details
  /\ workflows' = ws /\ opened' = TRUE
  /\ nav' = OpenNew(n, ws, launched)
  /\ chosen' = IF nav'.agent = 1 THEN Nothing ELSE PhasesOf(CurrentIn(ws, n))[n.phase].title
  /\ pc' = IF after \in {"start", "active"} THEN "counter" ELSE "wait"
  /\ after' = "idle" /\ launched' = Nothing
  /\ UNCHANGED lastSeen

ReadLastVersion ==
  /\ pc = "counter"
  /\ lastSeen' = version
  /\ pc' = "wait"
  /\ UNCHANGED <<storeVars, after, launched, viewVars>>

-----------------------------------------------------------------------------
(* The loop: poll, draw, take a key. *)

Poll ==
  /\ pc = "wait"
  /\ \/ /\ HasActive(workflows)
        /\ after' = "active" /\ UNCHANGED lastSeen
     \/ /\ ~HasActive(workflows) /\ version # lastSeen
        /\ after' = "idle" /\ lastSeen' = version
  /\ pc' = "load"
  /\ UNCHANGED <<storeVars, launched, viewVars>>

(* frame(), after a load, a key or a change of the window. *)
Draw ==
  /\ pc = "wait"
  /\ nav.view # "list" /\ workflows # <<>> /\ DetailRead(CurrentRun)
  /\ UNCHANGED <<filesVars, cache, loading, loopVars, viewVars>>

AllItems == Items(workflows, nav.expanded)
AtCursor == AllItems[Clamp(nav.cursor, Len(AllItems))]
OnItem(kind) == pc = "wait" /\ nav.view = "list" /\ AllItems # <<>> /\ AtCursor.kind = kind

HandleKey(n, title) ==
  /\ pc = "wait"
  /\ nav' = n /\ chosen' = IF n.agent = 1 THEN Nothing ELSE title
  /\ UNCHANGED <<filesVars, cache, loading, loopVars, workflows, opened>>

PhasesOfCurrent == PhasesOf(CurrentRun)
PhaseAt(i) == PhasesOfCurrent[Clamp(i, Len(PhasesOfCurrent))]
AgentsOfPhase == PhaseAt(nav.phase).agents

(* A faulty form: the agent of another phase stays selected. *)
MovePhasesOnly(to) ==
  /\ nav.view = "workflow" /\ nav.focus = "phases" /\ DetailRead(CurrentRun)
  /\ HandleKey([nav EXCEPT !.phase = Clamp(to, Len(PhasesOfCurrent))], PhaseAt(to).title)

(* _move() *)
MoveList(to) ==
  /\ nav.view = "list" /\ UNCHANGED details
  /\ HandleKey([nav EXCEPT !.cursor = Clamp(to, Len(AllItems))], chosen)
MovePhases(to) ==
  /\ nav.view = "workflow" /\ nav.focus = "phases" /\ DetailRead(CurrentRun)
  /\ HandleKey([nav EXCEPT !.phase = Clamp(to, Len(PhasesOfCurrent)), !.agent = 1],
               PhaseAt(to).title)
MoveAgents(to) ==
  /\ nav.view # "list" /\ nav.focus = "agents" /\ DetailRead(CurrentRun)
  /\ HandleKey([nav EXCEPT !.agent = Clamp(to, AgentsOfPhase)], PhaseAt(nav.phase).title)
Beside(i) == {i - 1, i + 1}
Move == \/ \E to \in Beside(nav.cursor) : MoveList(to)
        \/ \E to \in Beside(nav.phase) : MovePhases(to)
        \/ \E to \in Beside(nav.agent) : MoveAgents(to)

(* _expand() and _collapse() of the list; _enter() does one or the other.   *)
ExpandGroup ==
  /\ OnItem("group") /\ UNCHANGED details
  /\ HandleKey(IF AtCursor.key \notin nav.expanded
               THEN [nav EXCEPT !.expanded = @ \cup {AtCursor.key}]
               ELSE [nav EXCEPT !.cursor = @ + 1], chosen)
CollapseRun ==
  /\ OnItem("run") /\ UNCHANGED details
  /\ HandleKey([nav EXCEPT !.cursor = SelectInSeq(AllItems, LAMBDA i : i.key = AtCursor.key),
                           !.expanded = @ \ {AtCursor.key}], chosen)
CollapseGroup ==
  /\ OnItem("group") /\ AtCursor.key \in nav.expanded /\ UNCHANGED details
  /\ HandleKey([nav EXCEPT !.expanded = @ \ {AtCursor.key}], chosen)

(* _active_phase_index: the place of the current phase, or the first. *)
ActivePhase(shape) ==
  IF \E i \in DOMAIN shape.phases : shape.phases[i].title = shape.current
  THEN CHOOSE i \in DOMAIN shape.phases : shape.phases[i].title = shape.current
  ELSE 1

(* _open_run(): at the phase the run is in. *)
OpenRun ==
  LET shape == Detail(AtCursor.run).shape IN
  /\ OnItem("run") /\ DetailRead(AtCursor.run)
  /\ HandleKey([nav EXCEPT !.view = "workflow", !.run = FlatIndex(workflows, AtCursor.run),
                           !.phase = ActivePhase(shape), !.agent = 1, !.focus = "phases"],
               shape.phases[ActivePhase(shape)].title)

(* _enter() and _back() of the open run *)
EnterPhase ==
  /\ nav.view = "workflow" /\ nav.focus = "phases" /\ DetailRead(CurrentRun)
  /\ IF AgentsOfPhase = 0 THEN HandleKey(nav, chosen)
     ELSE HandleKey([nav EXCEPT !.focus = "agents", !.agent = 1], PhaseAt(nav.phase).title)
EnterAgent ==
  /\ nav.view # "list" /\ nav.focus = "agents" /\ UNCHANGED details
  /\ HandleKey(IF nav.view = "workflow" THEN [nav EXCEPT !.view = "agent"]
                                        ELSE [nav EXCEPT !.focus = "detail"], chosen)

(* A faulty form: leaving the agents always shows the phases. *)
BackOnePane ==
  /\ nav.view # "list" /\ UNCHANGED details
  /\ HandleKey(CASE nav.focus = "detail" -> [nav EXCEPT !.focus = "agents"]
                 [] nav.focus = "agents" -> [nav EXCEPT !.focus = "phases"]
                 [] nav.focus = "phases" -> [nav EXCEPT !.view = "list"], chosen)

Back ==
  /\ nav.view # "list" /\ UNCHANGED details
  /\ HandleKey(CASE nav.focus = "detail" -> [nav EXCEPT !.focus = "agents"]
                 [] nav.focus = "agents" /\ nav.view = "agent" -> [nav EXCEPT !.view = "workflow"]
                 [] nav.focus = "agents" /\ nav.view = "workflow" -> [nav EXCEPT !.focus = "phases"]
                 [] nav.focus = "phases" -> [nav EXCEPT !.view = "list"], chosen)

(* _control(): a request to the run's process (ControlQueue), and a load.   *)
(* A restart may answer with a run of its own.                              *)
Control ==
  /\ pc = "wait"
  /\ nav.view # "list" \/ OnItem("run")
  /\ launched' \in {Nothing} \cup {r \in Runs : file[r] # Nothing /\ r \notin RunsOf(workflows)}
  /\ pc' = "load"
  /\ UNCHANGED <<storeVars, after, lastSeen, viewVars>>

Quit ==
  /\ pc = "wait" /\ pc' = "gone"
  /\ UNCHANGED <<storeVars, after, launched, lastSeen, viewVars>>

-----------------------------------------------------------------------------
LoadStep == Load \/ LoadNext \/ FinishLoad \/ ReadLastVersion
KeyStep == \/ Move \/ ExpandGroup \/ CollapseRun \/ CollapseGroup \/ OpenRun
           \/ EnterPhase \/ EnterAgent \/ Back \/ Control \/ Quit
Next == Save \/ LoadStep \/ Poll \/ Draw \/ KeyStep

Spec == Init /\ [][Next]_vars

-----------------------------------------------------------------------------
(* Properties. *)

Views == [run : Runs, record : Records]
Entries == [signature : Nat \X Sizes, record : Records] \cup {Nothing}
Places == Nat \ {0}
Navs == [view : {"list", "workflow", "agent"}, focus : {"phases", "agents", "detail"},
         run : Places, phase : Places, agent : Places, cursor : Places,
         expanded : SUBSET {SessionOf[r] : r \in Runs}]

(* The variables hold what the files and the dashboard can hold, every      *)
(* file is listed once, and the views and their panes go together.          *)
TypeOK ==
  /\ file \in [Runs -> Records \cup {Nothing}]
  /\ ToSet(order) = {r \in Runs : file[r] # Nothing} /\ IsInjective(order)
  /\ version \in Nat /\ clock \in Nat \ {0} /\ saves \in 0 .. MaxSaves
  /\ faults \in 0 .. MaxFaults
  /\ {stepped, overlapped} \subseteq BOOLEAN /\ unbumped \subseteq Runs
  /\ saving \in [Savers -> [at : {"idle", "replaced", "counted"}, run : Runs \cup {Nothing},
                            version : Nat]]
  /\ cache \in [Runs -> Entries] /\ details \in [Runs -> Entries]
  /\ pc \in {"load", "loading", "counter", "wait", "gone"}
  /\ after \in {"start", "active", "idle"} /\ launched \in Runs \cup {Nothing}
  /\ loading.version \in Nat
  /\ ToSet(loading.todo) \subseteq Runs /\ ToSet(loading.views) \subseteq Views
  /\ lastSeen \in Nat
  /\ ToSet(workflows) \subseteq Views /\ opened \in BOOLEAN
  /\ nav \in Navs /\ chosen \in Titles \cup {Nothing}
  /\ nav.view = "workflow" => nav.focus # "detail"
  /\ nav.view = "agent" => nav.focus # "phases"

(* The run that is open stays open while it is listed, whatever is saved or *)
(* started meanwhile: only a restart of the user's puts another in its      *)
(* place, so the keys control the run that was opened (app.py:43-63).       *)
OpenRunSurvives ==
  [][nav.view # "list" /\ CurrentRun \in RunsOf(workflows') /\ launched = Nothing
       => CurrentRun' = CurrentRun]_vars

(* The phase selected in an open run exists, and under it the agent, though *)
(* each key and each frame reads the run anew and a load may have put it    *)
(* elsewhere (app.py:146-194, 310-319).  An announcement can put another    *)
(* phase in the place of one that only agents name (model.py:377-392): of   *)
(* that phase the agent need not exist, until a key or a load looks.        *)
SelectionExists ==
  nav.view # "list" /\ workflows # <<>> =>
    /\ nav.phase \in DOMAIN PhasesOfCurrent
    /\ nav.agent = 1 \/ (PhaseAt(nav.phase).title = chosen => nav.agent <= AgentsOfPhase)
=============================================================================
