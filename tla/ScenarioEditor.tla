---------------------------- MODULE ScenarioEditor --------------------------
(***************************************************************************)
(* The two ways to write a pipeline in the studio, over the directories    *)
(* they share: the scenario panel of the authoring page (scenario_panel.rs,*)
(* scenario_state.rs), which also makes a task of the queue out of a saved *)
(* scenario (scenario_task_link.rs, tasks_def.rs), and the session of the  *)
(* demonstration page (authoring_session.rs), whose steps are a chain.     *)
(***************************************************************************)
EXTENDS ScenarioStore

CONSTANTS
  Candidates,   \* names the user gives to the tasks he adds
  Steps,        \* names of the session's steps, in order
  SessionName,  \* the directory of the session
  Ids           \* ids that task definitions of the home page can have

ASSUME EditorAssumption == SessionName \in Dirs

VARIABLES
  state,      \* ScenarioPanel.state and the names of its pending_pngs
  saved,      \* ScenarioPanel.saved, with the revision it made, or None
  selection,  \* ScenarioPanel.bind_selection
  edited,     \* the directory, or None, and revision the scenario came from (history)
  steps,      \* number of steps in the session
  saved_to,   \* AuthoringSession.saved_to, or None
  defs        \* the task definitions, by id, or None

editorVars == <<state, saved, selection, edited>>
sessionVars == <<steps, saved_to>>
vars == <<storeVars, editorVars, sessionVars, defs>>

New(name) ==
  [name |-> name, start |-> None, tasks |-> <<>>, files |-> <<>>, pending |-> {},
   loaded_from |-> None]

\* What a new scenario comes from.
Scratch == [dir |-> None, revision |-> 0]

Init ==
  /\ InitStore
  /\ state \in {New(d) : d \in Dirs}
  /\ saved = None
  /\ selection = None
  /\ edited = Scratch
  /\ steps = 0
  /\ saved_to = None
  /\ defs \in [Ids -> {None, [implemented |-> FALSE]}]

-----------------------------------------------------------------------------
(* The panel *)

Editing == UNCHANGED <<storeVars, sessionVars, defs>>

OpenExisting(d) ==
  /\ Loadable(d)
  /\ state' = Load(d)
  /\ saved' = None
  /\ selection' = None
  /\ edited' = [dir |-> d, revision |-> revision[d]]
  /\ Editing

\* Slip: the directory of the scenario before is still its own.
NewScenarioKeepingSource ==
  /\ \E d \in Dirs : state' = [New(d) EXCEPT !.loaded_from = state.loaded_from]
  /\ saved' = None
  /\ selection' = None
  /\ edited' = Scratch
  /\ Editing

\* new_scenario, with the name that is then given to it.
NewScenario ==
  /\ \E d \in Dirs : state' = New(d)
  /\ saved' = None
  /\ selection' = None
  /\ edited' = Scratch
  /\ Editing

\* The name can be edited at any time, that of a loaded scenario too.
Rename(d) ==
  /\ d # state.name
  /\ state' = [state EXCEPT !.name = d]
  /\ UNCHANGED <<saved, selection, edited>>
  /\ Editing

AddCandidate(t) ==
  /\ t \notin DOMAIN state.tasks
  /\ state' = [state EXCEPT !.tasks = With(@, t, Task({}, Place(Here, t))),
                            !.pending = @ \cup {t},
                            !.start = IF @ = None THEN t ELSE @]
  /\ UNCHANGED <<saved, selection, edited>>
  /\ Editing

\* remove_task: the start falls to the first task that is left, and what leads
\* to the removed one is left as it is.
RemoveTask(t) ==
  /\ t \in DOMAIN state.tasks
  /\ LET rest == DOMAIN state.tasks \ {t}
     IN \E first \in IF rest = {} THEN {None} ELSE rest :
          state' = [state EXCEPT !.tasks = [u \in rest |-> @[u]],
                                 !.pending = @ \ {t},
                                 !.start = IF @ = t THEN first ELSE @]
  /\ UNCHANGED <<saved, selection, edited>>
  /\ Editing

\* The checkboxes of a task offer the other tasks of the scenario.
ToggleNext(t, u) ==
  /\ {t, u} \subseteq DOMAIN state.tasks /\ t # u
  /\ state' = [state EXCEPT !.tasks[t].next = IF u \in @ THEN @ \ {u} ELSE @ \cup {u}]
  /\ UNCHANGED <<saved, selection, edited>>
  /\ Editing

SetStartTask(t) ==
  /\ t \in DOMAIN state.tasks
  /\ state' = [state EXCEPT !.start = t]
  /\ UNCHANGED <<saved, selection, edited>>
  /\ Editing

\* Slip: a crop is written once.
SaveAndForget ==
  /\ SaveCompletes(state)
  /\ state' = [state EXCEPT !.loaded_from = state.name, !.pending = {}]
  /\ saved' = [dir |-> state.name, start |-> state.start, revision |-> revision'[state.name]]
  /\ edited' = [dir |-> state.name, revision |-> revision'[state.name]]
  /\ UNCHANGED <<selection, sessionVars, defs>>

\* save: the scenario owns the directory it was written to, and the crops stay
\* at hand for the next one.
SaveSucceeds ==
  /\ SaveCompletes(state)
  /\ state' = [state EXCEPT !.loaded_from = state.name]
  /\ saved' = [dir |-> state.name, start |-> state.start, revision |-> revision'[state.name]]
  /\ edited' = [dir |-> state.name, revision |-> revision'[state.name]]
  /\ UNCHANGED <<selection, sessionVars, defs>>

\* A save that fails leaves the panel as it was.
SaveFails ==
  /\ SaveBreaksOff(state)
  /\ edited' = IF edited.dir = state.name
               THEN [edited EXCEPT !.revision = revision'[state.name]] ELSE edited
  /\ UNCHANGED <<state, saved, selection, sessionVars, defs>>

-----------------------------------------------------------------------------
(* A saved scenario becomes a task of the home page *)

Linking == UNCHANGED <<storeVars, editorVars, sessionVars>>

Implemented(start) ==
  [implemented |-> TRUE, dir |-> saved.dir, start |-> start, revision |-> saved.revision]

\* Slip: the start task of the scenario as it is edited now.
RegisterAsEdited(id) ==
  /\ saved # None
  /\ defs[id] = None
  /\ Loadable(saved.dir)
  /\ defs' = [defs EXCEPT ![id] = Implemented(state.start)]
  /\ Linking

\* register_and_enable_task: a new definition is written and enabled.  When the
\* pipeline cannot be read or a write fails it is removed again.
Register(id) ==
  /\ saved # None
  /\ defs[id] = None
  /\ Loadable(saved.dir)
  /\ defs' = [defs EXCEPT ![id] = Implemented(saved.start)]
  /\ Linking

IsStub(id) == defs[id] # None /\ defs[id] # Broken /\ ~defs[id].implemented

\* The choice outlives the stub: it is cleared with the scenario only.
SelectStub(id) ==
  /\ saved # None /\ IsStub(id)
  /\ selection' = id
  /\ UNCHANGED <<storeVars, state, saved, edited, sessionVars, defs>>

\* bind_and_enable_task, whose write can fail and is not taken back.  The start
\* stays that of the definition, which has none.
BindStub ==
  /\ saved # None /\ selection # None
  /\ defs[selection] # Broken
  /\ Loadable(saved.dir)
  /\ \E def \in {Implemented(None), Broken} : defs' = [defs EXCEPT ![selection] = def]
  /\ Linking

-----------------------------------------------------------------------------
(* The session *)

SessionScenario ==
  LET names == SubSeq(Steps, 1, steps)
  IN [name |-> SessionName,
      start |-> names[1],
      tasks |-> [t \in ToSet(names) |->
                   LET i == CHOOSE i \in DOMAIN names : names[i] = t
                   IN Task(IF i < steps THEN {names[i + 1]} ELSE {}, Place(Here, t))],
      files |-> <<>>,
      pending |-> ToSet(names),
      loaded_from |-> saved_to]

Demonstrating == UNCHANGED <<storeVars, editorVars, saved_to, defs>>

\* A step is confirmed, or the last one undone.
ConfirmStep == steps < Len(Steps) /\ steps' = steps + 1 /\ Demonstrating
UndoStep == steps > 0 /\ steps' = steps - 1 /\ Demonstrating

SessionSaves ==
  /\ steps > 0
  /\ \/ /\ SaveCompletes(SessionScenario)
        /\ saved_to' = SessionName
     \/ /\ SaveBreaksOff(SessionScenario)
        /\ UNCHANGED saved_to
  /\ UNCHANGED <<editorVars, steps, defs>>

-----------------------------------------------------------------------------

Panel ==
  \/ NewScenario \/ SaveSucceeds \/ SaveFails
  \/ \E d \in Dirs : OpenExisting(d) \/ Rename(d)
  \/ \E t \in Candidates : AddCandidate(t)
  \/ \E t \in Names : RemoveTask(t) \/ SetStartTask(t)
  \/ \E t, u \in Names : ToggleNext(t, u)

Link == BindStub \/ \E id \in Ids : Register(id) \/ SelectStub(id)

Session == ConfirmStep \/ UndoStep \/ SessionSaves

Next == Panel \/ Link \/ Session

Spec == Init /\ [][Next]_vars

-----------------------------------------------------------------------------
(* Properties *)

\* What was saved can be run: the start and every task that it may lead to have
\* their definition in the directory, as it was edited, each in a file of its
\* own.  The templates written beside the definitions can be read.  Any other
\* template, of this directory or of another pipeline, that could be read when
\* the save was through can still be, unless it is of another pipeline to which
\* a save has broken off since: that one may have torn it.
SavedScenarioRuns ==
  \A d \in DOMAIN whole :
    LET tasks == whole[d].tasks IN
      /\ disk[d].start = whole[d].start /\ whole[d].start \in DOMAIN tasks
      /\ \A t \in DOMAIN tasks :
           /\ tasks[t].next \subseteq DOMAIN tasks
           /\ TaskFile(t, tasks[t]) \in {disk[d].files[f] : f \in DOMAIN disk[d].files}
           /\ tasks[t].template.dir = Here => Lies(Place(d, tasks[t].template.png), disk)
      /\ \A place \in whole[d].templates :
           Lies(place, disk) \/ (place.dir # d /\ torn[place.dir] > revision[d])

PanelSaves == SaveSucceeds \/ SaveFails

\* scenario_save.rs: an existing pipeline is not overwritten without a warning.
\* What a save of the panel replaces is what its scenario was made from,
\* whatever was opened, named and saved in between, unless the session wrote to
\* its own directory since.
NoForeignOverwrite ==
  [][(revision' # revision /\ state.name \in DOMAIN disk /\ PanelSaves) =>
       /\ edited.dir = state.name
       /\ edited.revision = revision[state.name] \/ state.name = SessionName]_vars

\* A task linked to a scenario starts with a task of it, as long as no other
\* save has gone to its directory.
LinkedTaskStarts ==
  \A id \in Ids :
    (defs[id] # None /\ defs[id] # Broken /\ defs[id].implemented) =>
      LET def == defs[id] IN
        def.revision = revision[def.dir] =>
          /\ def.dir \in DOMAIN whole
          /\ (IF def.start = None THEN disk[def.dir].start ELSE def.start)
               \in DOMAIN whole[def.dir].tasks
=============================================================================
