------------------------ MODULE ScenarioEditorProofs ------------------------
(***************************************************************************)
(* The scenario panel, the session and the linked tasks, for any           *)
(* directories, tasks and number of saves.                                 *)
(***************************************************************************)
EXTENDS ScenarioEditor, NaturalsInduction, WellFoundedInduction, TLAPS

-----------------------------------------------------------------------------
(* The directory the panel may write to *)

\* Nothing but the session wrote to the directory since.
Known(from, revisions) ==
  from.revision = revisions[from.dir] \/ from.dir = SessionName

\* The scenario has the fields of ScenarioEditorState, and a directory it owns is
\* the one it was read from or written to.
PanelInv ==
  /\ DOMAIN state = {"name", "start", "tasks", "files", "pending", "loaded_from"}
  /\ state.name \in Dirs
  /\ DOMAIN edited = {"dir", "revision"}
  /\ DOMAIN revision = Dirs
  /\ state.loaded_from # None => edited.dir = state.loaded_from
  /\ edited.dir # None => edited.dir \in Dirs /\ Known(edited, revision)

LEMMA NewFields == ASSUME NEW d
                   PROVE  /\ DOMAIN New(d) = {"name", "start", "tasks", "files", "pending",
                                               "loaded_from"}
                          /\ New(d).name = d /\ New(d).loaded_from = None
BY DEF New

\* A save writes to one directory.
LEMMA SaveWrites == ASSUME NEW s, SaveCompletes(s) \/ SaveBreaksOff(s)
                    PROVE  revision' = [revision EXCEPT ![s.name] = LastWrite + 1]
BY DEF SaveCompletes, SaveBreaksOff, Wrote

LEMMA InitPanel == Init => PanelInv
BY NewFields DEF Init, InitStore, PanelInv, Scratch

LEMMA PanelKeeps == ASSUME PanelInv, Panel PROVE PanelInv'
<1> USE DEF PanelInv
<1>1. CASE NewScenario
  BY <1>1, NewFields DEF NewScenario, Editing, storeVars, Scratch, Known
<1>2. CASE SaveSucceeds
  <2>1. state' = [state EXCEPT !.loaded_from = state.name]
    BY <1>2 DEF SaveSucceeds
  <2>2. edited' = [dir |-> state.name, revision |-> revision'[state.name]]
    BY <1>2 DEF SaveSucceeds
  <2>3. DOMAIN revision' = Dirs
    BY <1>2, SaveWrites DEF SaveSucceeds
  <2> QED
    BY <2>1, <2>2, <2>3 DEF Known
<1>3. CASE SaveFails
  <2>1. state' = state
    BY <1>3 DEF SaveFails
  <2>2. revision' = [revision EXCEPT ![state.name] = LastWrite + 1]
    BY <1>3, SaveWrites DEF SaveFails
  <2>3. CASE edited.dir = state.name
    BY <1>3, <2>1, <2>2, <2>3 DEF SaveFails, Known
  <2>4. CASE edited.dir # state.name
    BY <1>3, <2>1, <2>2, <2>4 DEF SaveFails, Known
  <2> QED
    BY <2>3, <2>4
<1>4. ASSUME NEW d \in Dirs, OpenExisting(d) PROVE PanelInv'
  <2>1. state' = Load(d) /\ edited' = [dir |-> d, revision |-> revision[d]]
    BY <1>4 DEF OpenExisting
  <2>2. /\ DOMAIN Load(d) = {"name", "start", "tasks", "files", "pending", "loaded_from"}
        /\ Load(d).name = d /\ Load(d).loaded_from = d
    BY DEF Load
  <2> QED
    BY <1>4, <2>1, <2>2 DEF OpenExisting, Editing, storeVars, Known
<1>5. ASSUME NEW d \in Dirs, Rename(d) PROVE PanelInv'
  BY <1>5 DEF Rename, Editing, storeVars, Known
<1>6. ASSUME NEW t, AddCandidate(t) PROVE PanelInv'
  BY <1>6 DEF AddCandidate, Editing, storeVars, Known
<1>7. ASSUME NEW t, RemoveTask(t) PROVE PanelInv'
  BY <1>7 DEF RemoveTask, Editing, storeVars, Known
<1>8. ASSUME NEW t, SetStartTask(t) PROVE PanelInv'
  BY <1>8 DEF SetStartTask, Editing, storeVars, Known
<1>9. ASSUME NEW t, NEW u, ToggleNext(t, u) PROVE PanelInv'
  BY <1>9 DEF ToggleNext, Editing, storeVars, Known
<1> QED
  BY <1>1, <1>2, <1>3, <1>4, <1>5, <1>6, <1>7, <1>8, <1>9 DEF Panel

LEMMA SessionKeeps == ASSUME PanelInv, SessionSaves PROVE PanelInv'
<1>1. state' = state /\ edited' = edited
  BY DEF SessionSaves, editorVars
<1>2. revision' = [revision EXCEPT ![SessionName] = LastWrite + 1]
  BY SaveWrites DEF SessionSaves, SessionScenario
<1> QED
  BY <1>1, <1>2 DEF PanelInv, Known

LEMMA OthersKeep == ASSUME PanelInv, Link \/ ConfirmStep \/ UndoStep \/ UNCHANGED vars
                    PROVE  PanelInv'
<1>1. state' = state /\ edited' = edited /\ revision' = revision
  BY DEF Link, Register, SelectStub, BindStub, Linking, ConfirmStep, UndoStep, Demonstrating,
     editorVars, storeVars, vars
<1> QED
  BY <1>1 DEF PanelInv, Known

\* The panel replaces only what its scenario was read from or written to, as it
\* was then, or what the session wrote to its own directory (scenario_save.rs:
\* is_owned_dir; scenario_panel.rs: open_existing, new_scenario and save keep
\* loaded_from).
THEOREM OverwriteCorrect == Spec => NoForeignOverwrite
<1>1. PanelInv /\ [Next]_vars => PanelInv'
  BY PanelKeeps, SessionKeeps, OthersKeep DEF Next, Session
<1>2. ASSUME PanelInv, PanelSaves, state.name \in DOMAIN disk
      PROVE  /\ edited.dir = state.name
             /\ edited.revision = revision[state.name] \/ state.name = SessionName
  <2>1. Owned(state, state.name)
    BY <1>2 DEF PanelSaves, SaveSucceeds, SaveFails, SaveCompletes, SaveBreaksOff, Accepted
  <2> QED
    BY <1>2, <2>1, StoreAssumption DEF Owned, PanelInv, Known
<1>3. PanelInv /\ [Next]_vars =>
        [(revision' # revision /\ state.name \in DOMAIN disk /\ PanelSaves) =>
           /\ edited.dir = state.name
           /\ edited.revision = revision[state.name] \/ state.name = SessionName]_vars
  BY <1>2
<1> QED
  BY <1>1, <1>3, InitPanel, PTL DEF Spec, NoForeignOverwrite

-----------------------------------------------------------------------------
(* What is in the directories *)

\* The templates on record are of pipelines.
PlacesKnown == \A d \in DOMAIN whole : \A place \in whole[d].templates : place.dir \in Dirs

StoreInv ==
  /\ DOMAIN disk \subseteq Dirs
  /\ DOMAIN whole \subseteq DOMAIN disk
  /\ revision \in [Dirs -> 0..MaxWrites]
  /\ DOMAIN torn = Dirs
  /\ PlacesKnown
  /\ SavedScenarioRuns

\* Every template that belongs beside its definition is at hand.
Supplied(s) ==
  /\ s.name \in Dirs
  /\ \A t \in DOMAIN s.tasks :
       /\ DOMAIN s.tasks[t] = {"next", "template"}
       /\ s.tasks[t].template.dir = Here => t \in s.pending /\ s.tasks[t].template.png = t

\* A scenario that was linked is whole as long as nothing was saved over it.
StillWhole(dir, start, rev) ==
  /\ dir \in Dirs /\ rev \in Nat /\ rev <= revision[dir]
  /\ rev = revision[dir] => /\ dir \in DOMAIN whole
                            /\ start = None \/ start \in DOMAIN whole[dir].tasks

Linked(def) == def # None /\ def # Broken /\ def.implemented

LinksAreWhole ==
  /\ saved # None => StillWhole(saved.dir, saved.start, saved.revision)
  /\ DOMAIN defs = Ids
  /\ \A id \in Ids : Linked(defs[id]) => StillWhole(defs[id].dir, defs[id].start, defs[id].revision)

ScenarioInv == PanelInv /\ StoreInv /\ Supplied(state) /\ LinksAreWhole

-----------------------------------------------------------------------------
(* A save gets a number of its own. *)

Descending == {p \in Nat \X Nat : p[1] < p[2]}

LEMMA LargestExists ==
  ASSUME NEW S \in SUBSET Nat, S # {}, NEW b \in Nat, \A n \in S : n <= b
  PROVE  Max(S) \in S /\ \A n \in S : n <= Max(S)
<1> DEFINE Bounds == {u \in Nat : \A n \in S : n <= u}
<1>1. Bounds \in SUBSET Nat /\ b \in Bounds
  OBVIOUS
<1>2. PICK m \in Bounds : \A u \in Bounds : m <= u
  <2>1. IsWellFoundedOn(Descending, Nat)
    BY NatLessThanWellFounded DEF Descending, OpToRel
  <2>2. PICK m \in Bounds : \A u \in Bounds : <<u, m>> \notin Descending
    BY <1>1, <2>1, WFMin
  <2>3. ASSUME NEW u \in Bounds PROVE m <= u
    <3>1. u \in Nat /\ m \in Nat
      BY <1>1
    <3>2. ~(u < m)
      BY <2>2, <3>1 DEF Descending
    <3> QED  BY <3>1, <3>2
  <2> QED  BY <2>3
<1>3. m \in Nat /\ \A n \in S : n <= m
  BY <1>2
<1>4. m \in S
  <2> SUFFICES ASSUME m \notin S PROVE FALSE
    OBVIOUS
  <2>1. PICK k \in S : k \in Nat /\ k <= m /\ k # m
    BY <1>3
  <2>2. m - 1 \in Nat /\ ~(m <= m - 1)
    BY <1>3, <2>1
  <2>3. \A n \in S : n <= m - 1
    <3>1. \A n \in S : n \in Nat /\ n <= m /\ n # m
      BY <1>3
    <3> QED  BY <1>3, <3>1
  <2>4. m - 1 \in Bounds
    BY <2>2, <2>3
  <2> QED  BY <1>2, <2>2, <2>4
<1> HIDE DEF Bounds
<1>5. Max(S) = m
  <2>1. \A x \in S : (\A y \in S : x >= y) => x = m
    BY <1>3, <1>4
  <2>2. \A y \in S : m >= y
    BY <1>3
  <2> QED  BY <1>4, <2>1, <2>2 DEF Max
<1> QED  BY <1>3, <1>4, <1>5

LEMMA LastWriteType ==
  ASSUME revision \in [Dirs -> 0..MaxWrites]
  PROVE  LastWrite \in 0..MaxWrites /\ \A d \in Dirs : revision[d] <= LastWrite
<1> DEFINE S == {revision[d] : d \in Dirs}
<1>1. S \in SUBSET Nat /\ S \subseteq 0..MaxWrites /\ \A n \in S : n <= MaxWrites
  BY StoreAssumption
<1>2. revision[SessionName] \in S
  BY EditorAssumption
<1>3. \A d \in Dirs : revision[d] \in S
  OBVIOUS
<1> HIDE DEF S
<1>4. Max(S) \in S /\ \A n \in S : n <= Max(S)
  BY <1>1, <1>2, LargestExists, StoreAssumption
<1>5. Max(S) \in 0..MaxWrites /\ \A d \in Dirs : revision[d] <= Max(S)
  BY <1>1, <1>3, <1>4
<1> QED  BY <1>5 DEF S, LastWrite

-----------------------------------------------------------------------------
(* The writes of a save *)

\* A save that succeeds leaves the templates, the start and every definition.
LEMMA CompletedFits ==
  ASSUME NEW s, Accepted(s),
         NEW c \in Swept(s, Written(s, Crops(s), s.start, DOMAIN s.tasks))
  PROVE  /\ Before(s).pngs \subseteq c.pngs /\ Crops(s) \subseteq c.pngs /\ c.start = s.start
         /\ \A t \in DOMAIN s.tasks :
              \E f \in DOMAIN c.files : c.files[f] = TaskFile(t, s.tasks[t])
<1> DEFINE dir == Written(s, Crops(s), s.start, DOMAIN s.tasks)
           stems == {Stem(s, t) : t \in DOMAIN s.tasks}
<1>1. /\ dir.start = s.start /\ dir.pngs = Before(s).pngs \cup Crops(s)
      /\ stems \subseteq DOMAIN dir.files
  BY DEF Written
<1>2. /\ DOMAIN dir = {"start", "pngs", "files"}
      /\ \A t \in DOMAIN s.tasks : dir.files[Stem(s, t)] = TaskFile(t, s.tasks[t])
  <2>1. DOMAIN dir = {"start", "pngs", "files"}
    BY DEF Written
  <2>2. ASSUME NEW t \in DOMAIN s.tasks PROVE dir.files[Stem(s, t)] = TaskFile(t, s.tasks[t])
    <3> DEFINE u == CHOOSE u \in DOMAIN s.tasks : Stem(s, u) = Stem(s, t)
    <3>1. u \in DOMAIN s.tasks /\ Stem(s, u) = Stem(s, t)
      OBVIOUS
    <3>2. dir.files[Stem(s, t)] = TaskFile(u, s.tasks[u])
      BY DEF Written
    <3> HIDE DEF u
    <3>3. u = t
      BY <3>1 DEF Accepted, DistinctFiles, IsInjective
    <3> QED  BY <3>2, <3>3
  <2> QED  BY <2>1, <2>2
<1>3. PICK kept \in SUBSET (DOMAIN dir.files \ stems) :
        c = [dir EXCEPT !.files = [f \in stems \cup kept |-> @[f]]]
  BY DEF Swept
<1>4. \A t \in DOMAIN s.tasks : Stem(s, t) \in stems
  OBVIOUS
<1> HIDE DEF dir, stems
<1>5. /\ c.start = dir.start /\ c.pngs = dir.pngs
      /\ c.files = [f \in stems \cup kept |-> dir.files[f]]
  BY <1>2, <1>3
<1>6. \A t \in DOMAIN s.tasks :
        Stem(s, t) \in DOMAIN c.files /\ c.files[Stem(s, t)] = TaskFile(t, s.tasks[t])
  BY <1>2, <1>4, <1>5
<1> QED  BY <1>1, <1>5, <1>6

-----------------------------------------------------------------------------
(* A save, of the panel or of the session *)

\* One directory is written to and gets a number of its own.  A save that is not
\* on record as broken off takes no template away.
Saved(s) ==
  /\ DOMAIN disk' = DOMAIN disk \cup {s.name}
  /\ \A d \in DOMAIN disk : d # s.name => disk'[d] = disk[d]
  /\ revision' \in [Dirs -> 0..MaxWrites]
  /\ \A d \in Dirs : d # s.name => revision'[d] = revision[d]
  /\ \A d \in Dirs : revision[d] < revision'[s.name]
  /\ \A d \in DOMAIN whole : d # s.name => d \in DOMAIN whole' /\ whole'[d] = whole[d]
  /\ \/ torn' = torn /\ \A d \in DOMAIN disk : disk[d].pngs \subseteq disk'[d].pngs
     \/ torn' = [torn EXCEPT ![s.name] = revision'[s.name]]

LEMMA WroteSaves ==
  ASSUME StoreInv, NEW s, s.name \in Dirs, NEW c, LastWrite < MaxWrites, Wrote(s.name, c),
         \/ torn' = torn /\ Before(s).pngs \subseteq c.pngs
         \/ torn' = [torn EXCEPT ![s.name] = LastWrite + 1],
         \A d \in DOMAIN whole : d # s.name => d \in DOMAIN whole' /\ whole'[d] = whole[d]
  PROVE  Saved(s) /\ disk'[s.name] = c
<1>1. /\ DOMAIN disk' = DOMAIN disk \cup {s.name} /\ disk'[s.name] = c
      /\ \A d \in DOMAIN disk : d # s.name => disk'[d] = disk[d]
  BY DEF Wrote, With
<1>2. Before(s).pngs \subseteq c.pngs => \A d \in DOMAIN disk : disk[d].pngs \subseteq disk'[d].pngs
  BY <1>1 DEF Before
<1>3. /\ LastWrite \in Nat /\ LastWrite + 1 \in 0..MaxWrites
      /\ \A d \in Dirs : revision[d] \in Nat /\ revision[d] < LastWrite + 1
  <2>1. LastWrite \in 0..MaxWrites /\ \A d \in Dirs : revision[d] <= LastWrite /\ revision[d] \in 0..MaxWrites
    BY LastWriteType DEF StoreInv
  <2> QED  BY <2>1, StoreAssumption
<1>4. /\ revision' = [revision EXCEPT ![s.name] = LastWrite + 1] /\ revision \in [Dirs -> 0..MaxWrites]
      /\ revision'[s.name] = LastWrite + 1
  BY DEF Wrote, StoreInv
<1>5. /\ revision' \in [Dirs -> 0..MaxWrites]
      /\ \A d \in Dirs : d # s.name => revision'[d] = revision[d]
      /\ \A d \in Dirs : revision[d] < revision'[s.name]
  BY <1>3, <1>4
<1>6. \/ torn' = torn /\ \A d \in DOMAIN disk : disk[d].pngs \subseteq disk'[d].pngs
      \/ torn' = [torn EXCEPT ![s.name] = revision'[s.name]]
  BY <1>2, <1>4
<1> QED  BY <1>1, <1>5, <1>6 DEF Saved

\* A template of another scenario can still be read, or the save that may have
\* torn it is on record.
LEMMA TemplatesStay ==
  ASSUME StoreInv, NEW s, s.name \in Dirs, Saved(s), NEW d \in DOMAIN whole, d # s.name,
         NEW place \in whole[d].templates
  PROVE  Lies(place, disk') \/ (place.dir # d /\ torn'[place.dir] > revision'[d])
<1>1. /\ d \in Dirs /\ place.dir \in Dirs /\ revision'[d] = revision[d]
      /\ Lies(place, disk) \/ (place.dir # d /\ torn[place.dir] > revision[d])
  BY DEF StoreInv, PlacesKnown, SavedScenarioRuns, Saved
<1>2. CASE torn' = torn /\ \A e \in DOMAIN disk : disk[e].pngs \subseteq disk'[e].pngs
  <2>1. Lies(place, disk) => Lies(place, disk')
    BY <1>2 DEF Lies, Saved
  <2> QED  BY <1>1, <1>2, <2>1
<1>3. CASE torn' = [torn EXCEPT ![s.name] = revision'[s.name]]
  <2>1. CASE place.dir = s.name
    <3>1. torn'[place.dir] = revision'[s.name] /\ revision[d] < revision'[s.name]
      BY <1>1, <1>3, <2>1 DEF StoreInv, Saved
    <3>2. revision[d] \in Nat /\ revision'[s.name] \in Nat
      BY <1>1, StoreAssumption DEF StoreInv, Saved
    <3>3. torn'[place.dir] > revision'[d]
      BY <1>1, <3>1, <3>2
    <3> QED  BY <2>1, <3>3
  <2>2. CASE place.dir # s.name
    <3>1. torn'[place.dir] = torn[place.dir]
      BY <1>1, <1>3, <2>2 DEF StoreInv
    <3>2. Lies(place, disk) => Lies(place, disk')
      BY <2>2 DEF Lies, Saved
    <3> QED  BY <1>1, <3>1, <3>2
  <2> QED  BY <2>1, <2>2
<1> QED  BY <1>2, <1>3 DEF Saved

\* SavedScenarioRuns for one directory, in the state a step leads to.
RunsFrom(d) ==
  LET tasks == whole'[d].tasks IN
    /\ disk'[d].start = whole'[d].start /\ whole'[d].start \in DOMAIN tasks
    /\ \A t \in DOMAIN tasks :
         /\ tasks[t].next \subseteq DOMAIN tasks
         /\ TaskFile(t, tasks[t]) \in {disk'[d].files[f] : f \in DOMAIN disk'[d].files}
         /\ tasks[t].template.dir = Here => Lies(Place(d, tasks[t].template.png), disk')
    /\ \A place \in whole'[d].templates :
         Lies(place, disk') \/ (place.dir # d /\ torn'[place.dir] > revision'[d])

\* The runs of a scenario that was not written to go on finding what they need.
LEMMA OtherRuns ==
  ASSUME StoreInv, NEW s, s.name \in Dirs, Saved(s), NEW d \in DOMAIN whole, d # s.name
  PROVE  RunsFrom(d) /\ \A place \in whole'[d].templates : place.dir \in Dirs
<1>1. whole'[d] = whole[d] /\ disk'[d] = disk[d] /\ d \in DOMAIN disk /\ d \in DOMAIN disk'
  BY DEF Saved, StoreInv
<1>2. LET tasks == whole[d].tasks IN
        /\ disk[d].start = whole[d].start /\ whole[d].start \in DOMAIN tasks
        /\ \A t \in DOMAIN tasks :
             /\ tasks[t].next \subseteq DOMAIN tasks
             /\ TaskFile(t, tasks[t]) \in {disk[d].files[f] : f \in DOMAIN disk[d].files}
             /\ tasks[t].template.dir = Here => Lies(Place(d, tasks[t].template.png), disk)
  BY DEF StoreInv, SavedScenarioRuns
<1>3. \A png : Lies(Place(d, png), disk) => Lies(Place(d, png), disk')
  BY <1>1 DEF Lies, Place
<1>4. \A place \in whole'[d].templates :
        Lies(place, disk') \/ (place.dir # d /\ torn'[place.dir] > revision'[d])
  BY <1>1, TemplatesStay
<1>5. \A place \in whole'[d].templates : place.dir \in Dirs
  BY <1>1 DEF StoreInv, PlacesKnown
<1> QED  BY <1>1, <1>2, <1>3, <1>4, <1>5 DEF RunsFrom

\* Where every scenario on record runs after a save, the invariant holds again.
LEMMA SavedKeeps ==
  ASSUME StoreInv, NEW s, s.name \in Dirs, Saved(s), DOMAIN whole' \subseteq DOMAIN whole \cup {s.name},
         \A d \in DOMAIN whole' : RunsFrom(d) /\ \A place \in whole'[d].templates : place.dir \in Dirs
  PROVE  StoreInv'
<1>1. SavedScenarioRuns'
  BY DEF SavedScenarioRuns, RunsFrom
<1>2. /\ DOMAIN disk' \subseteq Dirs /\ DOMAIN whole' \subseteq DOMAIN disk'
      /\ revision' \in [Dirs -> 0..MaxWrites] /\ DOMAIN torn' = Dirs /\ PlacesKnown'
  BY DEF StoreInv, Saved, PlacesKnown
<1> QED  BY <1>1, <1>2 DEF StoreInv

LEMMA BreaksOffKeeps ==
  ASSUME StoreInv, NEW s, Supplied(s), SaveBreaksOff(s)
  PROVE  StoreInv' /\ Saved(s)
<1>1. PICK c : Wrote(s.name, c)
  BY DEF SaveBreaksOff
<1>2. /\ whole' = [d \in DOMAIN whole \ {s.name} |-> whole[d]]
      /\ torn' = [torn EXCEPT ![s.name] = LastWrite + 1]
      /\ LastWrite < MaxWrites /\ s.name \in Dirs
  BY DEF SaveBreaksOff, Supplied
<1>3. Saved(s)
  BY <1>1, <1>2, WroteSaves
<1>4. \A d \in DOMAIN whole' : d \in DOMAIN whole /\ d # s.name
  BY <1>2
<1> QED  BY <1>2, <1>3, <1>4, OtherRuns, SavedKeeps

LEMMA CompletesKeeps ==
  ASSUME StoreInv, NEW s, Supplied(s), SaveCompletes(s)
  PROVE  /\ StoreInv' /\ Saved(s)
         /\ s.name \in DOMAIN whole' /\ s.start \in DOMAIN whole'[s.name].tasks
<1>1. PICK c \in Swept(s, Written(s, Crops(s), s.start, DOMAIN s.tasks)) : Wrote(s.name, c)
  BY DEF SaveCompletes
<1>2. /\ whole' = With(whole, s.name, [start |-> s.start, tasks |-> s.tasks,
                                       templates |-> Readable(s, disk')])
      /\ torn' = torn
      /\ LastWrite < MaxWrites /\ s.name \in Dirs /\ Accepted(s)
  BY DEF SaveCompletes, Supplied
<1>3. /\ Before(s).pngs \subseteq c.pngs /\ Crops(s) \subseteq c.pngs /\ c.start = s.start
      /\ \A t \in DOMAIN s.tasks :
           \E f \in DOMAIN c.files : c.files[f] = TaskFile(t, s.tasks[t])
  BY <1>1, <1>2, CompletedFits
<1>4. /\ DOMAIN whole' = DOMAIN whole \cup {s.name}
      /\ whole'[s.name] = [start |-> s.start, tasks |-> s.tasks, templates |-> Readable(s, disk')]
      /\ \A d \in DOMAIN whole : d # s.name => whole'[d] = whole[d]
  BY <1>2 DEF With
<1>5. Saved(s) /\ disk'[s.name] = c
  BY <1>1, <1>2, <1>3, <1>4, WroteSaves
<1>6. RunsFrom(s.name) /\ \A place \in whole'[s.name].templates : place.dir \in Dirs
  <2>1. /\ whole'[s.name].tasks = s.tasks /\ whole'[s.name].start = s.start
        /\ whole'[s.name].templates = Readable(s, disk')
    BY <1>4
  <2>2. /\ s.start \in DOMAIN s.tasks
        /\ \A t \in DOMAIN s.tasks : s.tasks[t].next \subseteq DOMAIN s.tasks
    BY <1>2 DEF Accepted, Valid
  <2>3. ASSUME NEW t \in DOMAIN s.tasks, s.tasks[t].template.dir = Here
        PROVE  Lies(Place(s.name, s.tasks[t].template.png), disk')
    <3>1. t \in Crops(s) /\ s.tasks[t].template.png = t
      BY <2>3 DEF Supplied, Crops
    <3>2. t \in disk'[s.name].pngs /\ s.name \in DOMAIN disk'
      BY <1>3, <1>5, <3>1 DEF Saved
    <3> QED  BY <3>1, <3>2 DEF Lies, Place
  <2>4. \A place \in Readable(s, disk') : Lies(place, disk') /\ place.dir \in Dirs
    BY <1>2, <1>5 DEF Readable, Lies, Saved, StoreInv
  <2> QED  BY <1>3, <1>5, <2>1, <2>2, <2>3, <2>4 DEF RunsFrom
<1>7. \A d \in DOMAIN whole' : d = s.name \/ (d \in DOMAIN whole /\ d # s.name)
  BY <1>4
<1>8. StoreInv'
  BY <1>2, <1>4, <1>5, <1>6, <1>7, OtherRuns, SavedKeeps
<1>9. s.name \in DOMAIN whole' /\ s.start \in DOMAIN whole'[s.name].tasks
  BY <1>2, <1>4 DEF Accepted, Valid
<1> QED  BY <1>5, <1>8, <1>9

\* What was linked before a save is still whole, or not the last to be written.
LEMMA LinksStay ==
  ASSUME StoreInv, NEW s, Saved(s), s.name \in Dirs, NEW dir, NEW start, NEW rev, StillWhole(dir, start, rev)
  PROVE  StillWhole(dir, start, rev)'
<1>1. dir \in Dirs /\ rev \in Nat /\ revision[dir] \in Nat /\ revision'[dir] \in Nat /\ rev <= revision[dir]
  BY StoreAssumption DEF StillWhole, StoreInv, Saved
<1>2. CASE dir = s.name
  <2>1. revision[dir] < revision'[dir]
    BY <1>1, <1>2 DEF Saved
  <2>2. rev <= revision'[dir] /\ rev # revision'[dir]
    BY <1>1, <2>1
  <2> QED  BY <1>1, <2>2 DEF StillWhole
<1>3. CASE dir # s.name
  <2>1. revision'[dir] = revision[dir]
    BY <1>1, <1>3 DEF Saved
  <2>2. dir \in DOMAIN whole => dir \in DOMAIN whole' /\ whole'[dir] = whole[dir]
    BY <1>3 DEF Saved
  <2> QED  BY <1>1, <2>1, <2>2 DEF StillWhole
<1> QED  BY <1>2, <1>3

-----------------------------------------------------------------------------
(* What the panel edits *)

LEMMA InitScenario == Init => ScenarioInv
<1> SUFFICES ASSUME Init PROVE ScenarioInv
  OBVIOUS
<1>1. disk = Base /\ DOMAIN whole = {} /\ DOMAIN torn = Dirs
  BY DEF Init, InitStore
<1>2. SavedScenarioRuns /\ PlacesKnown
  BY <1>1 DEF SavedScenarioRuns, PlacesKnown
<1>3. revision \in [Dirs -> 0..MaxWrites]
  BY StoreAssumption DEF Init, InitStore
<1>4. StoreInv
  BY <1>1, <1>2, <1>3, StoreAssumption DEF StoreInv
<1>5. Supplied(state)
  <2>1. DOMAIN state.tasks = {} /\ state.name \in Dirs
    BY DEF Init, New
  <2> QED  BY <2>1 DEF Supplied
<1>6. LinksAreWhole
  BY DEF Init, LinksAreWhole, Linked
<1> QED  BY <1>4, <1>5, <1>6, InitPanel DEF ScenarioInv

\* No template of a scenario that is loaded belongs beside a definition of
\* another directory.
LEMMA LoadIsSupplied ==
  ASSUME NEW d \in Dirs
  PROVE  Supplied(Load(d))
<1> DEFINE file(t) == disk[d].files[CHOOSE f \in DOMAIN disk[d].files : disk[d].files[f].name = t]
<1>1. /\ Load(d).name = d /\ DOMAIN Load(d).tasks = LoadedNames(d)
      /\ \A t \in LoadedNames(d) :
           Load(d).tasks[t] = Task(file(t).next, Source(file(t).template, d))
  BY DEF Load
<1> HIDE DEF file
<1>2. ASSUME NEW template PROVE Source(template, d).dir # Here
  <2>1. d # Here
    BY StoreAssumption
  <2> QED  BY <2>1 DEF Source, Place
<1>3. ASSUME NEW t \in LoadedNames(d)
      PROVE  DOMAIN Load(d).tasks[t] = {"next", "template"} /\ Load(d).tasks[t].template.dir # Here
  <2>1. PICK next, template : Load(d).tasks[t] = Task(next, Source(template, d))
    BY <1>1
  <2>2. Load(d).tasks[t].template = Source(template, d)
    BY <2>1 DEF Task
  <2> QED  BY <1>2, <2>1, <2>2 DEF Task
<1> QED  BY <1>1, <1>3 DEF Supplied

\* Adding, removing, joining and choosing tasks.
LEMMA TasksStaySupplied ==
  ASSUME PanelInv, Supplied(state),
         \/ \E t : AddCandidate(t) \/ RemoveTask(t) \/ SetStartTask(t)
         \/ \E t, u : ToggleNext(t, u)
         \/ \E d \in Dirs : Rename(d)
  PROVE  Supplied(state')
<1> USE DEF PanelInv, Supplied
<1>1. ASSUME NEW t, AddCandidate(t) PROVE Supplied(state')
  <2>1. /\ state'.name = state.name /\ state'.tasks = With(state.tasks, t, Task({}, Place(Here, t)))
        /\ state'.pending = state.pending \cup {t}
    BY <1>1 DEF AddCandidate
  <2> QED  BY <2>1 DEF With, Task, Place
<1>2. ASSUME NEW t, RemoveTask(t) PROVE Supplied(state')
  <2>1. /\ state'.name = state.name
        /\ state'.tasks = [u \in DOMAIN state.tasks \ {t} |-> state.tasks[u]]
        /\ state'.pending = state.pending \ {t}
    BY <1>2 DEF RemoveTask
  <2> QED  BY <2>1
<1>3. ASSUME NEW t, SetStartTask(t) PROVE Supplied(state')
  BY <1>3 DEF SetStartTask
<1>4. ASSUME NEW t, NEW u, ToggleNext(t, u) PROVE Supplied(state')
  <2>1. /\ state'.name = state.name /\ state'.pending = state.pending
        /\ DOMAIN state'.tasks = DOMAIN state.tasks
        /\ \A v \in DOMAIN state.tasks :
             /\ DOMAIN state'.tasks[v] = DOMAIN state.tasks[v]
             /\ state'.tasks[v].template = state.tasks[v].template
    BY <1>4 DEF ToggleNext
  <2> QED  BY <2>1
<1>5. ASSUME NEW d \in Dirs, Rename(d) PROVE Supplied(state')
  BY <1>5 DEF Rename
<1> QED  BY <1>1, <1>2, <1>3, <1>4, <1>5

\* A step that writes nothing keeps the invariant if its scenario is supplied and
\* what it links is whole.
LEMMA StoreStays ==
  ASSUME StoreInv, UNCHANGED storeVars, Supplied(state')
  PROVE  StoreInv' /\ Supplied(state)'
<1>1. StoreInv'
  BY DEF StoreInv, PlacesKnown, SavedScenarioRuns, storeVars
<1>2. Supplied(state)'
  BY DEF Supplied
<1> QED  BY <1>1, <1>2

LEMMA LinksSame ==
  ASSUME LinksAreWhole, UNCHANGED <<storeVars, defs>>, saved' = saved \/ saved' = None
  PROVE  LinksAreWhole'
BY DEF LinksAreWhole, StillWhole, storeVars

LEMMA EditKeeps ==
  ASSUME ScenarioInv, Panel, ~PanelSaves PROVE StoreInv' /\ Supplied(state)' /\ LinksAreWhole'
<1> USE DEF ScenarioInv
<1>1. CASE NewScenario
  <2>1. PICK d \in Dirs : state' = New(d)
    BY <1>1 DEF NewScenario
  <2>2. Supplied(state')
    BY <2>1 DEF New, Supplied
  <2> QED  BY <1>1, <2>2, StoreStays, LinksSame DEF NewScenario, Editing
<1>2. ASSUME NEW d \in Dirs, OpenExisting(d)
      PROVE  StoreInv' /\ Supplied(state)' /\ LinksAreWhole'
  <2>1. Supplied(state')
    BY <1>2, LoadIsSupplied DEF OpenExisting
  <2> QED  BY <1>2, <2>1, StoreStays, LinksSame DEF OpenExisting, Editing
<1>3. ASSUME \/ \E t : AddCandidate(t) \/ RemoveTask(t) \/ SetStartTask(t)
             \/ \E t, u : ToggleNext(t, u)
             \/ \E d \in Dirs : Rename(d)
      PROVE  StoreInv' /\ Supplied(state)' /\ LinksAreWhole'
  <2>1. Supplied(state')
    BY <1>3, TasksStaySupplied
  <2>2. UNCHANGED <<storeVars, defs, saved>>
    BY <1>3 DEF AddCandidate, RemoveTask, SetStartTask, ToggleNext, Rename, Editing
  <2> QED  BY <2>1, <2>2, StoreStays, LinksSame
<1> QED  BY <1>1, <1>2, <1>3 DEF Panel, PanelSaves

-----------------------------------------------------------------------------
(* What the panel and the session save *)

\* The scenario that is edited stands a save.
LEMMA SupplyStays ==
  ASSUME Supplied(state), state'.name = state.name, state'.tasks = state.tasks,
         state'.pending = state.pending
  PROVE  Supplied(state)'
BY DEF Supplied

\* So do the tasks that were linked.
LEMMA DefinitionsStay ==
  ASSUME StoreInv, LinksAreWhole, NEW s, Saved(s), s.name \in Dirs, defs' = defs
  PROVE  /\ DOMAIN defs' = Ids
         /\ \A id \in Ids : Linked(defs'[id]) =>
              StillWhole(defs[id].dir, defs[id].start, defs[id].revision)'
<1>1. ASSUME NEW id \in Ids, Linked(defs[id])
      PROVE  StillWhole(defs[id].dir, defs[id].start, defs[id].revision)'
  <2>1. StillWhole(defs[id].dir, defs[id].start, defs[id].revision)
    BY <1>1 DEF LinksAreWhole
  <2>2. \A dir, start, rev : StillWhole(dir, start, rev) =>
          /\ dir \in Dirs /\ rev \in Nat /\ rev <= revision'[dir]
          /\ rev = revision'[dir] => /\ dir \in DOMAIN whole'
                                     /\ start = None \/ start \in DOMAIN whole'[dir].tasks
    BY LinksStay DEF StillWhole
  <2> QED  BY <2>1, <2>2 DEF StillWhole
<1> QED  BY <1>1 DEF LinksAreWhole

LEMMA SaveKeeps ==
  ASSUME ScenarioInv, PanelSaves PROVE StoreInv' /\ Supplied(state)' /\ LinksAreWhole'
<1> USE DEF ScenarioInv
<1>0. state.name \in Dirs
  BY DEF Supplied
<1>1. CASE SaveSucceeds
  <2>1. /\ StoreInv' /\ Saved(state)
        /\ state.name \in DOMAIN whole' /\ state.start \in DOMAIN whole'[state.name].tasks
    BY <1>1, CompletesKeeps DEF SaveSucceeds
  <2>2. /\ state'.name = state.name /\ state'.tasks = state.tasks /\ state'.pending = state.pending
        /\ saved' = [dir |-> state.name, start |-> state.start, revision |-> revision'[state.name]]
        /\ defs' = defs
    BY <1>1 DEF SaveSucceeds, PanelInv
  <2>3. Supplied(state)'
    BY <2>1, <2>2, SupplyStays
  <2>4. revision'[state.name] \in Nat
    BY <1>0, <2>1, StoreAssumption DEF StoreInv
  <2>5. StillWhole(saved.dir, saved.start, saved.revision)'
    BY <1>0, <2>1, <2>2, <2>4 DEF StillWhole
  <2>6. LinksAreWhole'
    BY <1>0, <2>1, <2>2, <2>5, DefinitionsStay DEF LinksAreWhole
  <2> QED  BY <2>1, <2>3, <2>6
<1>2. CASE SaveFails
  <2>1. StoreInv' /\ Saved(state)
    BY <1>2, BreaksOffKeeps DEF SaveFails
  <2>2. state' = state /\ saved' = saved /\ defs' = defs
    BY <1>2 DEF SaveFails
  <2>3. Supplied(state)'
    BY <2>1, <2>2, SupplyStays
  <2>4. LinksAreWhole'
    BY <1>0, <2>1, <2>2, DefinitionsStay, LinksStay DEF LinksAreWhole, StillWhole
  <2> QED  BY <2>1, <2>3, <2>4
<1> QED  BY <1>1, <1>2 DEF PanelSaves

LEMMA SessionIsSupplied == Supplied(SessionScenario)
<1> DEFINE names == SubSeq(Steps, 1, steps)
           i(t) == CHOOSE k \in DOMAIN names : names[k] = t
           next(t) == IF i(t) < steps THEN {names[i(t) + 1]} ELSE {}
<1>1. /\ SessionScenario.name = SessionName
      /\ DOMAIN SessionScenario.tasks = ToSet(names) /\ SessionScenario.pending = ToSet(names)
      /\ \A t \in ToSet(names) : SessionScenario.tasks[t] = Task(next(t), Place(Here, t))
  BY DEF SessionScenario
<1> HIDE DEF names, next
<1>2. ASSUME NEW t \in ToSet(names)
      PROVE  /\ DOMAIN SessionScenario.tasks[t] = {"next", "template"}
             /\ SessionScenario.tasks[t].template.dir = Here
             /\ SessionScenario.tasks[t].template.png = t
  <2>1. PICK joined : SessionScenario.tasks[t] = Task(joined, Place(Here, t))
    BY <1>1
  <2> QED  BY <2>1 DEF Task, Place
<1> QED  BY <1>1, <1>2, EditorAssumption DEF Supplied

LEMMA SessionSaveKeeps ==
  ASSUME ScenarioInv, SessionSaves PROVE StoreInv' /\ Supplied(state)' /\ LinksAreWhole'
<1> USE DEF ScenarioInv
<1>1. StoreInv' /\ Saved(SessionScenario)
  BY SessionIsSupplied, CompletesKeeps, BreaksOffKeeps DEF SessionSaves
<1>2. SessionScenario.name \in Dirs
  BY SessionIsSupplied DEF Supplied
<1>3. state' = state /\ saved' = saved /\ defs' = defs
  BY DEF SessionSaves, editorVars
<1>4. Supplied(state)'
  BY <1>1, <1>3, SupplyStays
<1>5. LinksAreWhole'
  BY <1>1, <1>2, <1>3, DefinitionsStay, LinksStay DEF LinksAreWhole, StillWhole
<1> QED  BY <1>1, <1>4, <1>5

-----------------------------------------------------------------------------
(* What is linked *)

\* What a definition points to after a link is what the panel saved.
LEMMA LinkKeeps ==
  ASSUME ScenarioInv, Link PROVE StoreInv' /\ Supplied(state)' /\ LinksAreWhole'
<1> USE DEF ScenarioInv
<1>1. /\ UNCHANGED <<storeVars, state, saved>>
      /\ \/ defs' = defs
         \/ \E id, def : /\ saved # None /\ defs' = [defs EXCEPT ![id] = def]
                         /\ def = Broken \/ \E start \in {None, saved.start} : def = Implemented(start)
  BY DEF Link, Register, SelectStub, BindStub, Linking, editorVars
<1>2. StoreInv' /\ Supplied(state)'
  BY <1>1, StoreStays
<1>3. ASSUME NEW id \in Ids, Linked(defs'[id])
      PROVE  StillWhole(defs'[id].dir, defs'[id].start, defs'[id].revision)
  <2>1. CASE defs'[id] = defs[id]
    BY <1>3, <2>1 DEF LinksAreWhole
  <2>2. CASE saved # None /\ \E start \in {None, saved.start} : defs'[id] = Implemented(start)
    BY <2>2 DEF LinksAreWhole, Implemented, StillWhole
  <2> QED  BY <1>1, <1>3, <2>1, <2>2 DEF LinksAreWhole, Linked
<1>4. LinksAreWhole'
  BY <1>1, <1>3 DEF LinksAreWhole, StillWhole, storeVars
<1> QED  BY <1>2, <1>4

LEMMA NextScenario == ScenarioInv /\ [Next]_vars => ScenarioInv'
<1> SUFFICES ASSUME ScenarioInv, [Next]_vars PROVE ScenarioInv'
  OBVIOUS
<1>1. PanelInv'
  BY PanelKeeps, SessionKeeps, OthersKeep DEF Next, Session, ScenarioInv
<1>2. StoreInv' /\ Supplied(state)' /\ LinksAreWhole'
  <2>1. CASE Panel
    BY <2>1, EditKeeps, SaveKeeps
  <2>2. CASE Link
    BY <2>2, LinkKeeps
  <2>3. CASE SessionSaves
    BY <2>3, SessionSaveKeeps
  <2>4. CASE ConfirmStep \/ UndoStep \/ UNCHANGED vars
    <3>1. UNCHANGED <<storeVars, state, saved, defs>>
      BY <2>4 DEF ConfirmStep, UndoStep, Demonstrating, editorVars, vars
    <3>2. Supplied(state')
      BY <3>1 DEF ScenarioInv
    <3> QED  BY <3>1, <3>2, StoreStays, LinksSame DEF ScenarioInv
  <2> QED  BY <2>1, <2>2, <2>3, <2>4 DEF Next, Session
<1> QED  BY <1>1, <1>2 DEF ScenarioInv

\* Whatever is opened, edited, saved, broken off and linked, in any order and from
\* any directories: what was saved can be run as SavedScenarioRuns says, every
\* template that belongs beside a definition of the edited scenario is at hand for
\* the next save, to any directory, and what was linked is whole until it is
\* saved over.
THEOREM ScenarioInvariant == Spec => []ScenarioInv
BY InitScenario, NextScenario, PTL DEF Spec

\* A scenario that was saved keeps its definitions and its templates, those of
\* other pipelines as long as no save to them breaks off (scenario_save.rs:
\* save_scenario_with_warnings; scenario_panel.rs: save keeps the crops).
THEOREM SavedCorrect == Spec => []SavedScenarioRuns
<1>1. ScenarioInv => SavedScenarioRuns
  BY DEF ScenarioInv, StoreInv
<1> QED  BY <1>1, ScenarioInvariant, PTL

\* A linked task starts with a task of the scenario as it was saved
\* (scenario_task_link.rs: register_and_enable_task, bind_and_enable_task).
THEOREM LinkCorrect == Spec => []LinkedTaskStarts
<1>1. ScenarioInv => LinkedTaskStarts
  <2> SUFFICES ASSUME ScenarioInv, NEW id \in Ids, Linked(defs[id]),
                      defs[id].revision = revision[defs[id].dir]
               PROVE  /\ defs[id].dir \in DOMAIN whole
                      /\ (IF defs[id].start = None THEN disk[defs[id].dir].start ELSE defs[id].start)
                           \in DOMAIN whole[defs[id].dir].tasks
    BY DEF LinkedTaskStarts, Linked
  <2>1. /\ defs[id].dir \in DOMAIN whole
        /\ defs[id].start = None \/ defs[id].start \in DOMAIN whole[defs[id].dir].tasks
    BY DEF ScenarioInv, LinksAreWhole, StillWhole
  <2>2. disk[defs[id].dir].start \in DOMAIN whole[defs[id].dir].tasks
    BY <2>1 DEF ScenarioInv, StoreInv, SavedScenarioRuns
  <2> QED  BY <2>1, <2>2
<1> QED  BY <1>1, ScenarioInvariant, PTL
=============================================================================
