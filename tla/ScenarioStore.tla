---------------------------- MODULE ScenarioStore ---------------------------
(***************************************************************************)
(* The pipeline directories on disk, and how a scenario is saved to one    *)
(* and loaded from one (scenario_save.rs, scenario_load.rs,                *)
(* scenario_validate.rs).  A save is a series of writes: templates,        *)
(* manifest, task definitions, and last the definitions of tasks that are  *)
(* gone are removed.  Any write can fail and leave its file as it was or   *)
(* unreadable.  A scenario here does not know the order of its lists, so   *)
(* any template, and any definition, may be the first to be written.       *)
(*                                                                         *)
(* A task is the tasks it may lead to and the place of its template: a file *)
(* in a directory, that of another pipeline or one outside of them all.    *)
(* A scenario has the fields of ScenarioEditorState.                       *)
(***************************************************************************)
EXTENDS Integers, FiniteSets, SequencesExt

CONSTANTS
  None,
  Broken,    \* what is in a file that a failed write left unreadable
  Dirs,      \* names of pipeline directories
  Names,     \* names of tasks, and of their files
  Base,      \* the directories that are there from the start, and their content
  MaxWrites  \* bound on the saves that write something

VARIABLES
  disk,     \* the directories there are, and their content
  whole,    \* by directory, the scenario its last write completed (history)
  revision, \* by directory, the number of the save that wrote it last (history)
  torn      \* by directory, the number of the last save that broke off there (history)

storeVars == <<disk, whole, revision, torn>>

Here == "Here"        \* the directory of the task definition, whichever it is

ASSUME StoreAssumption ==
  /\ None \notin Dirs /\ Here \notin Dirs
  /\ DOMAIN Base \subseteq Dirs
  /\ MaxWrites \in Nat

Place(dir, png) == [dir |-> dir, png |-> png]

\* Where the template of a task in d is looked for.
Source(template, d) == IF template.dir = Here THEN Place(d, template.png) ELSE template

Task(next, template) == [next |-> next, template |-> template]
TaskFile(name, task) == [name |-> name, next |-> task.next, template |-> task.template]

LastWrite == Max({revision[d] : d \in Dirs})

InitStore ==
  /\ disk = Base
  /\ whole = <<>>
  /\ revision = [d \in Dirs |-> 0]
  /\ torn = [d \in Dirs |-> 0]

-----------------------------------------------------------------------------
(* Validation *)

\* validation_issues is empty, as far as tasks, start and references go.
Valid(s) ==
  /\ DOMAIN s.tasks # {}
  /\ s.start \in DOMAIN s.tasks
  /\ \A t \in DOMAIN s.tasks : s.tasks[t].next \subseteq DOMAIN s.tasks

\* task_out_paths: a task loaded from a file goes back to it.
Stem(s, t) == IF t \in DOMAIN s.files THEN s.files[t] ELSE t

\* Slip: two tasks may share a file.
DistinctFilesOfNew(s) == IsInjective([t \in DOMAIN s.tasks |-> t])

\* check_unique_out_paths.
DistinctFiles(s) == IsInjective([t \in DOMAIN s.tasks |-> Stem(s, t)])

\* is_owned_dir, for a directory that is there.
Owned(s, d) == s.loaded_from = d

Accepted(s) ==
  /\ Valid(s)
  /\ DistinctFiles(s)
  /\ s.name \in DOMAIN disk => Owned(s, s.name)

-----------------------------------------------------------------------------
(* Saving *)

\* pngs are the templates that can be read: one that cannot be is as good as none.
Empty == [start |-> None, files |-> <<>>, pngs |-> {}]

\* What is in the directory of s before the first write, which creates it.
Before(s) == IF s.name \in DOMAIN disk THEN disk[s.name] ELSE Empty

\* The templates at hand for the tasks of s.
Crops(s) == s.pending \cap DOMAIN s.tasks

\* What is in it when the templates pngs, a manifest with the start and the
\* definitions of the tasks are written.
Written(s, pngs, start, tasks) ==
  LET old == Before(s)
      stems == {Stem(s, t) : t \in tasks}
      of(stem) == CHOOSE t \in tasks : Stem(s, t) = stem
  IN [start |-> start,
      pngs |-> old.pngs \cup pngs,
      files |-> [f \in DOMAIN old.files \cup stems |->
                   IF f \in stems THEN TaskFile(of(f), s.tasks[of(f)]) ELSE old.files[f]]]

With(files, stem, file) == [f \in DOMAIN files \cup {stem} |-> IF f = stem THEN file ELSE files[f]]

\* img.save truncates the file first: another template is lost, or as it was.
FailsAtTemplate(s) ==
  UNION {LET dir == Written(s, pngs, Before(s).start, {})
         IN {dir} \cup {[dir EXCEPT !.pngs = @ \ {t}] : t \in Crops(s) \ pngs} :
           pngs \in SUBSET Crops(s)}

FailsAtManifest(s) == {Written(s, Crops(s), Broken, {})}

FailsAtDefinition(s) ==
  UNION {LET dir == Written(s, Crops(s), s.start, tasks)
         IN {dir} \cup {[dir EXCEPT !.files = With(@, Stem(s, t), Broken)] :
                          t \in DOMAIN s.tasks \ tasks} :
           tasks \in SUBSET DOMAIN s.tasks \ {DOMAIN s.tasks}}

\* Slip: the templates of tasks that are gone are removed too.
SweptWithTemplates(s, dir) ==
  {[dir EXCEPT !.files = [f \in {Stem(s, t) : t \in DOMAIN s.tasks} |-> @[f]],
               !.pngs = @ \cap {s.tasks[t].template.png : t \in DOMAIN s.tasks}]}

\* sweep_removed_taskdefs, which passes over what it cannot remove.
Swept(s, dir) ==
  LET written == {Stem(s, t) : t \in DOMAIN s.tasks}
  IN {[dir EXCEPT !.files = [f \in written \cup kept |-> @[f]]] :
        kept \in SUBSET (DOMAIN dir.files \ written)}

Wrote(d, content) ==
  /\ disk' = With(disk, d, content)
  /\ revision' = [revision EXCEPT ![d] = LastWrite + 1]

Lies(place, dirs) == place.dir \in DOMAIN dirs /\ place.png \in dirs[place.dir].pngs

\* The templates of s, once saved, that lie in a pipeline and can be read.
Readable(s, dirs) ==
  {place \in {Source(s.tasks[t].template, s.name) : t \in DOMAIN s.tasks} : Lies(place, dirs)}

\* save_scenario_with_warnings, all the way through.  Templates that are not at
\* hand are not looked at.
SaveCompletes(s) ==
  /\ LastWrite < MaxWrites
  /\ Accepted(s)
  /\ \E content \in Swept(s, Written(s, Crops(s), s.start, DOMAIN s.tasks)) : Wrote(s.name, content)
  /\ whole' = With(whole, s.name, [start |-> s.start, tasks |-> s.tasks,
                                    templates |-> Readable(s, disk')])
  /\ UNCHANGED torn

\* It fails at one of its writes.
SaveBreaksOff(s) ==
  /\ LastWrite < MaxWrites
  /\ Accepted(s)
  /\ \E content \in FailsAtTemplate(s) \cup FailsAtManifest(s) \cup FailsAtDefinition(s) :
       Wrote(s.name, content)
  /\ whole' = [d \in DOMAIN whole \ {s.name} |-> whole[d]]
  /\ torn' = [torn EXCEPT ![s.name] = LastWrite + 1]

-----------------------------------------------------------------------------
(* Loading *)

\* load_pipeline and the manifest: every file of the directory must be read.
Loadable(d) ==
  /\ d \in DOMAIN disk
  /\ disk[d].start # Broken
  /\ DOMAIN disk[d].files # {}
  /\ \A f \in DOMAIN disk[d].files : disk[d].files[f] # Broken

Loaded(d) == {disk[d].files[f] : f \in DOMAIN disk[d].files}
LoadedNames(d) == {file.name : file \in Loaded(d)}

\* load_scenario_from_dir, for a directory with a manifest, whether the templates
\* can be read or not.
Load(d) ==
  LET named(t) == CHOOSE f \in DOMAIN disk[d].files : disk[d].files[f].name = t
  IN [name |-> d,
      start |-> disk[d].start,
      tasks |-> [t \in LoadedNames(d) |->
                   Task(disk[d].files[named(t)].next,
                        Source(disk[d].files[named(t)].template, d))],
      files |-> [t \in LoadedNames(d) |-> named(t)],
      pending |-> {},
      loaded_from |-> d]
=============================================================================
