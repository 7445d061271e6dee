----------------------------- MODULE StudioQueue ----------------------------
(***************************************************************************)
(* The task queue of the studio's home page (tasks_queue.rs, app.rs): the  *)
(* checked tasks run one after the other as child processes.  The queue    *)
(* moves when a frame of that page drains the exit of a child; a failure   *)
(* pauses it until the user resumes or aborts.                             *)
(*                                                                         *)
(* The interface is one thread.  A frame drains, then offers its buttons;  *)
(* a start or an abort blocks it until the reader threads are joined, and  *)
(* the children and their readers run on meanwhile.                        *)
(***************************************************************************)
EXTENDS ChildLog, SequencesExt

CONSTANTS
  Tasks,     \* ids of the task definitions
  MaxQueues  \* bound on the queues the user starts

QueueStates == {"Running", "PausedAfterFailure", "Completed"}

\* None is no queue either.
ASSUME QueueAssumption ==
  /\ MaxQueues \in Nat
  /\ None \notin [state : QueueStates, current : Nat, entries : Seq(Tasks), aborted : BOOLEAN]

VARIABLES
  selectable,  \* tasks whose definition is implemented
  selected,    \* TaskQueue.selected
  queue,       \* StudioApp.task_queue: a QueueExec or None
  pc,          \* where the frame is: Idle, Buttons, Start or Abort
  trail        \* what the queue did, in order (history)

queueVars == <<selectable, selected, queue, pc, trail>>
vars == <<childVars, queueVars>>


QueueExec(state, current, entries, aborted) ==
  [state |-> state, current |-> current, entries |-> entries, aborted |-> aborted]

In(state) == queue # None /\ queue.state = state

Active == queue # None /\ queue.state # "Completed"

\* History entries. queue is numbered by the starts in the trail.
Did(ev, entry) == [ev |-> ev, entry |-> entry, run |-> run]
Record(ev, entry) == trail' = Append(trail, Did(ev, entry))

Init ==
  /\ InitChild
  /\ selectable \in SUBSET Tasks
  /\ selected = <<>>
  /\ queue = None
  /\ pc = "Idle"
  /\ trail = <<>>

-----------------------------------------------------------------------------
(* Choosing tasks.  What is checked is read by a start only, which an active
   queue refuses: a choice made during a queue is the same choice made after. *)

\* The checked tasks of S, in the order in which they were checked.
CheckedIn(S) ==
  LET kept == {i \in DOMAIN selected : selected[i] \in S}
      Rank(i) == Cardinality({j \in kept : j <= i})
  IN [k \in 1..Cardinality(kept) |-> selected[CHOOSE i \in kept : Rank(i) = k]]

Toggle(t) ==
  /\ pc = "Buttons"
  /\ ~Active
  /\ t \in selectable
  /\ selected' = IF Contains(selected, t) THEN CheckedIn(Tasks \ {t})
                 ELSE Append(selected, t)
  /\ UNCHANGED <<childVars, selectable, queue, pc, trail>>

\* Slip: the checks outlive their definitions.
ReloadKeepingChecks ==
  /\ pc = "Idle"
  /\ ~Active
  /\ selectable' \in SUBSET Tasks
  /\ UNCHANGED <<childVars, selected, queue, pc, trail>>

\* on_scenario_task_event: the definitions are read again and what was checked
\* is checked again, as far as it is still selectable.
ReloadDefinitions ==
  /\ pc = "Idle"
  /\ ~Active
  /\ selectable' \in SUBSET Tasks
  /\ selected' = CheckedIn(selectable')
  /\ UNCHANGED <<childVars, queue, pc, trail>>

\* The read fails: the old list is kept, and checking what was checked again
\* unchecks it.
ReloadFails ==
  /\ pc = "Idle"
  /\ ~Active
  /\ selected' = CheckedIn(Tasks \ selectable)
  /\ UNCHANGED <<childVars, selectable, queue, pc, trail>>

-----------------------------------------------------------------------------
(* QueueExec *)

\* advance_from, with the frame going on to spawn the next task.
AdvanceFrom(current) ==
  IF current < Len(queue.entries)
  THEN /\ queue' = [queue EXCEPT !.state = "Running", !.current = current + 1]
       /\ pc' = "Start"
  ELSE /\ queue' = [queue EXCEPT !.state = "Completed"]
       /\ pc' = "Buttons"

Fail == queue' = [queue EXCEPT !.state = "PausedAfterFailure"]

\* Slip: only a code other than zero is a failure.
OnExitWithoutCode(code) ==
  IF ~In("Running") THEN UNCHANGED queue /\ pc' = "Buttons"
  ELSE IF code # "NonZero" THEN AdvanceFrom(queue.current)
  ELSE Fail /\ pc' = "Buttons"

\* on_exit, for the first exit of the drained channel.
OnExit(code) ==
  IF ~In("Running") THEN UNCHANGED queue /\ pc' = "Buttons"
  ELSE IF code = "Zero" THEN AdvanceFrom(queue.current)
  ELSE Fail /\ pc' = "Buttons"

-----------------------------------------------------------------------------
(* A frame of the home page *)

\* drain_task_logs, which leaves the channel alone when there was no queue yet.
Drain ==
  /\ pc = "Idle"
  /\ IF queue = None
     THEN UNCHANGED <<childVars, queue, trail>> /\ pc' = "Buttons"
     ELSE /\ DrainChannel
          /\ IF FirstExit = None
             THEN UNCHANGED <<queue, trail>> /\ pc' = "Buttons"
             ELSE /\ OnExit(FirstExit.code)
                  /\ IF In("Running")
                     THEN trail' = Append(trail, [ev |-> "exit", entry |-> queue.current,
                                                  run |-> FirstExit.run])
                     ELSE UNCHANGED trail
  /\ UNCHANGED <<selectable, selected>>

NoClick ==
  /\ pc = "Buttons"
  /\ pc' = "Idle"
  /\ UNCHANGED <<childVars, selectable, selected, queue, trail>>

QueuesStarted == Quantify(DOMAIN trail, LAMBDA i : trail[i].ev = "new")

\* start_task_entries.
ClickStart ==
  /\ pc = "Buttons"
  /\ selected # <<>>
  /\ ~Active
  /\ QueuesStarted < MaxQueues
  /\ queue' = QueueExec("Running", 1, selected, FALSE)
  /\ pc' = "Start"
  /\ Record("new", 0)
  /\ UNCHANGED <<childVars, selectable, selected>>

\* resume_task_queue: the failed task is left behind.
ClickResume ==
  /\ pc = "Buttons"
  /\ In("PausedAfterFailure")
  /\ AdvanceFrom(queue.current)
  /\ Record("resume", queue.current)
  /\ UNCHANGED <<childVars, selectable, selected>>

\* spawn_task_spec: the child is started, or the queue told of an exit.
StartTask ==
  /\ pc = "Start"
  /\ ~IsRunning
  /\ Spawn
  /\ trail' = Append(trail, [ev |-> "start", entry |-> queue.current, run |-> run'])
  /\ pc' = "Idle"
  /\ UNCHANGED <<selectable, selected, queue>>

StartFails ==
  /\ pc = "Start"
  /\ IF IsRunning THEN UNCHANGED childVars ELSE SpawnFails
  /\ Fail
  /\ pc' = "Idle"
  /\ UNCHANGED <<selectable, selected, trail>>

\* abort_task_queue.  The child is stopped before the queue is.
ClickAbort ==
  /\ pc = "Buttons"
  /\ Active
  /\ IF held THEN StopChild ELSE UNCHANGED childVars
  /\ pc' = "Abort"
  /\ UNCHANGED <<selectable, selected, queue, trail>>

\* Slip: the queue is left where it could be resumed.
AbortQueuePaused ==
  /\ pc = "Abort"
  /\ Joined
  /\ queue' = QueueExec("PausedAfterFailure", queue.current, <<>>, TRUE)
  /\ Record("abort", queue.current)
  /\ pc' = "Idle"
  /\ UNCHANGED <<childVars, selectable, selected>>

AbortQueue ==
  /\ pc = "Abort"
  /\ Joined
  /\ queue' = QueueExec("Completed", queue.current, <<>>, TRUE)
  /\ Record("abort", queue.current)
  /\ pc' = "Idle"
  /\ UNCHANGED <<childVars, selectable, selected>>

-----------------------------------------------------------------------------
Choose == (\E t \in Tasks : Toggle(t)) \/ ReloadDefinitions \/ ReloadFails
Click == ClickStart \/ ClickResume \/ ClickAbort
Blocked == StartTask \/ StartFails \/ AbortQueue
Child == (ReaderStep \/ ProcessExits) /\ UNCHANGED queueVars

Next == Choose \/ Drain \/ NoClick \/ Click \/ Blocked \/ Child

\* The threads run, and a frame that blocks on them goes on when it gets them
\* back.  Neither the user nor a child has to act, and nothing asks for another
\* frame of the page.
Fairness ==
  /\ WF_vars(ReaderStep /\ UNCHANGED queueVars)
  /\ WF_vars(Blocked)

Spec == Init /\ [][Next]_vars /\ Fairness

-----------------------------------------------------------------------------
(* Properties *)

Starts == {i \in DOMAIN trail : trail[i].ev = "start"}

\* The positions of the trail since the queue at i was created.
SameQueue(i) == {j \in DOMAIN trail : \A k \in DOMAIN trail :
                   (trail[k].ev = "new" /\ k > j) => k > i}

\* The channel outlives its children, and a stopped child still reports its
\* exit.  The queue nevertheless only moves on the exit of its current task:
\* a frame that finds the queue running has no other exit to drain.
ExitIsOfCurrentTask ==
  \A i \in DOMAIN trail : trail[i].ev = "exit" =>
    LET mine == {j \in Starts : j < i} IN
      /\ mine # {}
      /\ trail[i].run = trail[Max(mine)].run
      /\ trail[i].entry = trail[Max(mine)].entry

\* A task is started after the one before it succeeded, or after the user
\* chose to go on without it; and no task of a queue is started twice.
StartedInTurn ==
  \A i \in Starts :
    LET before == {j \in Starts : j < i /\ j \in SameQueue(i)} IN
      /\ \A j \in before : trail[j].entry < trail[i].entry
      /\ trail[i].entry > 1 =>
           \/ \E j \in before : /\ trail[j].entry = trail[i].entry - 1
                                /\ codes[trail[j].run] = "Zero"
           \/ \E k \in SameQueue(i) : k < i /\ trail[k].ev = "resume"
                                      /\ trail[k].entry = trail[i].entry - 1

\* An aborted queue leaves no child behind and starts none: what follows its
\* end in the trail is a new queue.
AbortIsFinal ==
  /\ \A i \in DOMAIN trail : (trail[i].ev = "abort" /\ i < Len(trail)) => trail[i + 1].ev = "new"
  /\ (queue # None /\ queue.aborted) => ~Alive

\* The checked tasks are distinct and can be run, whatever is reloaded.
ChecksAreRunnable == IsInjective(selected) /\ ToSet(selected) \subseteq selectable

\* The child of a running queue is over, and no frame has seen it yet.
Stalled == In("Running") /\ pc \in {"Idle", "Buttons"} /\ ~Alive

\* The exit of the current task is the one a frame would find.
ExitWaits == FirstExit # None /\ FirstExit.run = run

\* The threads bring the exit of an over child to where the next frame of the page
\* finds it, and that frame moves the queue or pauses it; unless the exit was
\* lost, and then the queue stays until the user aborts it.  When that frame
\* comes is left open.
QueueMoves ==
  /\ Stalled ~> (~Stalled \/ ExitWaits \/ run \in lost)
  /\ [][(Drain /\ Stalled /\ ExitWaits) => ~Stalled']_vars

\* A frame that stops or starts a child gets its threads back: the stop kills
\* the child first, and a start follows the end of the one before.
FrameReturns == (pc \in {"Start", "Abort"}) ~> (pc = "Idle")
=============================================================================
