---------------------------- MODULE StudioRunner ----------------------------
(***************************************************************************)
(* The single-run tool of the studio (runner_exec.rs, runner_ui.rs): start *)
(* a pipeline or a routine as a child process, stop it, run it again, and  *)
(* keep a history record of how each run ended.  A run is recorded as      *)
(* cancelled when it is stopped and with its exit code when a frame of the *)
(* run page drains its exit; the other pages do not drain.                 *)
(*                                                                         *)
(* A frame looks at the child once, enables its buttons by that, and does  *)
(* the phases of its page in order.  A click that starts or stops a child  *)
(* blocks the frame until the reader threads are joined.                   *)
(***************************************************************************)
EXTENDS ChildLog, SequencesExt

VARIABLES
  todo,          \* phases the frame has still to do, <<>> between frames
  running,       \* what the frame saw of the child
  exitObserved,  \* exit_observed
  tag,           \* the run that run_started_at and run_strategy are of
  pendingReport, \* the run whose report file is awaited
  lastRun,       \* last_run is Some
  reports,       \* run -> the report file it left, if any
  history,       \* RunHistory.records, newest last
  closed,        \* the application was dropped
  seen,          \* runs whose exit was drained (history)
  overlapped     \* runs whose exit was unread when a start was asked for (history)

runnerVars == <<todo, running, exitObserved, tag, pendingReport, lastRun, reports,
                history, closed, seen, overlapped>>
vars == <<childVars, runnerVars>>

Pages == {"Run", "History", "Strategy"}

\* The run page drains between its own buttons and those of its history list.
PhasesOf(page) ==
  CASE page = "Run"      -> <<"RunButtons", "Drain", "HistoryButtons">>
    [] page = "History"  -> <<"HistoryButtons">>
    [] page = "Strategy" -> <<"StrategyButtons">>

\* A report tells of a pipeline run that spent its iterations without firing,
\* or of anything else (a routine report is always of the second kind).
ReportKinds == {"Spent", "Other"}

\* classify_outcome.
ClassifyOutcome(code, report) ==
  CASE code # "Zero"                      -> "Failed"
    [] code = "Zero" /\ report = "Spent"  -> "BudgetExhausted"
    [] code = "Zero" /\ report # "Spent"  -> "Success"

RunRecord(outcome, code, report) ==
  [run |-> tag, outcome |-> outcome, code |-> code, report |-> report]

At(phase) == todo # <<>> /\ Head(todo) = phase
AtAny(phases) == todo # <<>> /\ Head(todo) \in phases

\* One click a frame: what is left to do after its own phase is to drain.
AfterClick(phase) == IF At("RunButtons") THEN <<phase, "Drain">> ELSE <<phase>>

Init ==
  /\ InitChild
  /\ todo = <<>>
  /\ running = FALSE
  /\ exitObserved = FALSE
  /\ tag = None
  /\ pendingReport = None
  /\ lastRun = FALSE
  /\ reports = [r \in Runs |-> None]
  /\ history = <<>>
  /\ closed = FALSE
  /\ seen = {}
  /\ overlapped = {}

-----------------------------------------------------------------------------
(* Frames *)

OpenFrame(page) ==
  /\ todo = <<>>
  /\ ~closed
  /\ todo' = PhasesOf(page)
  /\ running' = IsRunning
  /\ UNCHANGED <<childVars, exitObserved, tag, pendingReport, lastRun, reports,
                 history, closed, seen, overlapped>>

NoClick ==
  /\ AtAny({"RunButtons", "HistoryButtons", "StrategyButtons"})
  /\ todo' = Tail(todo)
  /\ UNCHANGED <<childVars, running, exitObserved, tag, pendingReport, lastRun,
                 reports, history, closed, seen, overlapped>>

\* reset_run_tracking, and the report awaited.  Slips: one of them is kept.
ForgetRunNotReport == exitObserved' = FALSE /\ tag' = None /\ UNCHANGED pendingReport
ForgetRunNotExit == tag' = None /\ pendingReport' = None /\ UNCHANGED exitObserved

ForgetRun == exitObserved' = FALSE /\ tag' = None /\ pendingReport' = None

\* start_request up to the join: what is known of the last run is forgotten.
RequestStart ==
  /\ ~running
  /\ run < MaxRuns
  /\ ForgetRun
  /\ todo' = AfterClick("Start")
  /\ overlapped' = overlapped \cup {r \in 1..run : r \notin seen \cup lost}
  /\ UNCHANGED <<running, lastRun, reports, history, closed, seen>>

\* start_pipeline_with_selection and start_routine.
ClickStart ==
  /\ AtAny({"RunButtons", "StrategyButtons"})
  /\ RequestStart
  /\ UNCHANGED childVars

\* rerun_pipeline drops the child that ended before it starts the next.
ClickRerun ==
  /\ AtAny({"RunButtons", "HistoryButtons"})
  /\ lastRun
  /\ RequestStart
  /\ IF held THEN StopChild ELSE UNCHANGED childVars

\* The rest of start_request.
StartRun ==
  /\ At("Start")
  /\ ~IsRunning
  /\ Spawn
  /\ tag' = run'
  /\ pendingReport' = run'
  /\ lastRun' = TRUE
  /\ todo' = Tail(todo)
  /\ UNCHANGED <<running, exitObserved, reports, history, closed, seen, overlapped>>

StartFails ==
  /\ At("Start")
  /\ IF IsRunning THEN UNCHANGED childVars ELSE SpawnFails
  /\ todo' = Tail(todo)
  /\ UNCHANGED <<running, exitObserved, tag, pendingReport, lastRun, reports,
                 history, closed, seen, overlapped>>

\* stop_pipeline up to the join.
ClickStop ==
  /\ AtAny({"RunButtons", "HistoryButtons"})
  /\ running
  /\ StopChild
  /\ todo' = AfterClick("Reap")
  /\ UNCHANGED <<running, exitObserved, tag, pendingReport, lastRun, reports,
                 history, closed, seen, overlapped>>

\* The rest of stop_pipeline.  exit_observed stays as it is.
RecordCancel ==
  /\ At("Reap")
  /\ Joined
  /\ IF exitObserved
     THEN UNCHANGED <<pendingReport, history>>
     ELSE /\ pendingReport' = None
          /\ history' = Append(history, RunRecord("Cancelled", None, None))
  /\ todo' = Tail(todo)
  /\ UNCHANGED <<childVars, running, exitObserved, tag, lastRun, reports, closed,
                 seen, overlapped>>

\* load_pending_report: the file may not be there.
LoadedReport == IF pendingReport # None /\ reports[pendingReport] # None
                THEN pendingReport ELSE None

ReportKind == IF LoadedReport # None THEN reports[LoadedReport] ELSE None

\* drain_logs.
DrainLogs ==
  /\ At("Drain")
  /\ DrainChannel
  /\ seen' = seen \cup {chan[i].run : i \in Exits}
  /\ IF FirstExit # None /\ ~exitObserved
     THEN /\ exitObserved' = TRUE
          /\ pendingReport' = None
          /\ history' = Append(history,
               RunRecord(ClassifyOutcome(FirstExit.code, ReportKind),
                         FirstExit.code, LoadedReport))
     ELSE UNCHANGED <<exitObserved, pendingReport, history>>
  /\ todo' = Tail(todo)
  /\ UNCHANGED <<running, tag, lastRun, reports, closed, overlapped>>

\* Slip: the child outlives the window.
CloseDetached ==
  /\ todo = <<>>
  /\ ~closed
  /\ closed' = TRUE
  /\ UNCHANGED <<childVars, todo, running, exitObserved, tag, pendingReport, lastRun,
                 reports, history, seen, overlapped>>

\* Drop: the window is closed between two frames.
Close ==
  /\ todo = <<>>
  /\ ~closed
  /\ closed' = TRUE
  /\ IF held THEN StopChild /\ todo' = <<"Reap">>
     ELSE UNCHANGED <<childVars, todo>>
  /\ UNCHANGED <<running, exitObserved, tag, pendingReport, lastRun, reports,
                 history, seen, overlapped>>

\* The child may leave a report before it exits.
ChildExits ==
  /\ ProcessExits
  /\ \E k \in ReportKinds \cup {None} : reports' = [reports EXCEPT ![run] = k]
  /\ UNCHANGED <<todo, running, exitObserved, tag, pendingReport, lastRun, history,
                 closed, seen, overlapped>>

Readers == ReaderStep /\ UNCHANGED runnerVars

-----------------------------------------------------------------------------
Frame ==
  \/ \E page \in Pages : OpenFrame(page)
  \/ NoClick \/ ClickStart \/ ClickRerun \/ ClickStop
  \/ StartRun \/ StartFails \/ RecordCancel \/ DrainLogs

Next == Frame \/ Close \/ ChildExits \/ Readers

Spec == Init /\ [][Next]_vars

-----------------------------------------------------------------------------
(* Properties *)

Records(r) == {i \in DOMAIN history : history[i].run = r}
Verdicts(r) == {i \in Records(r) : history[i].code # None}

\* A record shows the report of the run it names, or none: a report that was
\* awaited for a run that was stopped or replaced is never shown for another.
ReportIsOfItsRun ==
  \A i \in DOMAIN history :
    history[i].report # None => history[i].report = history[i].run

\* However often the page is drawn, a run is judged once and cancelled once.
JudgedOnce ==
  \A r \in Runs :
    /\ Cardinality(Verdicts(r)) <= 1
    /\ Cardinality(Records(r) \ Verdicts(r)) <= 1

\* As long as no start was asked for before the exit of the run before it was
\* drained, the history is exact: every exit that was drained is recorded, with
\* its code, for the run whose exit it is.
ExactUntilOverlap ==
  overlapped = {} =>
    /\ \A r \in seen : \E i \in Verdicts(r) : history[i].code = codes[r]
    /\ \A r \in Runs : \A i \in Verdicts(r) : history[i].code = codes[r]

\* Closing the studio leaves no child behind.
NoOrphan == (closed /\ todo = <<>>) => ~Alive

\* docs/wiki.md: the history shows the exit codes of past runs, so a record
\* that has a code has that of the run it names.
RecordHasOwnExitCode ==
  \A r \in Runs : \A i \in Verdicts(r) : history[i].code = codes[r]
=============================================================================
