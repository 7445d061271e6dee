# A verification of anaden-helper in TLA+

anaden-helper plays a game for its user: it captures the game's window, looks for
templates in the frame, sends taps and keys, and restarts the game when it seems
dead. A command line runs pipelines and routines; a desktop application (the studio)
runs the command line as a child process and helps to author pipelines.

This directory holds models of the parts in which the order of events decides,
the configurations with which TLC checks them, and proofs for TLAPS. Paths below are
relative to `src/`, and `engine`, `vision`, `cli`, `device` and `studio` are short for
`crates/anaden-engine` and so on. `PROJECT.json` maps every definition to the lines it
models and lists the hazards the properties are for.

## 1. Inventory

### Components, their state and their operations

| component | state | operations | modelled |
|---|---|---|---|
| **Pipeline driver** `engine/pipeline_driver.rs` | position in the pipeline, iteration count, `RecoveryGuard` (miss streak, time of the last recovery, attempts, telemetry), commands fired, matches per task, verification counts, last match, goal context | `run_loop`: capture, watch list, detect, fire, verify, handle the step, recover, sleep, report | `PipelineDriver`, `PipelineHistory` |
| **Goals** `engine/goal.rs` | `GoalStatusContext` (ticks, last match); elapsed time from the driver | `validate`, `tick`, `evaluate` over `LoopCount`, `TemplateMatch`, `Timeout`, `All`, `Any` | `Goal`, `GoalTree`, `GoalRun`, `PipelineGoal` |
| **Pipeline position** `vision/pipeline.rs` | current task, the files of a directory | `run_step`, `advance_next`, `tick`, load and save | in `PipelineDriver`, `ScenarioStore` |
| **Command line** `cli/main.rs`, `contract.rs` | cancellation token, the driver's options, the report file | argument checks, the goal of a manifest, the Ctrl+C listener, the recovery hook, exit codes | `GameCommands` (`ensure-open`, `launch`, `routine`); of `run` what the driver sees |
| **Routines** `engine/routine_runner.rs`, `cli/routine.rs` | index of the step, results so far | run steps in order, `on_failure`, interruption, summary | `GameCommands` |
| **Game life cycle** `device/win32_launch.rs`, `win32_terminate.rs`, `ensure.rs`, `win32_readiness.rs` | the processes of the system, deadlines, samples of the probe | single-instance check, launch and watch, staged termination, readiness probe | `GameLifecycle`, `GameCommands` |
| **Capture and input** `device/win32_capture.rs`, `win32_input.rs` | window handle, the mouse button | find the window, capture, click, swipe | `Win32Device` |
| **Vision** `vision/*` | template store | template matching, scales, letterbox | a frame may show anything |
| **Studio children and logs** `studio/childproc.rs`, `log_process.rs`, `log_buffer.rs` | child handle, two reader threads, a bounded channel | `start`, `stop`, `is_running`, `drain` | `ChildLog` |
| **Studio task queue** `studio/tasks_queue.rs`, `app.rs` | checked tasks, `QueueExec` | toggle, reload, start, drain, resume, abort | `StudioQueue` |
| **Studio run tool** `studio/runner_exec.rs`, `runner_ui.rs`, `history.rs` | `exit_observed`, start tag, awaited report, history | start, rerun, stop, drain, record, close | `StudioRunner` |
| **Studio authoring** `studio/app_ui_authoring.rs`, `app_ui_live.rs`, `source.rs`, `authoring_session.rs` | screenshot, live capture and its channel, region and scores, proposal thread, session | capture, open, drag, score, propose, save a template; tap, region, undo | `LiveView`, `AuthoringPage`, `DemoPage`, `StudioAuthoring` |
| **Studio scenarios** `studio/scenario_*.rs`, `tasks_def.rs` | a scenario being edited, what it was saved as, pipeline directories, task definitions | edit, validate, save, load, link to the home page; the session's save | `ScenarioStore`, `ScenarioEditor` |
| **Offline tools** plan, template, scene and quality tools, batch evaluation, strategies, settings, jitter, diagnostics | files | read, compute, write | no: sequential, no state that outlives a call |

### How they interact

* The driver is one async task. It *awaits* the device (capture, input), the recovery
  hook and a cancellable sleep, and it *calls* the goal. Ctrl+C sets a token the loop
  looks at only at its top and in the sleep.
* The command line passes limits, the goal and the hook. The hook gets the attempt
  number: the first attempt launches the game, a later one ends it first
  (`cli/main.rs`). The outcome becomes the report file and the exit code.
* The studio's interface is one thread that draws frames. It spawns the command line,
  whose pipes two threads read. These share with the interface only a bounded channel,
  on which a full `try_send` is ignored, and the child's handle, which the thread on
  stdout polls for the exit. The interface joins both threads before the next start and
  when it stops a child. The channel belongs to the page, not to the child, and outlives it.
* The queue and the run tool each own a `ChildProcess`. Both react to an exit only when
  a frame of *their* page drains the channel. The report file and the history file are
  how a run tells of itself once it is over.
* The authoring and the demonstration page share one screenshot and one live capture, whose
  thread offers frames through a channel of one place; each page drains it when it is drawn.
  The scenario panel and the session write to the same pipeline directories, and the
  panel's link writes the task definitions the home page loads.
* Capture and input share the desktop with everybody else: each of their system calls
  may see another one.

### What is hard

* Recovery: misses and I/O errors share one budget, which a match or a watch task gives
  back; a grace period after a restart suppresses both; the attempt number chooses the hook's
  behaviour; telemetry spans outages. Several steps must conspire before anything is wrong.
* A step that partly happened: the command is sent and the position has moved when the
  verification fails, or finds the template still there.
* The order inside a step: miss, goal, recovery; and which steps bypass the goal.
* Cancellation at any await, the limit reached at the same time.
* Processes that come and go while a blocking thread polls them: a launcher starts its game
  late, a game refuses to close, a snapshot fails between two stages of a restart.
* In the studio: an exit that arrives after its run was stopped or replaced, exits that
  meet a full channel, frames that join threads, definitions reloaded under a selection.
* Results that outlive what they are of: scores of an image that was replaced, proposals for
  another screenshot, a frame of a session that another page has taken from the channel.
* Saves that break off between two files, and directories that two editors write to.
* Input on a desktop where the window can move, close or lose the foreground between two calls.

What would make each component correct is stated in section 4, beside the runs; the hazards,
with their lines, are in `PROJECT.json`.

## 2. Modules

```
RecoveryPolicy  DriverContract ------------------------- GameCommands
             \   /            INSTANCE
   INSTANCE   \ /
         PipelineDriver ---- PipelineHistory ---- PipelineGoal ---- GoalTree ---- GoalRun ---- MCGoalRun
                                    |              /       \    INSTANCE    |        |
                           MCPipelineRecovery     /         \              Goal     |
                                    PipelineProofs      MCPipelineGoal       GoalRunProofs
                                          \------------- INSTANCE ------------------/

ChildLog ---- StudioQueue  ---- MCStudioQueue
        \          \----------- StudioQueueProofs
         \--- StudioRunner ---- MCStudioRunner
                    \---------- StudioRunnerProofs

LiveView ---- AuthoringPage --- StudioAuthoring ---- MCStudioAuthoring
        \---- DemoPage ------/         |
                             StudioAuthoringProofs

ScenarioStore ---- ScenarioEditor ---- MCScenarioEditor
                         |
                  ScenarioEditorProofs

GameLifecycle ---- GameCommands ---- MCGameCommands
                        |
                  GameCommandsProofs

Win32Device ---- MCWin32Device
     |
Win32DeviceProofs
```

### PipelineDriver

`pc` is where the async task is: `Top` (cancel check, count, limit), `Capture`,
`Execute`, `Verify` (the awaits of `run_once`), `Dispatch` (between `run_once` and the
handling of its outcome, where the clock is read), `Recover` (the hook), `Sleep`, `Done`.
The other variables are fields of the code under their names: `current` is
`PipelineState.current`, `pre` the task at the start of the iteration, `step` the
`StepOutcome`, `guard` the `RecoveryGuard`, `fired`, `matches` and `iterations` those of
`LoopState`, `outcome` the `LoopOutcome`. `cancelled` is the token and `now` the clock.

| code | actions |
|---|---|
| top of `run_loop_core` | `LoopInterrupted`, `LoopLimit`, `LoopBegin` |
| `run_once` | `CaptureFails`, `WatchMatches`, `TaskAbsent`, `DetectFails`, `TaskMatches`, `ExecuteOk`, `ExecuteFails` |
| `verify_action_effect` | `VerifyCaptureFails`, `VerifyStillPresent`, `VerifyGone` |
| `step_matched`, `step_no_match`, `step_fired_unverified`, `step_error`, `step_watch_fired` | `StepMatched`, `StepNoMatch`, `StepFiredUnverified`, `StepError`, `StepWatchFired` |
| the hook, the sleep | `HookSucceeds`, `HookFails`, `Wake` |
| Ctrl+C, time | `Cancel`, `Tick` |

A frame is the game's choice: any defined task on the watch list, the current task, or
nothing may be seen, and any capture, input, detection or hook may fail. Images,
coordinates, jitter, snapshots and diagnose files decide nothing in the loop and are
left out. A command is named by the task it is of.

Two simplifications concern time and the watch list. Time passes only at `Capture` and
`Recover`: every reading of the clock has one of them before it, so no sequence of
readings is lost. And `WatchMatches` lets any watch task match, whatever stands before
it on the list, since what stands before it may not be on the frame.

### RecoveryPolicy

The abstract specification of recovery: a run that observes steps, gives its attempts back
on a healthy one, spends one on each restart, gives up when they are spent and ends with
a report of them. It knows no pipeline, clock, streak, grace or goal. `PipelineDriver` instantiates it
with a mapping: `PolicyPhase` from `pc` and the outcome's reason, `PolicyHealthy` from the
step outcome about to be handled, `PolicyReport` from the outcome, and the three counters from
the guard. A step the driver handles and its reset of the budget happen at once in the code and in the
policy; a hook is two steps in both, as the loop awaits it.

### DriverContract

What a caller of the driver may rely on, and all that a routine knows of it: the driver goes round, sends commands,
asks for recoveries within a budget that a round may give back, and ends for a reason. Which reasons there are hangs on its
options (a hook with a threshold, a goal, a token), and some tell of more than themselves: a terminal
task of a command, an exhausted budget of a spent one. The contract is used on both sides. `GameCommands` takes the driver of
a step from it, with its actions `Round` and `Recover` and its condition `MayEnd`; and `PipelineDriver` implements it, so
what a routine is examined with is what the driver does. The mapping is `CallerPhase`, `CallerUsed`
and `CallerFired`. The code tells a command, gives the budget back and may end, all in the step that handles
an outcome; for a caller the first two have then happened, so the mapping counts a command from when it was sent and a
match from when it is known.

### PipelineHistory

Puts a `log` beside the driver: commands that reached the game, steps handled, hooks
called, restarts, each with its time. The driver never reads it. The properties compare
what the driver decides and reports from its counters and flags with what the log says happened.

### Goal, GoalTree, GoalRun, PipelineGoal

`Goal` holds the stop conditions as records, what each asks, and how an `All` or an `Any` joins the answers of
its children, in the order in which `goal.rs` looks at them. `GoalTree` adds the trees: `StopConditions` are those of a height of at
most `MaxHeight`, of any width, and evaluation and validation are recursive *functions* on them (`Statuses`, `ValidAtDepth`), because
those, unlike recursive operators, can be proved about. `GoalRun` runs an arbitrary goal over
arbitrary steps and compares the result with the *meaning* of a condition over the
history. `PipelineGoal` composes the driver with the goals of a manifest (`manifest_default_goal`: the only one, or any
of several), however nested: the driver's constant operator
`Evaluate` is given `EvaluateStop`, which evaluates them with the functions of `GoalTree` under an `INSTANCE`. What the properties
say of a nested goal is in two functions on trees: `Decisive`, the conditions whose failure fails the whole (of an `Any`
those of every child, of an `All` those of its first, as it looks no further), and `MetBy`, the trees that a set of met
leaves meets. `Pursued` states what a model must give for this: a goal, and this
evaluation of it; `MCPipelineGoal` assumes it, so that TLC checks it.

### ChildLog, StudioQueue, StudioRunner

`ChildLog` is a child, its two readers and the channel; runs are numbered as they are spawned.
An action that joins the readers is split in two: the click, and what follows when
`Joined` holds, so that readers and child run on while the frame is blocked.

`StudioQueue` adds the home page. A frame is `Drain`, then one of `NoClick`, a toggle or
a click; `AdvanceFrom`, `OnExit` and the rest are the functions of `QueueExec`. `StudioRunner` adds the three pages that
can start, stop or rerun: `todo` is what is left of the frame, `running` what the frame saw
of the child when it began. `seen`, `lost`, `trail` and `overlapped` are history.

Abstractions: a line is any line, the buffer that displays lines is left out, an exit code is
zero, another, or none (killed by a signal). A child's pipes end with it, because the
launcher that inherits nothing from them is started with null streams. A frame takes
at most one click. The queue's pause after an exhausted budget is left out: the
application classifies by exit code only and never calls the function that sets it.
The history's limit of records, the settings buttons and the evidence id are left out.

### LiveView, AuthoringPage, DemoPage, StudioAuthoring

An image is a number, with the page or file that put it on the screen. `LiveView` is what
the pages share: `shot` is `screenshot`, `tex` the image that `screenshot_tex` shows, `slot`
the channel of the capture thread. A frame of the interface is three steps, in the
code's order: `BeginPage` (the texture is uploaded, the channel drained), one click in the
panel, and the canvas, which is drawn only with a texture. Between them only the capture
thread and a search for proposals run.

| code | actions |
|---|---|
| `render_body`, `LiveCapture::latest` | `BeginAuthoring`, `BeginDemo`, `BatchFrame` |
| the capture thread, `run_proposals`' thread | `Capture`, `ProposalsDone` |
| the authoring panel | `OpenScreenshot`, `LoadFolder`, `SwitchEngine`, `ToggleCapture`, `RunProposals`, `ApplyProposal`, `SaveTemplate`, `NoClickHere` |
| its canvas | `DragRegion`, `RestCanvas`, `SkipCanvas` |
| the demonstration panel | `ToggleDemoCapture`, `StartSession`, `Undo`, `NoDemoClick` |
| its canvas | `CanvasTap`, `CanvasRegion`, `NoGesture` |

A score is not a number but what it was computed from (image, region, engine, folders): whether
a threshold fits a crop is then a comparison. A region of a session is the image it was drawn on, and
whether it lies in another image is open. What a tap that is passed on does to the game shows
in the frames captured after it.

### ScenarioStore, ScenarioEditor

`ScenarioStore` holds the pipeline directories and what saves and loads do to them. A
directory is the start task of its manifest, its task definitions by file, and those of its
templates that can be read. A task names the place of its template, beside it (`Here`), in the directory of another pipeline, as
`fishing` does, or outside of them all, as `login` does (`../../scenes`), and nothing looks whether it is there before a
run does. `save_scenario_with_warnings` writes templates, manifest and definitions, in this order:
`Written` is the directory after some of these writes, and a save that breaks off leaves one of `FailsAtTemplate`,
`FailsAtManifest` and `FailsAtDefinition`, with the file that failed unreadable or as it was: `img.save` truncates before it
writes, so a template that fails is as good as none, to the tasks of other pipelines too. A scenario of the model
does not know the order of its lists, so any subset of the templates, or of the definitions, may have come before.
`Swept` is the removal of definitions that are gone, which passes over what it cannot remove. `ScenarioEditor` adds the panel
(`state` is `ScenarioEditorState` with the pending templates), the session of the demonstration page as
far as saving goes, and the link to the task definitions of the home page. `whole`,
`revision`, `torn` and `edited` are history: the scenario a directory was last written with and those of its templates that
could be read then, the number of the save, that of the last one that broke off there, and which of them
the panel's scenario was made from.

Every directory has a manifest here, and goals, the watch list, assigned images and the
checks of names and regions are left out; so is the difference of letter case, which
paths ignore.

### Win32Device

The desktop (processes of the game, where each window stands, what is in front, the
button) changes between any two system calls of an operation. `op` is the operation and the call it is at:

| code | `op.step` | actions |
|---|---|---|
| `find_pid_by_name`, `find_visible_hwnd_for_pid`, `find_main_window` | `process`, `window` | `FindProcess`, `FindWindow` |
| `Win32Capture::capture`, `capture_via_printwindow` | `draw` | `CaptureBegins`, `CaptureSucceeds`, `CaptureFails` |
| `bring_to_foreground`, `foreground_belongs_to` | `raise`, `settle` | `Raise`, `CheckFront` |
| `client_to_screen_abs`, `point_in_window_rect` | `aim`, `rect` | `Aim`, `CheckRect` |
| `sendinput_click`, `swipe` | `press`, `release` | `Press`, `PressFails`, `Release`, `ReleaseFails` |
| an early return with an error | | `InputRefused` |

A place stands for coordinates: windows at one place overlap, windows at two do not. `lost` counts
captures that failed in a row though the game was there from their beginning to their end, `settled` is whether the
desktop is as the last check saw it. Handles are not used again by the system, windows are
visible and unowned, a GDI call on a window that is there does not fail, and the moves between press and release of a swipe, keys, text and the
PostMessage method are left out.

### GameLifecycle, GameCommands

`GameLifecycle` holds the processes of the system and one operation on them. `games` are
the processes with the name of the game, numbered as they start; `launchers` those that
may still start one. `op` is where the blocking thread is:

| code | `op` | actions |
|---|---|---|
| `ensure_open` (`run_blocking`) | `Precheck`, `Spawn`, `Discover`, `Monitor` | `PrecheckChildRunning`, `EnsureSpawns`, `SpawnFails`, `ChildSeen`, `ChildNotAppeared`, `QueryAlive`, `QueryExited`, `QueryFails`, `ChildSurvives` |
| `terminate_child_staged` | `Close`, `Closing`, `Force` | `PostClose`, `WaitUntilGone`, `ForceTerminate`, `ForcedGone` |
| `launch_app`, alone or after it | `Launch` | `LaunchApp`, `SpawnFails` |
| any snapshot of the processes | | `SnapshotFails` |

Between any two steps a launcher may start its game or give up, a game may exit, and the
deadline may pass. Polls are therefore not counted.

`GameCommands` adds the commands that use it: `ensure-open` and `launch` with their readiness
probe, and `routine` with its steps, its `on_failure` policies, its recovery hook, its
summary and its exit code. The driver of a step is reduced to its contract: it asks for
recoveries within its budget, in which a match may start a new series, and ends for one of
the reasons that a driver with a hook and a threshold, without a goal and without a token can have.
That contract is `DriverContract`. Ctrl+C ends the blocking operation
with the process, which exits as soon as the summary is out (if the report cannot be
written the runtime waits for it, and nobody takes its result); while a routine still waits
for `ensure_open` there is no handler and the process just dies. Frame digests, sockets,
evidence names and the validation of a routine file are data and left out.

### Slips

An operator commented `Slip:` is not part of a specification. It is the definition after
it with one plausible mistake (a reset forgotten, a bound off by one, an order swapped). Each property
is paired in `PROJECT.json` with a slip that TLC finds it violated under, which shows
that the property depends on the code.

## 3. Running

`tlc -config MCPipelineRecovery.cfg MCPipelineRecovery` and so on; `MCPipelineLoopCount.cfg`
belongs to `MCPipelineGoal`, `MCGoalAllPriority.cfg` to `MCGoalRun` and `MCStudioRunnerExit.cfg`
to `MCStudioRunner`. `tlapm` on each module whose name ends in `Proofs` checks the proofs, in about three
minutes all together.
Deadlock is not checked where a run of the driver ends, a goal is decided, a command exits, or the studio is
closed or has spent its bound of children, images or saves.

## 4. Runs

**recovery** (691,173 states). A chain of login, notice and home with a popup on watch, with and
without a command, with and without a successor; four iterations, threshold 2, grace 2, budget 2, a
clock up to 4, verification on. Four iterations hold the shortest stories of interest: two
misses, a hook, an error after the grace, a second hook, exhaustion; a match between two outages;
the whole chain with one failure in it. The clock passes the grace twice.
`NoHookWhileBooting`, `HookHasCause` and `MissesNotIgnored` say when the hook is called and
when it must be, in terms of the steps since the last healthy one; `TelemetryIsExact`
what the report says of it. `PositionFollowsEvidence`: where the pipeline stands is where the
last evidence puts it. `ReportTellsCommands`: the report's commands are those that reached
the game, in order, but for the ones whose effect could not be looked at.
`KeepsRecoveryPolicy` is a refinement: the driver is one of the runs that `RecoveryPolicy` allows.

**pipeline_goal** (515,074 states). A chain of two tasks, the last with a command, and a popup; two nested goals: three steps and
the template of `clear` or of the popup, and four steps or a limit of three seconds; four iterations, a clock that reaches the limit, recovery and verification on, a popup on watch, Ctrl+C at
any moment: a match may be reached, too weak for the goal at the end of the chain, or undone by the look at its effect. `GoalReachedIsSeen`: a goal is reached only when the log meets it, its counts after as many evaluated steps, its templates on the last
match only and not on a command whose effect was never looked at (what the watch list sees of the popup does not count). `TimeLimitNoticed`,
`NoHookAfterTimeLimit`: the first step past a limit that decides the goal ends the run, before any recovery.
`CancelStopsRun`: from a cancel on no iteration begins. `KeepsDriverContract`, a refinement too: the driver, with recovery, a goal and a
token, is one of those that `DriverContract` allows. `Termination`: the run ends, under weak
fairness of the loop.

**goal** (41,541 states). Leaves on both sides of each bound and their flat and nested compositions, three
steps; trees of a height of at most 3, one more than the depth that validation is told to allow. `DecisionIsJustified` and `MetIsNoticed` compare the evaluation with the
meaning of the condition, in both directions; `MetIsNoticed` is also why a count of steps alone or
in an Any ends a run, as the manual promises: no limit and no open alternative beside it keeps the goal pending.
`AnyFailurePriority` is the documented priority, at any depth: a condition that decides the goal fails it, whatever else is met. `AcceptedIsSound` is about what validation keeps out: goals that
would be decided by nothing (`PendingAtStart`), and goals nested beyond the limit (`DepthIsBounded`). Depth 2 is enough for every pair of nested operators.

**studio_queue** (669,596 states). Two tasks, four children, two queues, a line or none on each pipe and a
channel of two: a channel full of lines, an exit left behind by an abort, a queue
started over it. `ExitIsOfCurrentTask` is the surprising one: the channel outlives its
children, and yet a running queue never takes the exit of another child for its own, because
every start joins the readers and a frame drains before it offers its buttons.
`StartedInTurn`, `AbortIsFinal`, `ChecksAreRunnable` follow a queue
through pauses, aborts and reloads. `QueueMoves` says that an exit is lost
in one way only, to a full channel; any other comes to where the next frame of the page finds it,
and that frame moves the queue or pauses it. `FrameReturns` says that no frame waits for ever.

**studio_runner** (638,570 states). Two runs, all pages. `ReportIsOfItsRun`, `JudgedOnce`,
`ExactUntilOverlap`, `NoOrphan`: what the history says of each run. `ExactUntilOverlap`
draws the line at which the third divergence below begins.

**game_commands** (2,437,280 states). Two steps with two recoveries each, three games,
three launchers, a probe of two samples. Two recoveries are a launch and a restart; two
steps show what a failure does to the rest; three games are one of before, one late and one
new. `RestartReplacesGame`: a restart that succeeded has left none of the games it found
and started one launcher; one that failed has started none. `StandaloneExitTells`:
what an exit code of `ensure-open` and `launch` lets a script conclude. `SummaryTellsRun`: the
summary and exit code of a routine against how each of its drivers really ended.

**studio_authoring** (1,593,544 states). Two images, two regions, two engines, one folder, one
demonstrated step. Two images are the one a result is of and the one that replaced it. `SavedThresholdFits`: a threshold that is written was
computed for the very crop, engine and folders it is written with, whatever was opened,
switched, loaded or proposed in between; for a live image as far as it had been scored, because a frame that
takes one from the channel offers its buttons first and scores after. `StepIsOfShownImage`: the template of a step is cut from what the user had
before him, although two pages drain one channel; the page that did not drain shows an image that
is not its session's, which is the exception stated. `ProposalsArrive`: a search comes to a
list that waits for the page, however often the screenshot is replaced, and the first frame that finds it ends the search.

**scenario** (4,679,994 states). A directory that is there, whose task `Step1` lies in the file
`Step2` and has its template in the other directory, one that the session and the panel both write to, two task names, a session of up to two steps,
three saves, one task definition. Three saves are one of each editor and one over the result.
`SavedScenarioRuns`: after a save that completed, the start and all that it may lead to have their own definition,
the templates beside them can be read, and so can every other template that could be read then, although saves before it broke off anywhere and tasks go back to files of other
names. The exception is a template in the directory of another pipeline to which a save broke off since: that one may be
torn, and the run that needs it fails with `TemplateLoadFailed` (`pipeline.rs:296`). TLC reaches such a state: without
the exception the property is violated by a save of the session over a template that the base pipeline uses. That a later save puts
another image in the place of a template is not told apart. `NoForeignOverwrite`: what the panel's save replaces is what its scenario was made from.
`LinkedTaskStarts`: a linked task starts at a task of the pipeline it was linked to, whatever the panel is edited to afterwards.

**win32_device** (906,736 states). Two processes of the game, one other window, two places, six changes of
the desktop: the shortest restart (end, start, window) with two changes left under the capture or
the input that follows and one before it. `StaleHandleCostsOneFrame`: the cached handle of a game
that was restarted fails one capture and not the next. `StrayPressIsLate`: on a desktop that did not
change since the last check the press lands on the game; what is left of the danger is the time between that check
and the press. `HeldButtonIsTold`: a button that stays down was told of by an error, or the program was killed.

### Where code and documents differ

* **loop_count_ticks**: `docs/goal-manifest.md:56` says `LoopCount` counts every
  iteration, action errors included. An I/O error survived by the grace or by a recovery
  is an iteration and not a tick (`pipeline_driver.rs:1080`), and so is a watch task.
* **goal_all_priority**: `docs/goal-manifest.md:90` says an `All` fails if a child failed.
  `goal.rs:242` returns at the first child that is not reached, so an open child hides a
  failed one behind it.
* **studio_runner_exit**: `docs/wiki.md:240` says the history shows the exit codes of past
  runs. A run started before the exit of the one before it was drained is recorded with
  that exit (`runner_exec.rs:451`), and its own is dropped.

Three more observations contradict no document clearly enough to be one of these, and no run states
them. `launch` starts the launcher and then runs the whole of `ensure_open` (`cli/main.rs:571`),
which looks for the game before the launcher can have started it, and spawns the launcher a
second time; `canonical_feature_stories.csv:21` says it launches, then waits. A template saved in the very frame in which
a live image arrives gets the threshold of the image before (`app_ui_authoring.rs:27`), where
`docs/wiki.md:237` speaks of margins computed in real time. And the session, once saved, replaces
what the scenario panel has made of its directory without asking (`authoring_session.rs:196`).

### Fairness

Driver: `WF(Loop)`. Captures, inputs and hooks have time limits of their own and the
runtime polls the task when they are over. Nothing is assumed of the game, of Ctrl+C or of
the clock. Goal: a step is eventually taken.

Queue: the reader threads run (`WF(ReaderStep)`) and a frame that waits for them goes on when it has
them back (`WF(Blocked)`). Neither the user nor the child has to act, and no frame has to come: the studio
asks for no repaint and drains only on the home page, so a queue may rest for ever over an exit that waits.
`QueueMoves` therefore ends at that exit, and says of a frame what it does, not that it comes.

Authoring: the thread of a search for proposals ends (`WF(Searching)`; it waits for nothing and its loops are over the pixels of
an image; a panic in it is not modelled). As for the queue, no frame has to come, and `ProposalsArrive` ends at
the list that waits.

## 5. Proofs

A theorem holds for every value of the constants that the assumptions of its modules admit. These
assumptions are the types of the constants and that a name does not stand for two things
(`None` is no task, no match, no run and no directory), with four of substance, each of them what the code or the repository
has: what a user may write is a finite tree, no higher than a bound that may be any number (`CandidatesAssumption`, `GoalsAssumption`), the goals of a manifest pass the validation before the run (`GoalsAssumption`), the channel holds at least one event, and the session writes to a directory
of the pipelines (`EditorAssumption`).

### The driver: `PipelineProofs`

From `ConstantsAssumption`, for every pipeline, watch list, limit, budget, threshold, grace, clock and goal (the goal
is any operator that gives a status):

* `TypeCorrect`: `Spec => []TypeOK`. Reports subtract one from the iteration count, so
  the type is not inductive. `TypeInv` adds `StepCounted` (a step under way has been counted)
  and `StepNamesTask` (an outcome that sent a command names its task). One lemma per group of
  actions (`RunOnceTypeInv`, `HandleStepTypeInv`) has a step for each action.
* `BudgetRespected`: `Spec => []ReportedBudget`. `BudgetInv` bounds the
  guard: attempts <= longest series <= budget, longest series <= total <= iterations begun. The last holds
  only because one iteration takes at most one attempt, so before the recovery of an
  iteration the bound is one tighter (`BeforeRecovery`). The lemmas `GuardKept` and
  `GuardConsumed` say what each guard operation does to it.
* `CancelCorrect`: `Spec => CancelStopsRun`, an action property, by cases on the step.
* `RecoveryCorrect`: `Spec => KeepsRecoveryPolicy`, the refinement. The initial states agree
  (`PolicyStarts`). Each group of actions has a lemma that says which step of the policy it is:
  `CountsOfGuard` and `CountsOfAttempt` give what the guard operations do to the three counters the policy
  knows, `FinishSeen` what an end of the run looks like through the mapping. It rests on `TypeInv` and on `BudgetInv`,
  because giving up must find the budget spent exactly, not exceeded.
* `ContractCorrect`: `Spec => KeepsDriverContract`, the second refinement. One lemma for each group of actions shows which step
  of the contract it is; `SameTold` is what a handled step leaves of what the caller knew, and `ContinueKeeps`, `FinishKeeps`,
  `RunRecoveryKeeps` and `GoalStopKeeps` the four ways in which such a step goes on. It adds `CommandInv` (which outcomes have sent a
  command, and that only a driver with a token is cancelled).
* `HistoryIsDriver`: `HSpec => Spec`. The log watches and does not interfere, so the theorems above hold of the
  driver with its log too.

Four properties compare the guard's counters with the log: `GraceCorrect`, `CauseCorrect`, `NotIgnoredCorrect` and
`TelemetryCorrect`. They follow from `RecoveryInv`, whose heart is `Remembers`: the streak is
the number of counted misses since the last match, watch task or restart; the remembered restart is the latest of the
outage; attempts and total are the hooks of the outage and of the run; and the longest series is that of
some position of the log. The properties speak of a position as it was, so `HookAt` and `MissAt` are kept for
all earlier positions too, and the lemmas about a longer log (what `Append` leaves of `Outage`, `Missed`, `Hooks`)
carry them. The code counts a miss and starts a hook in one step, which the log sees as two entries: this is why all of
these operators take the log as a parameter.

`PositionCorrect` and `CommandsCorrect` follow from `EvidenceInv`: what the step at hand says of
the position (`StepPlace`, by the kind of its outcome), how the log ends meanwhile (`LogEnd`), and
that the commands told are, in order, those of the log (`Tells`, by a map of positions that each sent command
extends). Between two steps the position is that of the last handled entry (`Positioned`).

The last part of the module is about the goals of a manifest, any number of them and nested in any way, and rests on
`GoalsAssumption` (they are trees and pass validation) and, as a hypothesis of each theorem, on `Pursued`. `Tree` is an instance
of `GoalRunProofs` for the goal of the run, so that its lemmas about trees are cited, not proved again; they say nothing of the
variables of a `GoalRun`, which stand for what is at hand (`SameTrees`, `SameEvaluation` and `SameTreeReading`: its trees and functions are
those of `GoalEval`). `Decided` says that the evaluation fails at a time limit that decides the goal, and
`ReachedByLeaves` that it reaches the goal only if the leaves it reaches meet it; `ReachedLeafShown` that the log shows such a leaf. `GoalInv` ties the
context of the goal to the log: its count is the number of evaluated entries and its match the last match
entry (`Knows`); a run that ended with its goal reached has evaluated it so (`IsReached`); the driver's remembered match is that of the step at hand (`FreshMatch`); no
evaluated entry lies past a limit unless it is the last of a run that timed out, and no hook follows such a miss
(`LimitsKept`). `GoalSeenCorrect`, `TimeLimitCorrect` and `NoLateHookCorrect` follow.

### Goals: `GoalRunProofs`

The properties of goals hold for trees of any height and width, nested in any way. Two things had to be built for this, as the
library's induction takes an operator that these provers cannot instantiate. `TreeInduction`: a set of trees that has each tree
whose children it has is all of them; it goes over the heights (`HeightInduction`, from the least height that is missing).
`TreeRecursion`: a function that is defined at each tree by its values at the children exists; its hypothesis, `DependsOnChildren`,
is about sets of pairs, not about an operator, and its proof joins the solutions on lower trees height by height. `StatusesEquation`,
`SubconditionsEquation`, `DecisiveEquation`, `MetEquation` and `ValidEquation` follow: each recursive function of the model is what its body says.

`TreeJustified` is then the heart, by induction over the tree: what evaluation gives agrees in both directions with what the
history meets and which limits have run out. `AllDecides` and `AnyDecides` say how a composition joins its children, `DecisiveFails` that a failure goes up from the
conditions that decide a tree (from which `LimitFails`), and `ReachedIsMet` that only a tree its reached leaves meet is reached. `RunInv`
(the context records the history, and the status is that of the last step) carries it over a run: `DecisionJustified`, `AnyFailureFirst`
and `MetNoticed`. `BoundedGoal` and `StartPending`, the two halves of `AcceptedSound`, are inductions over what validation accepts (`ValidIsBounded`, with the depth a
tree is met at; `ValidIsPending`).

### The studio's children: `StudioQueueProofs`, `StudioRunnerProofs`

Each begins with what a page needs to know of its child, for any capacity of the channel and any number of lines and runs:
`ChildInv` (the exits in the channel are of runs that are over, one for each, and the reader that still
reports is that of the last run) is kept by every operation on a child, and `ExitsMove`: such an operation adds
at most one exit, that of the run in hand.

`StudioQueueProofs` proves `ExitCorrect`, `OrderCorrect`, `AbortCorrect` and `ChecksCorrect` from `QueueInv`. `Frames`
says what may still come of a child at each place of a frame: when the queue is not running there is no
exit left that a later queue could take for its own. `CurrentTask` ties the exits in the channel to the
start that the trail has last; `InOrder` says why the next entry may be started before it is; `Past` keeps
both properties for the positions of the trail that are behind.

`StudioRunnerProofs` proves `ReportCorrect`, `JudgementCorrect`, `HistoryCorrect` and `OrphanCorrect` from `RunnerInv`:
where a frame may be and what it finds there (`Phases`), what the history says already of the run in hand
(`CurrentRun`: a verdict if its exit was observed, a cancellation only once it was stopped), that no run has two
records of a kind (`OncePerRun`), and, while no start has overtaken an exit, that an exit still to come is of the
run in hand (`NoOverlap`).

### The game and its commands: `GameCommandsProofs`

For every number of games, launchers, steps, samples and attempts:

* `RestartCorrect`: `Spec => []RestartReplacesGame`. The property speaks of the end of a
  restart only, so `RestartInv` says what holds at each of its stages (`RestartStages`: no launcher
  before the old games are gone, none of them there when the launch comes), and that
  processes are numbered as they start (`Numbered`), without which a late launcher could bring an
  old game back. One lemma each for the system, the operation and the commands.
* `ExitCorrect`: `Spec => []StandaloneExitTells`, from `ExitInv`: what has been started or seen at each stage of
  `ensure_open` (`EnsureStages`) and of the probe (`ProbeStages`), which lasts because what was born or
  spawned is never taken back (`Grown`).
* `SummaryCorrect`: `Spec => []SummaryTellsRun`, from `RoutineInv`: results follow the trail step by step, the steps after
  a fatal failure are the skipped ones, and a summary is of all results. Its four counts add up to the number of steps
  by the cardinalities of the sets of positions they count.

### The studio's editors: `StudioAuthoringProofs`, `ScenarioEditorProofs`

`StudioAuthoringProofs` proves `ThresholdCorrect` and `StepCorrect` (`SavedThresholdFits` and
`StepIsOfShownImage`) with no assumption on the constants. Both rest on `ViewInv`: images are numbered, so that what waits in
the channel is neither shown nor scored, and the texture is that of the screenshot. The first adds
`ScoreInv` (a region remembered as scored was scored with the present engine and folders, and on the present
image if that is a file), `UndrawnInv` (an image without a texture has not been scored, and no region is
offered on a file before it has one) and `RestInv` (a region that rests is scored, or of an image that arrived since,
or about to be scored in this frame): remembering the region alone is enough because of all three. The
second adds `SessionInv`: the frame of a session is the image its own page has put on the screen.

`ScenarioEditorProofs` proves three theorems, for any directories, names, tasks, task definitions and number of saves, each of
which may break off at any of its writes:

* `OverwriteCorrect`: `Spec => NoForeignOverwrite`, an action property. `PanelInv` says what a save
  finds: a scenario owns at most the directory it came from, and nobody but the session has written to that one
  since (`Known`).
* `SavedCorrect`: `Spec => []SavedScenarioRuns`, and `LinkCorrect`: `Spec => []LinkedTaskStarts`, from `ScenarioInv`. Nothing is
  assumed of what is in the directories from the start. What the panel edits must have each template that
  belongs beside its definition at hand (`Supplied`): a task that is loaded names the place its template was in, so
  renaming the scenario does not lose it, and a task that is new keeps its crop through every save. `CompletedFits` is what a save that
  completes leaves; one that breaks off may leave anything in its own directory. Every other directory stays as it is, and a save
  takes a template away only when it is on record as broken off (`Saved`), so what other scenarios could read they can read
  still, or the exception applies (`TemplatesStay`). What was linked has the number of
  its save (`StillWhole`): numbers grow (`LastWriteType`, by the largest element of a bounded set), so the next save to that
  directory releases the link.

### Windows: `Win32DeviceProofs`

Proved from `DeviceAssumption` (processes have windows of their own, and no
name stands for two things), `StaleHandleCorrect`, `PressCorrect` and `ButtonCorrect` for every number of
processes, windows, places and changes. They share `DeviceInv`: the types; the window an operation
holds is that of the process it found (`Found`); which calls an operation of each kind makes
(`StepsOfKind`); the game a capture found is still the one there (`StillThere`); the handle is out
while a capture uses it (`HandleTaken`), so that after a failure none is left
(`NoHandleAfterLoss`); and what the checks of an input saw is still so (`AimHolds`).
`DesktopKeeps`, `FindKeeps` and the rest show that each group of actions keeps it.

### What only TLC checks

Liveness (`Termination`, `QueueMoves`, `FrameReturns`, `ProposalsArrive`): fairness and
`ENABLED` are out of the prover's reach. Every safety property and action property that a run finds to hold is a
theorem too.

## 6. Not modelled, and the plan

Next: the report file of `run`, beside its exit code, which is a table over the reasons of `DriverContract`.

Left out of modules that exist, because no property could tell the difference or because the detail is data:
the heatmap and best match of the authoring page, the tap that is passed on to the game,
goals, names and regions of a scenario and their validation, assigned images, the watch list (which a
save of the scenario editor does not write), directories without a manifest, the template cache with its time stamps; window
handles that the system uses again, hidden windows and owned popups, the PostMessage method,
the moves of a swipe, display scaling; the ring buffer of the log, the limit of the history file,
the pause after an exhausted budget; polls of the life cycle and the parsing of routine files. Type invariants
are stated where a proof rests on them, and not elsewhere.

Left out for good: image processing (floating point over pixels), conversion of pixels,
parsing of arguments and files, layout of the studio, jitter, batch evaluation, settings,
and the offline tools, which are sequential and keep no state. More than half of the lines of
the crates are unit tests, which stand in the same files as the code; of the 18,000 or so that are not, the
models stand for some 5,500, which are those in which things can happen in more than one order.
