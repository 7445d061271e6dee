----------------------------- MODULE GameCommands ---------------------------
(***************************************************************************)
(* The commands of the command line that start the game: ensure-open and   *)
(* launch, whose exit code tells a script whether the game is there, and   *)
(* routine, which runs pipelines one after the other and restarts the game *)
(* when a pipeline asks for it (main.rs, routine.rs, routine_runner.rs).   *)
(*                                                                         *)
(* The pipeline driver is reduced to its contract, for a driver with a     *)
(* recovery hook, without a goal and without a cancellation token.         *)
(***************************************************************************)
EXTENDS GameLifecycle, Sequences

CONSTANTS
  Steps,       \* number of steps of the routine
  MaxAttempts, \* recovery budget of a step
  Samples      \* samples of the readiness probe

ASSUME CommandsAssumption ==
  Steps \in Nat \ {0} /\ MaxAttempts \in Nat /\ Samples \in Nat

VARIABLES
  command,   \* the command given
  readiness, \* its --readiness flag
  policy,    \* step -> on_failure
  phase,     \* where the command is: Start, Forced, Ensuring, Probing, Step,
             \* Driving, Hook, Summary or Exited
  probe,     \* samples taken by the readiness probe, and what they showed
  attempt,   \* RecoveryContext.attempt of the step's driver
  fired,     \* the step's driver sent a command
  results,   \* statuses of the routine's steps
  summary,   \* RoutineSummary, None before the end
  exit,      \* exit code, None before the end
  trail      \* how each step's driver really ended (history)

cmdVars == <<command, readiness, policy, phase, probe, attempt, fired, results,
             summary, exit, trail>>
vars == <<lifeVars, cmdVars>>

Commands == {"EnsureOpen", "Launch", "Routine"}
Policies == {"Stop", "Skip"}

\* The driver of a step: Driving and Hook are its phases too.
Driver == INSTANCE DriverContract WITH
  Recovers <- TRUE, HasGoal <- FALSE, Cancellable <- FALSE, used <- attempt

NoSamples == [taken |-> 0, frozen |-> TRUE, offline |-> TRUE]

Init ==
  /\ InitLife
  /\ command \in Commands
  /\ readiness \in BOOLEAN
  /\ policy \in [1..Steps -> Policies]
  /\ phase = "Start"
  /\ probe = NoSamples
  /\ attempt = 0
  /\ fired = FALSE
  /\ results = <<>>
  /\ summary = None
  /\ exit = None
  /\ trail = <<>>

-----------------------------------------------------------------------------
(* ensure-open, launch, and the start of a routine *)

\* The operation begins, the command waits for it in the phase.
Call(first, next) ==
  /\ Begin(first)
  /\ phase' = next
  /\ UNCHANGED <<command, readiness, policy, probe, attempt, fired, results,
                 summary, exit, trail>>

StartCommand ==
  /\ phase = "Start"
  /\ IF command = "Launch" THEN Call("Launch", "Forced")
     ELSE Call("Precheck", "Ensuring")

Back(at) == phase = at /\ op = "Idle"

Exits(code) ==
  /\ phase' = "Exited"
  /\ exit' = code
  /\ UNCHANGED <<command, readiness, policy, probe, attempt, fired, results,
                 summary, trail, lifeVars>>

\* ensure_open_exit_code and standalone_exit_code.
StandaloneExitCode(r) ==
  CASE r \in {"AlreadyOpen", "Launched"} -> 0
    [] r = "Error"                       -> 1
    [] r = "Timeout"                     -> 2
    [] r = "NotReady"                    -> 3

\* run_ensure_open_or_launch: a forced launch is followed by the whole of
\* ensure_open, with its check and a launch of its own.
AfterForcedLaunch ==
  /\ Back("Forced")
  /\ IF result = "Error" THEN Exits(1) ELSE Call("Precheck", "Ensuring")

Goes(next) ==
  /\ phase' = next
  /\ UNCHANGED <<lifeVars, command, readiness, policy, probe, attempt, fired,
                 results, summary, exit, trail>>

\* Slip: a game that did not come up is taken for one that did.
AfterEnsureHopeful ==
  /\ Back("Ensuring")
  /\ IF command = "Routine" THEN Goes("Step")
     ELSE IF readiness /\ result \in {"AlreadyOpen", "Launched"} THEN Goes("Probing")
     ELSE Exits(IF result = "Timeout" THEN 0 ELSE StandaloneExitCode(result))

\* ensure_game_open of a routine goes on whatever came of it.
AfterEnsure ==
  /\ Back("Ensuring")
  /\ IF command = "Routine" THEN Goes("Step")
     ELSE IF readiness /\ result \in {"AlreadyOpen", "Launched"} THEN Goes("Probing")
     ELSE Exits(StandaloneExitCode(result))

\* The processes, a frame or the sockets cannot be had.
ProbeFails == Back("Probing") /\ Exits(1)

\* probe_readiness: a sample, and the end of sampling at the first frame that
\* differs from the first.
ProbeSample ==
  /\ Back("Probing")
  /\ games # {}
  /\ probe.frozen
  /\ probe.taken < Samples
  /\ \E online \in BOOLEAN, changed \in {FALSE, probe.taken > 0} :
       probe' = [taken |-> probe.taken + 1, frozen |-> ~changed,
                 offline |-> probe.offline /\ ~online]
  /\ UNCHANGED <<lifeVars, command, readiness, policy, phase, attempt, fired,
                 results, summary, exit, trail>>

\* classify_readiness and apply_readiness_probe.
ProbeEnds ==
  /\ Back("Probing")
  /\ ~probe.frozen \/ probe.taken = Samples
  /\ Exits(StandaloneExitCode(IF probe.frozen /\ probe.offline THEN "NotReady" ELSE result))

Standalone ==
  StartCommand \/ AfterForcedLaunch \/ AfterEnsure \/ ProbeFails \/ ProbeSample \/ ProbeEnds

-----------------------------------------------------------------------------
(* routine *)

Step == Len(results) + 1

Failures == {"Failed", "NoFire", "InvokerError"}

SkippedAfter(n) == [k \in 1..(Steps - n) |-> "Skipped"]

\* The rest of the loop body of run_routine, and the steps it skips.
RecordStep(status) ==
  /\ IF status \in Failures /\ policy[Step] = "Stop"
     THEN results' = Append(results, status) \o SkippedAfter(Step)
     ELSE results' = Append(results, status)
  /\ phase' = IF Len(results') = Steps THEN "Summary" ELSE "Step"

\* run_step_live cannot build the driver: no pipeline, or no first frame.
InvokeFails ==
  /\ phase = "Step"
  /\ RecordStep("InvokerError")
  /\ trail' = Append(trail, [step |-> Step, reason |-> "NotRun", fired |-> FALSE])
  /\ UNCHANGED <<lifeVars, command, readiness, policy, probe, attempt, fired,
                 summary, exit>>

InvokeDriver ==
  /\ phase = "Step"
  /\ phase' = "Driving"
  /\ attempt' = 0
  /\ fired' = FALSE
  /\ UNCHANGED <<lifeVars, command, readiness, policy, probe, results, summary,
                 exit, trail>>

\* The driver goes round: a match gives the budget back, a command without
\* effect does not.
DriverStep ==
  /\ Driver!Round
  /\ UNCHANGED <<lifeVars, command, readiness, policy, probe, results, summary,
                 exit, trail>>

\* escalation_recovery_hook: the first attempt launches, later ones restart.
DriverRecovers ==
  /\ Driver!Recover
  /\ Begin(IF attempt = 0 THEN "Launch" ELSE "Close")
  /\ UNCHANGED <<command, readiness, policy, probe, results, summary, exit,
                 trail>>

HookSucceeds == Back("Hook") /\ result = "Ok" /\ Goes("Driving")

\* classify_reason.
ClassifyReason(reason) ==
  IF reason \in {"Stop", "TerminalTask", "MaxIterations"} THEN "Completed" ELSE "Failed"

\* Slip: a pipeline that did nothing until its limit has completed.
StepResultOfReason(reason) == ClassifyReason(reason)

\* step_result.
StepResult(reason) ==
  IF reason = "MaxIterations" /\ ~fired THEN "NoFire" ELSE ClassifyReason(reason)

DriverEnded(reason) ==
  /\ RecordStep(StepResult(reason))
  /\ trail' = Append(trail, [step |-> Step, reason |-> reason, fired |-> fired])
  /\ UNCHANGED <<lifeVars, command, readiness, policy, probe, attempt, fired,
                 summary, exit>>

HookFails == Back("Hook") /\ result = "Error" /\ DriverEnded("ExecuteError")

DriverEnds ==
  /\ phase = "Driving"
  /\ \E reason \in Driver!Reasons : Driver!MayEnd(reason) /\ DriverEnded(reason)

Count(statuses) == Cardinality({k \in DOMAIN results : results[k] \in statuses})

\* summarize.
Summarize ==
  [completed |-> Count({"Completed"}), failed |-> Count(Failures),
   skipped |-> Count({"Skipped"}),
   aborted |-> \E k \in DOMAIN results : results[k] \in Failures /\ policy[k] = "Stop"]

AllOk(s) == s.failed = 0 /\ s.skipped = 0 /\ ~s.aborted

\* The summary becomes the exit code, unless the report cannot be written.
FinishWith(s) ==
  /\ summary' = s
  /\ exit' \in {IF AllOk(s) THEN 0 ELSE 2, 1}
  /\ phase' = "Exited"

RoutineSummarized ==
  /\ phase = "Summary"
  /\ FinishWith(Summarize)
  /\ UNCHANGED <<lifeVars, command, readiness, policy, probe, attempt, fired,
                 results, trail>>

\* Ctrl+C drops the routine where it is, with what its steps had to tell.  The
\* blocking operation under way ends with the process.
RoutineInterrupted ==
  /\ phase \in {"Step", "Driving", "Hook"}
  /\ FinishWith([completed |-> 0, failed |-> 0, skipped |-> Steps, aborted |-> TRUE])
  /\ op' = "Idle"
  /\ UNCHANGED <<systemVars, due, child, queried, result, spawned, asked, command,
                 readiness, policy, probe, attempt, fired, results, trail>>

Routine ==
  \/ InvokeFails \/ InvokeDriver \/ DriverStep \/ DriverRecovers
  \/ HookSucceeds \/ HookFails \/ DriverEnds \/ RoutineSummarized
  \/ RoutineInterrupted

Next ==
  \/ Standalone
  \/ Routine
  \/ Operation /\ UNCHANGED cmdVars
  \/ System /\ phase # "Exited" /\ UNCHANGED cmdVars

Spec == Init /\ [][Next]_vars

-----------------------------------------------------------------------------
(* Properties *)

\* A restart that succeeded left no game of before it and started one launcher,
\* however the games it found closed, refused or died; one that failed started
\* none (win32_terminate.rs: "fail-closed", no double launch).
RestartReplacesGame ==
  (phase = "Hook" /\ op = "Idle" /\ attempt > 1) =>
    \/ /\ result = "Ok"
       /\ games \cap asked.games = {}
       /\ spawned = asked.spawned + 1
    \/ result = "Error" /\ spawned = asked.spawned

\* README, exit codes of ensure-open and launch: 0 only if the command had a
\* game to see, which showed a sign of life if that was asked for; 2 only if a
\* launcher was started for it, and 3 only after a whole probe.
StandaloneExitTells ==
  command \in {"EnsureOpen", "Launch"} =>
    /\ exit = 0 => born > 0 /\ (readiness => ~(probe.frozen /\ probe.offline))
    /\ exit = 2 => spawned > 0
    /\ exit = 3 => probe.taken = Samples /\ readiness

Good(k) ==
  \/ trail[k].reason \in {"Stop", "TerminalTask"}
  \/ trail[k].reason = "MaxIterations" /\ trail[k].fired

\* US-CLI-21 and US-CLI-24: the steps run in order, each failure is followed by
\* what its policy says, and the summary and the exit code of a routine nobody
\* interrupted count what really happened to each step.
SummaryTellsRun ==
  LET bad == {k \in DOMAIN trail : ~Good(k)} IN
    /\ \A k \in DOMAIN trail : trail[k].step = k
    /\ \A k \in bad : policy[k] = "Stop" => k = Len(trail)
    /\ (summary # None /\ Len(results) = Steps) =>
         /\ summary.completed = Len(trail) - Cardinality(bad)
         /\ summary.failed = Cardinality(bad)
         /\ summary.skipped = Steps - Len(trail)
         /\ Len(trail) < Steps => \E k \in bad : policy[k] = "Stop"
         /\ exit = 0 => bad = {} /\ Len(trail) = Steps
=============================================================================
