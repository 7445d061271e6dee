--------------------------- MODULE PipelineDriver ---------------------------
(***************************************************************************)
(* The pipeline driver of anaden-engine: capture a frame, detect the       *)
(* current task, fire its command, verify the effect, and go round again   *)
(* until a goal, a terminal task, an error, a cancel or the iteration      *)
(* limit ends the run.  A guard counts misses and runs the recovery hook   *)
(* (relaunch the game) within a budget and outside a boot grace period.    *)
(*                                                                         *)
(* The loop is one asynchronous task.  Its program counter stops at every  *)
(* await (capture, input, re-capture, hook, sleep) and once more before    *)
(* the step outcome is handled, which is where it reads the clock.         *)
(* Ctrl+C and the passing of time interleave with it at those points.      *)
(***************************************************************************)
EXTENDS Integers, Sequences

CONSTANTS
  Tasks,           \* the task names a pipeline uses
  Defined,         \* those with a TaskDef; a name without one never matches
  StartTask,       \* the task the run starts at
  ActionOf,        \* task -> kind of its action
  NextOf,          \* task -> first entry of its `next` list, or None
  Watch,           \* the watch list, in the order it is scanned
  Confidences,     \* confidences a detection can report
  MaxIterations,   \* max_iterations of run_loop
  Threshold,       \* recover_nomatch_threshold, 0 = off
  Grace,           \* recovery_grace, in clock units
  MaxAttempts,     \* max_recovery_attempts
  HasHook,         \* a recovery hook was passed
  VerifyAfterFire, \* verify_after_fire
  Cancellable,     \* the driver was given a cancellation token
  GoalActive,      \* a goal was passed
  Evaluate(_, _),  \* status of that goal for a context and elapsed seconds
  MaxTime,         \* bound of the clock
  None             \* the absent value of an Option

ActionKinds == {"Input", "DoNothing", "Stop"}

ASSUME ConstantsAssumption ==
  /\ Defined \subseteq Tasks
  /\ StartTask \in Tasks
  /\ None \notin Tasks
  /\ None \notin Nat
  /\ None \notin [task : Tasks, confidence : Confidences]
  /\ ActionOf \in [Tasks -> ActionKinds]
  /\ NextOf \in [Tasks -> Tasks \cup {None}]
  /\ Watch \in Seq(Tasks)
  /\ Confidences # {}
  /\ MaxIterations \in Nat
  /\ Threshold \in Nat
  /\ Grace \in Nat
  /\ MaxAttempts \in Nat
  /\ HasHook \in BOOLEAN
  /\ VerifyAfterFire \in BOOLEAN
  /\ Cancellable \in BOOLEAN
  /\ GoalActive \in BOOLEAN
  /\ MaxTime \in Nat

VARIABLES
  pc,         \* where the loop is
  current,    \* PipelineState.current
  pre,        \* current when the iteration began (pre_task, current_before)
  step,       \* the StepOutcome of the iteration
  iterations, \* LoopState.iterations
  guard,      \* RecoveryGuard
  fired,      \* LoopState.fired, a command named by the task it is of
  matches,    \* LoopState.per_task_matches
  verify,     \* VerifyStats
  lastMatch,  \* PipelineDriver.last_match
  goalCtx,    \* GoalStatusContext
  outcome,    \* LoopOutcome, None while the loop runs
  cancelled,  \* the cancellation token
  now         \* the clock

loopVars == <<current, pre, step, iterations, guard, fired, matches, verify,
              lastMatch, goalCtx>>
vars == <<pc, loopVars, outcome, cancelled, now>>

-----------------------------------------------------------------------------
(* Values *)

PcValues == {"Top", "Capture", "Execute", "Verify", "Dispatch", "Recover",
             "Sleep", "Done"}

StepKinds == {"Fired", "NoFire", "NoMatch", "FiredUnverified", "WatchFired",
              "Capture", "ExecuteError", "VerifyCapture", "Other"}

\* The kinds of StepErrorKind that is_recoverable_io_error accepts.
RecoverableErrors == {"Capture", "VerifyCapture"}

StopReasons == {"Stop", "TerminalTask", "MaxIterations", "CaptureError",
                "ExecuteError", "GoalReached", "GoalTimeout", "Interrupted",
                "RecoveryExhausted"}

\* task: what matched; next: where the pipeline goes; cmd: a command was sent.
Step(kind, task, next, cmd) ==
  [kind |-> kind, task |-> task, next |-> next, cmd |-> cmd]

Plain(kind) == Step(kind, None, None, FALSE)

Resting == Plain("NoMatch")

Sends(t) == ActionOf[t] = "Input"

\* advance_next: the Stop action ends the chain whatever `next` says.
AdvanceNext(t) == IF ActionOf[t] = "Stop" THEN None ELSE NextOf[t]

-----------------------------------------------------------------------------
(* RecoveryGuard *)

NewGuard == [streak |-> 0, recoveredAt |-> None, attempts |-> 0,
             total |-> 0, maxConsecutive |-> 0]

InGrace(g) == g.recoveredAt # None /\ now - g.recoveredAt < Grace

RecordMiss(g) == IF InGrace(g) THEN g ELSE [g EXCEPT !.streak = @ + 1]

\* Slip: the miss at hand is not counted.
MissIsDueLate(g) == ~InGrace(g) /\ Threshold > 0 /\ g.streak >= Threshold

MissIsDue(g) == ~InGrace(g) /\ Threshold > 0 /\ g.streak + 1 >= Threshold

\* Slip: a match leaves the budget as spent as it was.
RecordMatchOfStreak(g) == [g EXCEPT !.streak = 0, !.recoveredAt = None]

RecordMatch(g) ==
  [g EXCEPT !.streak = 0, !.recoveredAt = None, !.attempts = 0]

\* Slips: no grace is started; the old misses stay.
RecoveredAtOnce(g) == [g EXCEPT !.streak = 0]
RecoveredKeepingStreak(g) == [g EXCEPT !.recoveredAt = now]

Recovered(g) == [g EXCEPT !.streak = 0, !.recoveredAt = now]

\* Slip: one attempt over the budget.
BudgetLeftInclusive(g) == g.attempts <= MaxAttempts

BudgetLeft(g) == g.attempts < MaxAttempts

Larger(a, b) == IF a > b THEN a ELSE b

\* Slip: the longest series is counted like the total.
ConsumeAttemptAsTotal(g) ==
  [g EXCEPT !.attempts = @ + 1, !.total = @ + 1, !.maxConsecutive = @ + 1]

ConsumeAttempt(g) ==
  [g EXCEPT !.attempts = @ + 1,
            !.total = @ + 1,
            !.maxConsecutive = Larger(@, g.attempts + 1)]

RecoveryEnabled == Threshold > 0 /\ HasHook

-----------------------------------------------------------------------------
(* Outcomes *)

\* build_outcome, for the values the loop variables get in this step.
Outcome(reason, iters, fired_, matches_, guard_) ==
  [reason |-> reason, iterations |-> iters, fired |-> fired_,
   matches |-> matches_, attempts |-> guard_.total,
   maxConsecutive |-> guard_.maxConsecutive, verify |-> verify]

Finish(reason, iters) ==
  /\ outcome' = Outcome(reason, iters, fired', matches', guard')
  /\ pc' = "Done"

Continue ==
  /\ pc' = "Sleep"
  /\ UNCHANGED outcome

BumpTaskMatch(t) == [matches EXCEPT ![t] = @ + 1]

-----------------------------------------------------------------------------
(* Goal evaluation *)

\* GoalStatusContext::tick.
GoalTick(m) ==
  [iterations |-> goalCtx.iterations + 1,
   lastMatch |-> IF m # None THEN m ELSE goalCtx.lastMatch]

GoalReason(status) == IF status = "Reached" THEN "GoalReached" ELSE "GoalTimeout"

GoalStatus(m) == Evaluate(GoalTick(m), now)

\* eval_goal_stop: tick and evaluate the goal, if there is one.  When it is
\* decided the run stops, with g as its guard; otherwise it goes on with Else.
EvalGoalStop(m, g, Else) ==
  /\ goalCtx' = IF GoalActive THEN GoalTick(m) ELSE goalCtx
  /\ IF GoalActive /\ GoalStatus(m) # "NotYet"
     THEN guard' = g /\ Finish(GoalReason(GoalStatus(m)), iterations)
     ELSE Else

-----------------------------------------------------------------------------
Init ==
  /\ pc = "Top"
  /\ current = StartTask
  /\ pre = StartTask
  /\ step = Resting
  /\ iterations = 0
  /\ guard = NewGuard
  /\ fired = <<>>
  /\ matches = [t \in Tasks |-> 0]
  /\ verify = [checks |-> 0, passed |-> 0, failed |-> 0]
  /\ lastMatch = None
  /\ goalCtx = [iterations |-> 0, lastMatch |-> None]
  /\ outcome = None
  /\ cancelled \in {FALSE, Cancellable}
  /\ now = 0

(***************************************************************************)
(* Top of the loop: the cancel check, the iteration count and its limit.   *)
(***************************************************************************)
LoopInterrupted ==
  /\ pc = "Top"
  /\ cancelled
  /\ UNCHANGED <<loopVars, cancelled, now>>
  /\ Finish("Interrupted", iterations)

\* Slip: the limit is looked at before the cancel.
LoopLimitFirst ==
  /\ pc = "Top"
  /\ iterations + 1 > MaxIterations
  /\ iterations' = iterations + 1
  /\ UNCHANGED <<current, pre, step, guard, fired, matches, verify, lastMatch,
                 goalCtx, cancelled, now>>
  /\ Finish("MaxIterations", iterations)

LoopLimit ==
  /\ pc = "Top"
  /\ ~cancelled
  /\ iterations + 1 > MaxIterations
  /\ iterations' = iterations + 1
  /\ UNCHANGED <<current, pre, step, guard, fired, matches, verify, lastMatch,
                 goalCtx, cancelled, now>>
  /\ Finish("MaxIterations", iterations)

LoopBegin ==
  /\ pc = "Top"
  /\ ~cancelled
  /\ iterations + 1 <= MaxIterations
  /\ iterations' = iterations + 1
  /\ pre' = current
  /\ pc' = "Capture"
  /\ UNCHANGED <<current, step, guard, fired, matches, verify, lastMatch,
                 goalCtx, outcome, cancelled, now>>

-----------------------------------------------------------------------------
(***************************************************************************)
(* run_once: the capture returns, then the watch list and the current task *)
(* are detected on the frame.  What the frame shows is the game's choice.  *)
(***************************************************************************)
Captured(s, next_) ==
  /\ pc = "Capture"
  /\ step' = s
  /\ pc' = next_
  /\ UNCHANGED <<pre, iterations, guard, fired, matches, verify, goalCtx,
                 outcome, cancelled, now>>

CaptureFails ==
  /\ Captured(Plain("Capture"), "Dispatch")
  /\ UNCHANGED <<current, lastMatch>>

\* A watch task matches: its command is sent before the current task is tried.
WatchMatches ==
  /\ \E i \in DOMAIN Watch :
       LET t == Watch[i] IN
         /\ t \in Defined
         /\ Captured(Step("WatchFired", t, None, Sends(t)),
                     IF Sends(t) THEN "Execute" ELSE "Dispatch")
  /\ UNCHANGED <<current, lastMatch>>

TaskAbsent ==
  /\ Captured(Plain("NoMatch"), "Dispatch")
  /\ UNCHANGED <<current, lastMatch>>

\* The template of the current task or of a watch task cannot be used.
DetectFails ==
  /\ \E t \in Defined : t = current \/ \E i \in DOMAIN Watch : t = Watch[i]
  /\ Captured(Plain("Other"), "Dispatch")
  /\ UNCHANGED <<current, lastMatch>>

\* PipelineState::tick moves on to the next task before the command is sent.
TaskMatches ==
  /\ current \in Defined
  /\ LET next == AdvanceNext(current) IN
       /\ Captured(Step(IF Sends(current) THEN "Fired" ELSE "NoFire",
                        current, next, Sends(current)),
                   IF Sends(current) THEN "Execute" ELSE "Dispatch")
       /\ current' = IF next # None THEN next ELSE current
  /\ \E c \in Confidences : lastMatch' = [task |-> current, confidence |-> c]

ExecuteOk ==
  /\ pc = "Execute"
  /\ IF VerifyAfterFire /\ step.kind = "Fired"
     THEN verify' = [verify EXCEPT !.checks = @ + 1] /\ pc' = "Verify"
     ELSE UNCHANGED verify /\ pc' = "Dispatch"
  /\ UNCHANGED <<current, pre, step, iterations, guard, fired, matches,
                 lastMatch, goalCtx, outcome, cancelled, now>>

ExecuteFails ==
  /\ pc = "Execute"
  /\ step' = Plain("ExecuteError")
  /\ pc' = "Dispatch"
  /\ UNCHANGED <<current, pre, iterations, guard, fired, matches, verify,
                 lastMatch, goalCtx, outcome, cancelled, now>>

(***************************************************************************)
(* verify_action_effect: capture again and look for the task just fired.   *)
(***************************************************************************)
Verified(s) ==
  /\ pc = "Verify"
  /\ step' = s
  /\ pc' = "Dispatch"
  /\ UNCHANGED <<pre, iterations, guard, fired, matches, lastMatch, goalCtx,
                 outcome, cancelled, now>>

VerifyCaptureFails ==
  /\ Verified(Plain("VerifyCapture"))
  /\ UNCHANGED <<current, verify>>

\* Slip: the position is not rolled back.
VerifyStillPresentAhead ==
  /\ Verified([step EXCEPT !.kind = "FiredUnverified"])
  /\ verify' = [verify EXCEPT !.failed = @ + 1]
  /\ UNCHANGED current

VerifyStillPresent ==
  /\ Verified([step EXCEPT !.kind = "FiredUnverified"])
  /\ verify' = [verify EXCEPT !.failed = @ + 1]
  /\ current' = pre

\* Gone, or a detection error, which the code takes for gone.
VerifyGone ==
  /\ Verified(step)
  /\ verify' = [verify EXCEPT !.passed = @ + 1]
  /\ UNCHANGED current

-----------------------------------------------------------------------------
(***************************************************************************)
(* run_loop_core handles the step outcome.                                 *)
(***************************************************************************)

\* run_recovery_step: take an attempt and await the hook, or give up.
RunRecovery(g) ==
  IF BudgetLeft(g)
  THEN guard' = ConsumeAttempt(g) /\ pc' = "Recover" /\ UNCHANGED outcome
  ELSE guard' = g /\ Finish("RecoveryExhausted", iterations - 1)

\* The outcome is moved out of `step`, which goes back to its resting value.
Dispatching(kinds) ==
  /\ pc = "Dispatch"
  /\ step.kind \in kinds
  /\ step' = Resting
  /\ UNCHANGED <<current, pre, iterations, verify, cancelled, now>>

\* Slips: a match without a command is told as one; the wrong end of the move;
\* the command is told only once the step has not ended the run.
FiredAfterMatch == Append(fired, step.task)
FiredAfterEnd ==
  IF step.cmd /\ step.next # None THEN Append(fired, step.task) ELSE fired
FiredAfterMove == IF step.cmd THEN Append(fired, step.next) ELSE fired

FiredAfter == IF step.cmd THEN Append(fired, step.task) ELSE fired

StepMatched ==
  /\ Dispatching({"Fired", "NoFire"})
  /\ matches' = BumpTaskMatch(pre)
  /\ fired' = FiredAfter
  /\ lastMatch' = IF GoalActive THEN None ELSE lastMatch
  /\ EvalGoalStop(lastMatch, RecordMatch(guard),
       /\ guard' = RecordMatch(guard)
       /\ IF step.next # None THEN Continue
          ELSE Finish(IF step.kind = "Fired" THEN "TerminalTask" ELSE "Stop",
                      iterations))

\* Slips: the goal sees the match of an earlier step; recovery comes first.
NoMatchBodyStale ==
  LET due == RecoveryEnabled /\ MissIsDue(guard)
      g == IF RecoveryEnabled THEN RecordMiss(guard) ELSE guard
  IN EvalGoalStop(lastMatch, g, IF due THEN RunRecovery(g) ELSE guard' = g /\ Continue)

NoMatchBodyRecoverFirst ==
  LET due == RecoveryEnabled /\ MissIsDue(guard)
      g == IF RecoveryEnabled THEN RecordMiss(guard) ELSE guard
  IN IF due THEN RunRecovery(g) /\ UNCHANGED goalCtx
     ELSE EvalGoalStop(None, g, guard' = g /\ Continue)

\* step_no_match, with the miss recorded before the goal is evaluated and the
\* recovery after it.
NoMatchBody ==
  LET due == RecoveryEnabled /\ MissIsDue(guard)
      g == IF RecoveryEnabled THEN RecordMiss(guard) ELSE guard
  IN EvalGoalStop(None, g, IF due THEN RunRecovery(g) ELSE guard' = g /\ Continue)

StepNoMatch ==
  /\ Dispatching({"NoMatch"})
  /\ UNCHANGED <<fired, matches, lastMatch>>
  /\ NoMatchBody

StepFiredUnverified ==
  /\ Dispatching({"FiredUnverified"})
  /\ matches' = BumpTaskMatch(pre)
  /\ fired' = FiredAfter
  /\ UNCHANGED lastMatch
  /\ NoMatchBody

StepError ==
  /\ Dispatching({"Capture", "VerifyCapture", "ExecuteError", "Other"})
  /\ UNCHANGED <<fired, matches, lastMatch, goalCtx>>
  /\ IF step.kind \notin RecoverableErrors
     THEN UNCHANGED guard /\ Finish("ExecuteError", iterations - 1)
     ELSE IF InGrace(guard) THEN UNCHANGED guard /\ Continue
     ELSE IF RecoveryEnabled THEN RunRecovery(guard)
     ELSE UNCHANGED guard /\ Finish("CaptureError", iterations - 1)

StepWatchFired ==
  /\ Dispatching({"WatchFired"})
  /\ guard' = RecordMatch(guard)
  /\ matches' = BumpTaskMatch(step.task)
  /\ fired' = FiredAfter
  /\ UNCHANGED <<lastMatch, goalCtx>>
  /\ Continue

-----------------------------------------------------------------------------
(* The recovery hook returns. *)

HookReturns ==
  /\ pc = "Recover"
  /\ UNCHANGED <<current, pre, step, iterations, fired, matches, verify,
                 lastMatch, goalCtx, cancelled, now>>

HookSucceeds ==
  /\ HookReturns
  /\ guard' = Recovered(guard)
  /\ Continue

HookFails ==
  /\ HookReturns
  /\ UNCHANGED guard
  /\ Finish("ExecuteError", iterations - 1)

\* Slip: the interval of a cancelled run is never over.
WakeUncancelled ==
  /\ pc = "Sleep"
  /\ ~cancelled
  /\ pc' = "Top"
  /\ UNCHANGED <<loopVars, outcome, cancelled, now>>

\* The interval has passed, or a cancel cuts it short.
Wake ==
  /\ pc = "Sleep"
  /\ pc' = "Top"
  /\ UNCHANGED <<loopVars, outcome, cancelled, now>>

-----------------------------------------------------------------------------
(* The environment: Ctrl+C at any moment, and time passing at the awaits.  *)

Cancel ==
  /\ Cancellable
  /\ pc # "Done"
  /\ ~cancelled
  /\ cancelled' = TRUE
  /\ UNCHANGED <<pc, loopVars, outcome, now>>

\* The clock is read when a step is handled and when the hook returns; there
\* is a "Capture" or a "Recover" before every reading, so letting time pass at
\* those two awaits yields every sequence of readings the other awaits would.
Tick ==
  /\ pc \in {"Capture", "Recover"}
  /\ now < MaxTime
  /\ now' = now + 1
  /\ UNCHANGED <<pc, loopVars, outcome, cancelled>>

RunOnce ==
  \/ CaptureFails \/ WatchMatches \/ TaskAbsent \/ DetectFails \/ TaskMatches
  \/ ExecuteOk \/ ExecuteFails
  \/ VerifyCaptureFails \/ VerifyStillPresent \/ VerifyGone

HandleStep ==
  \/ StepMatched \/ StepNoMatch \/ StepFiredUnverified \/ StepError
  \/ StepWatchFired \/ HookSucceeds \/ HookFails

Loop ==
  \/ LoopInterrupted \/ LoopLimit \/ LoopBegin
  \/ RunOnce \/ HandleStep \/ Wake

Next == Loop \/ Cancel \/ Tick

\* Every await of the loop returns: captures, inputs and hooks have time
\* limits of their own, and the runtime polls the task again when they do.
Fairness == WF_vars(Loop)

Spec == Init /\ [][Next]_vars /\ Fairness

-----------------------------------------------------------------------------
Matches == [task : Tasks, confidence : Confidences]

Steps == [kind : StepKinds, task : Tasks \cup {None},
          next : Tasks \cup {None}, cmd : BOOLEAN]

Guards == [streak : Nat, recoveredAt : Nat \cup {None}, attempts : Nat,
           total : Nat, maxConsecutive : Nat]

VerifyCounts == [checks : Nat, passed : Nat, failed : Nat]

Outcomes == [reason : StopReasons, iterations : Nat, fired : Seq(Tasks),
             matches : [Tasks -> Nat], attempts : Nat, maxConsecutive : Nat,
             verify : VerifyCounts]

\* The values the variables of the driver can hold.
TypeOK ==
  /\ pc \in PcValues
  /\ current \in Tasks
  /\ pre \in Tasks
  /\ step \in Steps
  /\ iterations \in Nat
  /\ guard \in Guards
  /\ fired \in Seq(Tasks)
  /\ matches \in [Tasks -> Nat]
  /\ verify \in VerifyCounts
  /\ lastMatch \in Matches \cup {None}
  /\ goalCtx \in [iterations : Nat, lastMatch : Matches \cup {None}]
  /\ outcome \in Outcomes \cup {None}
  /\ cancelled \in BOOLEAN
  /\ now \in Nat

\* What a report says of its recoveries agrees with the limits of the run: no
\* series longer than the budget, never more hooks than iterations, and an
\* exhausted run has really had a series as long as the budget.
ReportedBudget ==
  outcome # None =>
    /\ outcome.maxConsecutive <= MaxAttempts
    /\ outcome.maxConsecutive <= outcome.attempts
    /\ outcome.attempts <= MaxIterations
    /\ outcome.reason = "RecoveryExhausted" => outcome.maxConsecutive = MaxAttempts

\* The run ends, however the game behaves.
Termination == <>(pc = "Done")

\* A cancel lets the step under way finish and no other begin; unless that
\* step ends the run by itself, the run reports the interruption, even when
\* its iteration limit is reached as well.
CancelStopsRun ==
  [][cancelled => /\ pc' = "Capture" => pc = "Capture"
                  /\ (pc = "Top" /\ pc' = "Done") => outcome'.reason = "Interrupted"]_vars

\* The run as RecoveryPolicy sees it.
PolicyPhase ==
  IF pc = "Recover" THEN "recovering"
  ELSE IF pc # "Done" THEN "running"
  ELSE IF outcome.reason = "RecoveryExhausted" THEN "exhausted" ELSE "ended"

PolicyHealthy == pc = "Dispatch" /\ step.kind \in {"Fired", "NoFire", "WatchFired"}

PolicyReport ==
  IF pc = "Done" THEN [total |-> outcome.attempts, longest |-> outcome.maxConsecutive]
  ELSE None

Policy == INSTANCE RecoveryPolicy WITH
  phase <- PolicyPhase,
  healthy <- PolicyHealthy,
  used <- guard.attempts,
  total <- guard.total,
  longest <- guard.maxConsecutive,
  report <- PolicyReport

\* The driver keeps the promises of RecoveryPolicy.
KeepsRecoveryPolicy == Policy!Spec

\* The run as its caller sees it: a command counts from when it has reached the
\* game and a budget is given back from when a match is known, as both are told
\* in the step that handles the outcome, which may be the last.
CallerPhase ==
  IF pc = "Done" THEN outcome.reason
  ELSE IF pc = "Recover" THEN "Hook" ELSE "Driving"

CallerUsed == IF PolicyHealthy THEN 0 ELSE guard.attempts

CallerFired ==
  IF pc = "Done" THEN outcome.fired # <<>>
  ELSE fired # <<>> \/ (pc = "Dispatch" /\ step.cmd)

Contract == INSTANCE DriverContract WITH
  Recovers <- RecoveryEnabled,
  HasGoal <- GoalActive,
  phase <- CallerPhase,
  used <- CallerUsed,
  fired <- CallerFired

\* The driver ends for a reason its caller may rely on: a routine, or run, tells
\* from the reason and the commands of the report whether a step has succeeded.
KeepsDriverContract == Contract!Spec
=============================================================================
