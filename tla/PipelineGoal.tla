---------------------------- MODULE PipelineGoal ----------------------------
(***************************************************************************)
(* The pipeline driver pursuing the goals of its manifest: the driver of   *)
(* PipelineDriver, its history, and the conditions of Goal.  A model gives *)
(* EvaluateStop for the driver's Evaluate.                                 *)
(***************************************************************************)
EXTENDS PipelineHistory

CONSTANTS
  Goals,                                     \* the goals of the manifest
  FullConfidence, MaxHeight, MaxCompositionDepth

GoalEval == INSTANCE GoalTree WITH NoMatchYet <- None, TaskNames <- Tasks

\* The goal of the run: of several, any.
RunGoal == GoalEval!ManifestGoal(Goals)

\* It was validated before the run.
ASSUME GoalsAssumption ==
  /\ FullConfidence \in Nat \ {0}
  /\ MaxHeight \in Nat /\ MaxCompositionDepth \in Nat
  /\ RunGoal \in GoalEval!StopConditions
  /\ GoalEval!Validate(RunGoal)

EvaluateStop(ctx, elapsed) == GoalEval!EvaluateGoal(RunGoal, ctx, elapsed)

\* What the driver may hand to the evaluation.
Contexts == [iterations : 0..MaxIterations,
             lastMatch : {None} \cup [task : Tasks, confidence : Confidences]]

\* The driver has a goal, and it is this one.
Pursued ==
  /\ GoalActive
  /\ \A ctx \in Contexts, elapsed \in 0..MaxTime :
       Evaluate(ctx, elapsed) = EvaluateStop(ctx, elapsed)

-----------------------------------------------------------------------------
(* Properties *)

Evaluated == Events({"match", "miss"})

LastSeen == {i \in Events({"match"}) : \A j \in Events({"match"}) : j <= i}

\* The leaves that the log meets: a count when as many steps were evaluated, a
\* template when the last task that matched is the one, and the effect of its
\* command could be looked at.
Shown(c) ==
  CASE c.kind = "LoopCount" -> Cardinality(Evaluated) >= c.target
    [] c.kind = "TemplateMatch" ->
         \E i \in LastSeen : log[i].task = c.task /\ ~(i > 1 /\ log[i - 1].ev = "unseen")
    [] c.kind = "Timeout" -> FALSE
ShownLeaves == {c \in GoalEval!LeafConditions(Tasks) : Shown(c)}

\* The time limits that no other condition can keep from failing the goal.
TimeLimits == {c.secs : c \in {d \in GoalEval!Decisive[RunGoal] : d.kind = "Timeout"}}

\* A goal is reached only when the log meets it: a repeat that changed nothing,
\* a watch task, an error or a stale match counts for nothing, and a limit is no
\* way to reach a goal.
GoalReachedIsSeen ==
  (pc = "Done" /\ outcome.reason = "GoalReached") => GoalEval!MetBy(ShownLeaves)[RunGoal]

\* docs/goal-manifest.md, UC-3: the first step evaluated at or past a time
\* limit ends the run as failed, be it a match of the wanted task.
TimeLimitNoticed ==
  \A i \in Evaluated :
    (\E s \in TimeLimits : log[i].at >= s)
      => i = Here /\ pc = "Done" /\ outcome.reason = "GoalTimeout"

\* The goal is decided before recovery: a miss past the time limit does not
\* restart the game.
NoHookAfterTimeLimit ==
  \A i \in Events({"hook"}) :
    log[i - 1].ev = "miss" => \A s \in TimeLimits : log[i].at < s

\* docs/goal-manifest.md, UC-1: LoopCount counts every iteration, action
\* errors included.
LoopCountCountsIterations ==
  pc = "Sleep" => goalCtx.iterations = iterations
=============================================================================
