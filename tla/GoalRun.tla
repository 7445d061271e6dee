------------------------------- MODULE GoalRun ------------------------------
(***************************************************************************)
(* A goal over the life of a run: it is accepted by validate, then each    *)
(* step of the driver ticks its context, with or without a match, while    *)
(* time passes.  The run ends at the first step whose status is decided.   *)
(***************************************************************************)
EXTENDS GoalTree, FiniteSets

CONSTANTS
  Candidates,  \* stop conditions a user may write
  StepMatches, \* what a step can report: a match or NoMatchYet
  MaxSteps,    \* bound on the steps of a run
  MaxElapsed   \* bound on the clock

ASSUME CandidatesAssumption == Candidates \subseteq StopConditions

VARIABLES
  goal,        \* the stop condition of the run
  ctx,         \* GoalStatusContext
  elapsed,     \* the clock, in seconds
  status,      \* GoalStatus of the last evaluation
  seen,        \* what each step reported (history, for the properties)
  evaluatedAt  \* when the last evaluation was (history)

vars == <<goal, ctx, elapsed, status, seen, evaluatedAt>>

Init ==
  /\ goal \in {c \in Candidates : Validate(c)}
  /\ ctx = NewContext
  /\ elapsed = 0
  /\ status = "NotYet"
  /\ seen = <<>>
  /\ evaluatedAt = 0

\* eval_goal_stop.
DriverStep ==
  /\ status = "NotYet"
  /\ ctx.iterations < MaxSteps
  /\ \E m \in StepMatches :
       /\ ctx' = TickContext(ctx, m)
       /\ seen' = Append(seen, m)
  /\ status' = EvaluateGoal(goal, ctx', elapsed)
  /\ evaluatedAt' = elapsed
  /\ UNCHANGED <<goal, elapsed>>

TimePasses ==
  /\ status = "NotYet"
  /\ elapsed < MaxElapsed
  /\ elapsed' = elapsed + 1
  /\ UNCHANGED <<goal, ctx, status, seen, evaluatedAt>>

Next == DriverStep \/ TimePasses

Spec == Init /\ [][Next]_vars

-----------------------------------------------------------------------------
(* Reference: what a condition means, over the history of the run. *)

LatestMatch ==
  LET hits == {i \in DOMAIN seen : seen[i] # NoMatchYet}
  IN IF hits = {} THEN NoMatchYet ELSE seen[Max(hits)]

MetLeaf(c) ==
  CASE c.kind = "LoopCount" -> Len(seen) >= c.target
    [] c.kind = "TemplateMatch" ->
         LatestMatch # NoMatchYet /\ LatestMatch.task = c.task
           /\ LatestMatch.confidence >= c.confidence
    [] c.kind = "Timeout" -> FALSE

\* The trees the history meets, timeouts never being a way to meet anything.
Met == MetBy({c \in LeafConditions(TaskNames) : MetLeaf(c)})

Expired(c) == c.kind = "Timeout" /\ evaluatedAt >= c.secs

-----------------------------------------------------------------------------
(* Properties *)

\* What a goal decides has its reason in the history of the run, however it is
\* nested: it is reached only when the history meets it, as the sticky last match
\* and the tick count lose nothing on the way, and failed only by a time limit
\* that has run out.
DecisionIsJustified ==
  /\ status = "Reached" => Met[goal]
  /\ status = "Failed" => \E c \in Subconditions[goal] : Expired(c)

\* docs/goal-manifest.md, Any: an abnormal end is never masked by a normal
\* one.  An alternative that timed out fails the goal though another is met,
\* and one nested in an alternative does.
AnyFailurePriority ==
  (seen # <<>> /\ \E c \in Decisive[goal] : Expired(c)) => status = "Failed"

\* A step never leaves a goal pending that its history meets, whatever else is
\* in it: so a count of steps that stands alone or in an Any ends the run
\* whatever is recognised, as docs/goal-manifest.md says.
MetIsNoticed == (seen # <<>> /\ Met[goal]) => status # "NotYet"

\* An accepted goal is pending while nothing has happened: no count, no limit
\* and no empty composition in it decides the run before its first step.
PendingAtStart ==
  (seen = <<>> /\ elapsed = 0) => EvaluateGoal(goal, ctx, elapsed) = "NotYet"

\* An accepted goal is no higher than the limit, so that is how deep its
\* evaluation goes, whatever depth a manifest nests to.
DepthIsBounded ==
  MaxCompositionDepth <= MaxHeight => goal \in Trees[MaxCompositionDepth]

\* Validation keeps out what would end a run before it begins and what would be
\* nested too deep to evaluate.
AcceptedIsSound == PendingAtStart /\ DepthIsBounded

\* docs/goal-manifest.md, All: a child that failed fails the composition.
AllFailurePriority ==
  (Len(seen) > 0 /\ goal.kind = "All" /\ status # "Failed")
  => ~\E i \in DOMAIN goal.conditions : Expired(goal.conditions[i])
=============================================================================
