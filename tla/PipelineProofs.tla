--------------------------- MODULE PipelineProofs ---------------------------
(***************************************************************************)
(* Theorems about the pipeline driver, for every pipeline, watch list,     *)
(* limit, threshold, grace and goal: its types and budget, the policy of   *)
(* recovery it implements, and, over the log of a run, that what it        *)
(* decides and reports agrees with what happened to the game.  The last    *)
(* part is about the goals of a manifest.                                  *)
(***************************************************************************)
EXTENDS PipelineGoal, FiniteSetTheorems, TLAPS

-----------------------------------------------------------------------------
(* The guard operations stay within Guards. *)

LEMMA GuardOperations ==
  ASSUME NEW g \in Guards, now \in Nat
  PROVE  /\ RecordMiss(g) \in Guards
         /\ RecordMatch(g) \in Guards
         /\ Recovered(g) \in Guards
         /\ ConsumeAttempt(g) \in Guards
<1>1. RecordMiss(g) \in Guards
  BY DEF Guards, RecordMiss
<1>2. RecordMatch(g) \in Guards
  BY DEF Guards, RecordMatch
<1>3. Recovered(g) \in Guards
  BY DEF Guards, Recovered
<1>4. ConsumeAttempt(g) \in Guards
  <2>1. Larger(g.maxConsecutive, g.attempts + 1) \in Nat
    BY DEF Guards, Larger
  <2>2. g.attempts + 1 \in Nat /\ g.total + 1 \in Nat
    BY DEF Guards
  <2> QED  BY <2>1, <2>2, Zenon DEF Guards, ConsumeAttempt
<1> QED  BY <1>1, <1>2, <1>3, <1>4

LEMMA NewGuardType == NewGuard \in Guards
  BY ConstantsAssumption DEF NewGuard, Guards

\* A step of the given kind about tasks is a step outcome.
LEMMA StepType ==
  ASSUME NEW kind \in StepKinds, NEW task \in Tasks \cup {None},
         NEW next \in Tasks \cup {None}, NEW cmd \in BOOLEAN
  PROVE  /\ Step(kind, task, next, cmd) \in Steps
         /\ Step(kind, task, next, cmd).kind = kind
         /\ Step(kind, task, next, cmd).task = task
         /\ Step(kind, task, next, cmd).cmd = cmd
  BY DEF Step, Steps

LEMMA PlainType ==
  ASSUME NEW kind \in StepKinds
  PROVE  Plain(kind) \in Steps /\ Plain(kind).kind = kind /\ ~Plain(kind).cmd
<1>1. None \in Tasks \cup {None} /\ FALSE \in BOOLEAN
  OBVIOUS
<1>2. Step(kind, None, None, FALSE) \in Steps /\ Step(kind, None, None, FALSE).kind = kind
  BY <1>1, StepType
<1>3. ~Step(kind, None, None, FALSE).cmd
  BY DEF Step
<1> QED  BY <1>2, <1>3 DEF Plain

LEMMA RestingType ==
  Resting \in Steps /\ Resting.kind = "NoMatch" /\ ~Resting.cmd
  BY PlainType DEF Resting, StepKinds

LEMMA AdvanceNextType ==
  ASSUME NEW t \in Tasks
  PROVE  AdvanceNext(t) \in Tasks \cup {None} /\ Sends(t) \in BOOLEAN
  BY ConstantsAssumption DEF AdvanceNext, Sends

LEMMA OutcomeType ==
  ASSUME TypeOK, NEW r \in StopReasons, NEW n \in Nat,
         NEW f \in Seq(Tasks), NEW m \in [Tasks -> Nat], NEW g \in Guards
  PROVE  Outcome(r, n, f, m, g) \in Outcomes
  BY DEF Outcome, Outcomes, TypeOK, Guards, VerifyCounts

LEMMA GoalTickType ==
  ASSUME TypeOK, NEW m \in Matches \cup {None}
  PROVE  GoalTick(m) \in [iterations : Nat, lastMatch : Matches \cup {None}]
  BY DEF GoalTick, TypeOK

\* The pieces a handled step is made of, from the types before it.
LEMMA FinishType ==
  ASSUME TypeOK, NEW r \in StopReasons, NEW n \in Nat,
         fired' \in Seq(Tasks), matches' \in [Tasks -> Nat],
         guard' \in Guards, Finish(r, n)
  PROVE  pc' \in PcValues /\ outcome' \in Outcomes \cup {None}
  BY OutcomeType DEF Finish, PcValues

LEMMA ContinueType ==
  ASSUME TypeOK, Continue
  PROVE  pc' \in PcValues /\ outcome' \in Outcomes \cup {None}
  BY DEF Continue, TypeOK, PcValues

LEMMA RunRecoveryType ==
  ASSUME TypeOK, NEW g \in Guards, iterations \in Nat \ {0},
         fired' \in Seq(Tasks), matches' \in [Tasks -> Nat], RunRecovery(g)
  PROVE  pc' \in PcValues /\ outcome' \in Outcomes \cup {None} /\ guard' \in Guards
<1>1. CASE BudgetLeft(g)
  BY <1>1, GuardOperations DEF RunRecovery, TypeOK, PcValues
<1>2. CASE ~BudgetLeft(g)
  <2>1. guard' = g /\ Finish("RecoveryExhausted", iterations - 1)
    BY <1>2 DEF RunRecovery
  <2>2. iterations - 1 \in Nat
    OBVIOUS
  <2> QED  BY <2>1, <2>2, FinishType DEF StopReasons
<1> QED  BY <1>1, <1>2

-----------------------------------------------------------------------------
(* Type correctness.  Reports subtract one from the iteration count, so the
   invariant also says that a step under way has been counted. *)

StepCounted ==
  pc \in {"Capture", "Execute", "Verify", "Dispatch", "Recover"} => iterations > 0

\* A step outcome that sent a command, or is of a watch task, names its task.
StepNamesTask ==
  (step.cmd \/ step.kind = "WatchFired") => step.task \in Tasks

TypeInv == TypeOK /\ StepCounted /\ StepNamesTask

LEMMA InitTypeInv == Init => TypeInv
<1> SUFFICES ASSUME Init PROVE TypeInv
  OBVIOUS
<1>1. step \in Steps
  BY RestingType DEF Init
<1>2. guard \in Guards
  BY NewGuardType DEF Init
<1>3. goalCtx \in [iterations : Nat, lastMatch : Matches \cup {None}]
  BY DEF Init
<1>4. matches \in [Tasks -> Nat] /\ verify \in VerifyCounts /\ fired \in Seq(Tasks)
  BY DEF Init, VerifyCounts
<1>5. QED
  BY <1>1, <1>2, <1>3, <1>4, ConstantsAssumption
     DEF Init, TypeInv, TypeOK, StepCounted, StepNamesTask, PcValues, Resting,
         Plain, Step

\* What a guarded miss does to the types, for both steps that miss.
LEMMA NoMatchBodyType ==
  ASSUME TypeOK, iterations > 0, fired' \in Seq(Tasks),
         matches' \in [Tasks -> Nat], NoMatchBody
  PROVE  /\ pc' \in PcValues
         /\ outcome' \in Outcomes \cup {None}
         /\ guard' \in Guards
         /\ goalCtx' \in [iterations : Nat, lastMatch : Matches \cup {None}]
<1> DEFINE due == RecoveryEnabled /\ MissIsDue(guard)
           g == IF RecoveryEnabled THEN RecordMiss(guard) ELSE guard
<1>1. g \in Guards
  BY GuardOperations DEF TypeOK
<1>2. goalCtx' \in [iterations : Nat, lastMatch : Matches \cup {None}]
  BY GoalTickType DEF NoMatchBody, EvalGoalStop, TypeOK
<1>3. CASE GoalActive /\ GoalStatus(None) # "NotYet"
  <2>1. guard' = g /\ Finish(GoalReason(GoalStatus(None)), iterations)
    BY <1>3 DEF NoMatchBody, EvalGoalStop
  <2>2. GoalReason(GoalStatus(None)) \in StopReasons
    BY DEF GoalReason, StopReasons
  <2> QED  BY <1>1, <1>2, <2>1, <2>2, FinishType DEF TypeOK
<1>4. CASE ~(GoalActive /\ GoalStatus(None) # "NotYet")
  <2>1. IF due THEN RunRecovery(g) ELSE guard' = g /\ Continue
    BY <1>4 DEF NoMatchBody, EvalGoalStop
  <2>2. CASE due
    <3> iterations \in Nat \ {0}
      BY DEF TypeOK
    <3> QED  BY <1>1, <1>2, <2>1, <2>2, RunRecoveryType
  <2>3. CASE ~due
    BY <1>1, <1>2, <2>1, <2>3, ContinueType
  <2> QED  BY <2>2, <2>3
<1> QED  BY <1>3, <1>4

LEMMA FiredAfterType ==
  ASSUME TypeOK, step.task \in Tasks \/ ~step.cmd
  PROVE  FiredAfter \in Seq(Tasks)
  BY DEF TypeOK, FiredAfter, Steps

LEMMA BumpType ==
  ASSUME TypeOK, NEW t \in Tasks
  PROVE  BumpTaskMatch(t) \in [Tasks -> Nat]
  BY DEF TypeOK, BumpTaskMatch

\* Handling a step leaves these variables typed, whatever it decides.
LEMMA DispatchType ==
  ASSUME TypeInv, NEW kinds, Dispatching(kinds),
         fired' \in Seq(Tasks), matches' \in [Tasks -> Nat], guard' \in Guards,
         pc' \in PcValues, outcome' \in Outcomes \cup {None},
         lastMatch' \in Matches \cup {None},
         goalCtx' \in [iterations : Nat, lastMatch : Matches \cup {None}]
  PROVE  TypeInv'
<1>1. step' \in Steps /\ step'.kind = "NoMatch" /\ ~step'.cmd
  BY RestingType DEF Dispatching
<1>2. iterations' = iterations /\ iterations > 0
  BY DEF Dispatching, TypeInv, StepCounted
<1>3. TypeOK'
  BY <1>1, <1>2 DEF Dispatching, TypeInv, TypeOK
<1>4. QED
  BY <1>1, <1>2, <1>3 DEF TypeInv, StepCounted, StepNamesTask

LEMMA RunOnceTypeInv == ASSUME TypeInv, RunOnce PROVE TypeInv'
<1> USE DEF TypeInv
<1>1. CASE CaptureFails
  BY <1>1, PlainType
     DEF CaptureFails, Captured, TypeOK, StepCounted, StepNamesTask, PcValues, StepKinds
<1>2. CASE WatchMatches
  <2>1. PICK i \in DOMAIN Watch :
          /\ Watch[i] \in Defined
          /\ Captured(Step("WatchFired", Watch[i], None, Sends(Watch[i])),
                      IF Sends(Watch[i]) THEN "Execute" ELSE "Dispatch")
    BY <1>2 DEF WatchMatches
  <2>2. Watch[i] \in Tasks /\ Sends(Watch[i]) \in BOOLEAN
    BY <2>1, ConstantsAssumption, AdvanceNextType
  <2>3. step' \in Steps /\ step'.task \in Tasks
    BY <2>1, <2>2, StepType DEF Captured, StepKinds
  <2> QED
    BY <1>2, <2>1, <2>3
       DEF WatchMatches, Captured, TypeOK, StepCounted, StepNamesTask, PcValues
<1>3. CASE TaskAbsent
  BY <1>3, PlainType
     DEF TaskAbsent, Captured, TypeOK, StepCounted, StepNamesTask, PcValues, StepKinds
<1>4. CASE DetectFails
  BY <1>4, PlainType
     DEF DetectFails, Captured, TypeOK, StepCounted, StepNamesTask, PcValues, StepKinds
<1>5. CASE TaskMatches
  <2>1. AdvanceNext(current) \in Tasks \cup {None} /\ Sends(current) \in BOOLEAN
    BY AdvanceNextType DEF TypeOK
  <2>2. step' \in Steps /\ step'.task \in Tasks
    <3> DEFINE kind == IF Sends(current) THEN "Fired" ELSE "NoFire"
    <3>1. step' = Step(kind, current, AdvanceNext(current), Sends(current))
      BY <1>5 DEF TaskMatches, Captured
    <3>2. kind \in StepKinds /\ current \in Tasks \cup {None}
      BY DEF StepKinds, TypeOK
    <3>3. current \in Tasks
      BY DEF TypeOK
    <3> HIDE DEF kind
    <3> QED  BY <2>1, <3>1, <3>2, <3>3, StepType
  <2>3. current' \in Tasks
    BY <1>5, <2>1 DEF TaskMatches, TypeOK
  <2>4. lastMatch' \in Matches
    BY <1>5 DEF TaskMatches, TypeOK, Matches
  <2> QED
    BY <1>5, <2>2, <2>3, <2>4
       DEF TaskMatches, Captured, TypeOK, StepCounted, StepNamesTask, PcValues
<1>6. CASE ExecuteOk
  <2>1. verify' \in VerifyCounts
    BY <1>6 DEF ExecuteOk, TypeOK, VerifyCounts
  <2> QED
    BY <1>6, <2>1 DEF ExecuteOk, TypeOK, StepCounted, StepNamesTask, PcValues
<1>7. CASE ExecuteFails
  BY <1>7, PlainType
     DEF ExecuteFails, TypeOK, StepCounted, StepNamesTask, PcValues, StepKinds
<1>8. CASE VerifyCaptureFails
  BY <1>8, PlainType
     DEF VerifyCaptureFails, Verified, TypeOK, StepCounted, StepNamesTask, PcValues, StepKinds
<1>9. CASE VerifyStillPresent
  <2>1. verify' \in VerifyCounts
    <3>1. verify \in VerifyCounts /\ verify' = [verify EXCEPT !.failed = @ + 1]
      BY <1>9 DEF VerifyStillPresent, TypeOK
    <3> QED  BY <3>1 DEF VerifyCounts
  <2>2. step' \in Steps /\ step'.task = step.task /\ step'.cmd = step.cmd
                       /\ step'.kind = "FiredUnverified"
    BY <1>9 DEF VerifyStillPresent, Verified, TypeOK, Steps, StepKinds
  <2> QED
    BY <1>9, <2>1, <2>2
       DEF VerifyStillPresent, Verified, TypeOK, StepCounted, StepNamesTask, PcValues
<1>10. CASE VerifyGone
  <2>1. verify' \in VerifyCounts
    <3>1. verify \in VerifyCounts /\ verify.passed + 1 \in Nat
      BY DEF TypeOK, VerifyCounts
    <3> QED  BY <1>10, <3>1, Zenon DEF VerifyGone, VerifyCounts
  <2> QED
    BY <1>10, <2>1 DEF VerifyGone, Verified, TypeOK, StepCounted, StepNamesTask, PcValues
<1> QED
  BY <1>1, <1>2, <1>3, <1>4, <1>5, <1>6, <1>7, <1>8, <1>9, <1>10 DEF RunOnce

LEMMA HandleStepTypeInv == ASSUME TypeInv, HandleStep PROVE TypeInv'
<1> USE DEF TypeInv
<1>1. CASE StepMatched
  <2>1. fired' \in Seq(Tasks) /\ matches' \in [Tasks -> Nat]
    BY <1>1, FiredAfterType, BumpType DEF StepMatched, TypeOK, StepNamesTask
  <2>2. lastMatch' \in Matches \cup {None}
    BY <1>1 DEF StepMatched, TypeOK
  <2>3. goalCtx' \in [iterations : Nat, lastMatch : Matches \cup {None}]
    BY <1>1, GoalTickType DEF StepMatched, EvalGoalStop, TypeOK
  <2>4. RecordMatch(guard) \in Guards /\ guard' = RecordMatch(guard)
    BY <1>1, GuardOperations DEF StepMatched, EvalGoalStop, TypeOK
  <2>5. pc' \in PcValues /\ outcome' \in Outcomes \cup {None}
    <3>1. CASE GoalActive /\ GoalStatus(lastMatch) # "NotYet"
      <4>1. Finish(GoalReason(GoalStatus(lastMatch)), iterations)
        BY <1>1, <3>1 DEF StepMatched, EvalGoalStop
      <4>2. GoalReason(GoalStatus(lastMatch)) \in StopReasons
        BY DEF GoalReason, StopReasons
      <4> QED  BY <2>1, <2>4, <4>1, <4>2, FinishType DEF TypeOK
    <3>2. CASE ~(GoalActive /\ GoalStatus(lastMatch) # "NotYet")
      <4>1. \/ Continue
            \/ Finish("TerminalTask", iterations)
            \/ Finish("Stop", iterations)
        BY <1>1, <3>2 DEF StepMatched, EvalGoalStop
      <4>2. {"TerminalTask", "Stop"} \subseteq StopReasons
        BY DEF StopReasons
      <4> QED  BY <2>1, <2>4, <4>1, <4>2, FinishType, ContinueType DEF TypeOK
    <3> QED  BY <3>1, <3>2
  <2> QED  BY <1>1, <2>1, <2>2, <2>3, <2>4, <2>5, DispatchType DEF StepMatched
<1>2. CASE StepNoMatch
  <2>1. fired' \in Seq(Tasks) /\ matches' \in [Tasks -> Nat]
                            /\ lastMatch' \in Matches \cup {None}
    BY <1>2 DEF StepNoMatch, TypeOK
  <2>2. NoMatchBody /\ iterations > 0
    BY <1>2 DEF StepNoMatch, Dispatching, StepCounted
  <2> QED  BY <1>2, <2>1, <2>2, NoMatchBodyType, DispatchType DEF StepNoMatch
<1>3. CASE StepFiredUnverified
  <2>1. fired' \in Seq(Tasks) /\ matches' \in [Tasks -> Nat]
                            /\ lastMatch' \in Matches \cup {None}
    BY <1>3, FiredAfterType, BumpType
       DEF StepFiredUnverified, TypeOK, StepNamesTask
  <2>2. NoMatchBody /\ iterations > 0
    BY <1>3 DEF StepFiredUnverified, Dispatching, StepCounted
  <2> QED  BY <1>3, <2>1, <2>2, NoMatchBodyType, DispatchType DEF StepFiredUnverified
<1>4. CASE StepError
  <2>1. fired' \in Seq(Tasks) /\ matches' \in [Tasks -> Nat]
                            /\ lastMatch' \in Matches \cup {None}
    BY <1>4 DEF StepError, TypeOK
  <2>2. goalCtx' \in [iterations : Nat, lastMatch : Matches \cup {None}]
    BY <1>4 DEF StepError, TypeOK
  <2>3. iterations \in Nat \ {0} /\ iterations - 1 \in Nat
    BY <1>4 DEF StepError, Dispatching, StepCounted, TypeOK
  <2>4. guard \in Guards
    BY DEF TypeOK
  <2>5. \/ guard' = guard /\ Finish("ExecuteError", iterations - 1)
        \/ guard' = guard /\ Continue
        \/ RunRecovery(guard)
        \/ guard' = guard /\ Finish("CaptureError", iterations - 1)
    BY <1>4 DEF StepError
  <2>6. {"ExecuteError", "CaptureError"} \subseteq StopReasons
    BY DEF StopReasons
  <2>7. guard' \in Guards /\ pc' \in PcValues /\ outcome' \in Outcomes \cup {None}
    BY <2>1, <2>3, <2>4, <2>5, <2>6, FinishType, ContinueType, RunRecoveryType
  <2> QED  BY <1>4, <2>1, <2>2, <2>7, DispatchType DEF StepError
<1>5. CASE StepWatchFired
  <2>1. fired' \in Seq(Tasks) /\ matches' \in [Tasks -> Nat]
    BY <1>5, FiredAfterType, BumpType
       DEF StepWatchFired, Dispatching, TypeOK, StepNamesTask
  <2>2. /\ lastMatch' \in Matches \cup {None}
        /\ goalCtx' \in [iterations : Nat, lastMatch : Matches \cup {None}]
    BY <1>5 DEF StepWatchFired, TypeOK
  <2>3. guard' \in Guards
    BY <1>5, GuardOperations DEF StepWatchFired, TypeOK
  <2> QED  BY <1>5, <2>1, <2>2, <2>3, ContinueType, DispatchType DEF StepWatchFired
<1>6. CASE HookSucceeds
  <2>1. guard' \in Guards
    BY <1>6, GuardOperations DEF HookSucceeds, TypeOK
  <2> QED
    BY <1>6, <2>1 DEF HookSucceeds, HookReturns, Continue, TypeOK, StepCounted,
                      StepNamesTask, PcValues
<1>7. CASE HookFails
  <2>1. iterations - 1 \in Nat
    BY <1>7 DEF HookFails, HookReturns, StepCounted, TypeOK
  <2>2. pc' = "Done" /\ outcome' \in Outcomes \cup {None}
    BY <1>7, <2>1, FinishType DEF HookFails, HookReturns, Finish, TypeOK, StopReasons
  <2> QED
    BY <1>7, <2>2 DEF HookFails, HookReturns, TypeOK, StepCounted, StepNamesTask, PcValues
<1> QED
  BY <1>1, <1>2, <1>3, <1>4, <1>5, <1>6, <1>7 DEF HandleStep

LEMMA NextTypeInv == TypeInv /\ [Next]_vars => TypeInv'
<1> SUFFICES ASSUME TypeInv, [Next]_vars PROVE TypeInv'
  OBVIOUS
<1> USE DEF TypeInv
<1>1. CASE LoopInterrupted
  <2>1. pc' = "Done" /\ outcome' \in Outcomes \cup {None}
    BY <1>1, FinishType DEF LoopInterrupted, loopVars, Finish, TypeOK, StopReasons
  <2> QED
    BY <1>1, <2>1 DEF LoopInterrupted, loopVars, TypeOK, StepCounted, StepNamesTask, PcValues
<1>2. CASE LoopLimit
  <2>1. pc' = "Done" /\ outcome' \in Outcomes \cup {None}
    BY <1>2, FinishType DEF LoopLimit, Finish, TypeOK, StopReasons
  <2> QED
    BY <1>2, <2>1 DEF LoopLimit, TypeOK, StepCounted, StepNamesTask, PcValues
<1>3. CASE LoopBegin
  BY <1>3 DEF LoopBegin, TypeOK, StepCounted, StepNamesTask, PcValues
<1>4. CASE RunOnce
  BY <1>4, RunOnceTypeInv
<1>5. CASE HandleStep
  BY <1>5, HandleStepTypeInv
<1>6. CASE Wake
  BY <1>6 DEF Wake, loopVars, TypeOK, StepCounted, StepNamesTask, PcValues
<1>7. CASE Cancel
  BY <1>7 DEF Cancel, loopVars, TypeOK, StepCounted, StepNamesTask
<1>8. CASE Tick
  BY <1>8 DEF Tick, loopVars, TypeOK, StepCounted, StepNamesTask
<1>9. CASE UNCHANGED vars
  BY <1>9 DEF vars, loopVars, TypeOK, StepCounted, StepNamesTask
<1> QED
  BY <1>1, <1>2, <1>3, <1>4, <1>5, <1>6, <1>7, <1>8, <1>9 DEF Next, Loop

\* The driver's variables always hold values of their types: in particular the
\* iteration count of a report never goes below zero.
THEOREM TypeCorrect == Spec => []TypeOK
<1>1. TypeInv => TypeOK
  BY DEF TypeInv
<1>2. Spec => []TypeInv
  BY InitTypeInv, NextTypeInv, PTL DEF Spec
<1> QED
  BY <1>1, <1>2, PTL

-----------------------------------------------------------------------------
(* The recovery budget.  The report is copied from the guard, so the invariant
   bounds the guard: by the budget, and its total by the iterations begun, the
   one under way not having recovered yet. *)

GuardWithin(g, n) ==
  /\ g.attempts <= g.maxConsecutive
  /\ g.maxConsecutive <= MaxAttempts
  /\ g.maxConsecutive <= g.total
  /\ g.total <= n

BeforeRecovery == pc \in {"Capture", "Execute", "Verify", "Dispatch"}

BudgetInv ==
  /\ GuardWithin(guard, MaxIterations)
  /\ pc # "Done" => GuardWithin(guard, iterations) /\ iterations <= MaxIterations
  /\ BeforeRecovery => GuardWithin(guard, iterations - 1)
  /\ ReportedBudget

LEMMA GuardKept ==
  ASSUME NEW g \in Guards, NEW n \in Nat, GuardWithin(g, n)
  PROVE  /\ GuardWithin(RecordMiss(g), n)
         /\ GuardWithin(RecordMatch(g), n)
         /\ GuardWithin(Recovered(g), n)
<1>1. GuardWithin(RecordMiss(g), n)
  BY DEF GuardWithin, RecordMiss, Guards
<1>2. GuardWithin(RecordMatch(g), n)
  BY ConstantsAssumption DEF GuardWithin, RecordMatch, Guards
<1>3. GuardWithin(Recovered(g), n)
  BY DEF GuardWithin, Recovered, Guards
<1> QED  BY <1>1, <1>2, <1>3

\* An attempt taken within the budget is one more in its outage and in total.
LEMMA GuardConsumed ==
  ASSUME NEW g \in Guards, NEW n \in Nat, GuardWithin(g, n), BudgetLeft(g)
  PROVE  GuardWithin(ConsumeAttempt(g), n + 1)
<1> DEFINE a == g.attempts + 1
           m == Larger(g.maxConsecutive, a)
<1>1. g.attempts \in Nat /\ g.maxConsecutive \in Nat /\ g.total \in Nat
  BY DEF Guards
<1>2. /\ a <= m /\ m <= MaxAttempts /\ m <= g.total + 1 /\ g.total + 1 <= n + 1
  BY <1>1, ConstantsAssumption DEF GuardWithin, BudgetLeft, Larger
<1>3. /\ ConsumeAttempt(g).attempts = a
      /\ ConsumeAttempt(g).maxConsecutive = m
      /\ ConsumeAttempt(g).total = g.total + 1
  BY Zenon DEF ConsumeAttempt, Guards
<1> HIDE DEF a, m
<1> QED  BY <1>2, <1>3 DEF GuardWithin

LEMMA FinishBudget ==
  ASSUME NEW r, NEW n, Finish(r, n), GuardWithin(guard', MaxIterations),
         r = "RecoveryExhausted" => guard'.maxConsecutive = MaxAttempts
  PROVE  BudgetInv'
<1>1. /\ outcome'.reason = r
      /\ outcome'.attempts = guard'.total
      /\ outcome'.maxConsecutive = guard'.maxConsecutive
      /\ pc' = "Done"
  BY DEF Finish, Outcome
<1>2. ReportedBudget'
  BY <1>1 DEF ReportedBudget, GuardWithin
<1> QED  BY <1>1, <1>2 DEF BudgetInv, BeforeRecovery

\* A step on which the loop goes on leaves the invariant to its guard.
LEMMA GoOnBudget ==
  ASSUME BudgetInv, UNCHANGED <<outcome, iterations>>,
         iterations \in Nat, iterations <= MaxIterations,
         pc' \in {"Sleep", "Recover", "Top"},
         GuardWithin(guard', iterations), guard' \in Guards
  PROVE  BudgetInv'
<1>1. GuardWithin(guard', MaxIterations)
  BY ConstantsAssumption DEF GuardWithin, Guards
<1>2. ReportedBudget'
  BY DEF BudgetInv, ReportedBudget
<1> QED  BY <1>1, <1>2 DEF BudgetInv, BeforeRecovery

\* The bounds a step being handled starts from.
DispatchBounds ==
  /\ iterations \in Nat \ {0}
  /\ iterations - 1 \in Nat
  /\ iterations <= MaxIterations
  /\ guard \in Guards
  /\ GuardWithin(guard, iterations - 1)

LEMMA DispatchHasBounds ==
  ASSUME TypeInv, BudgetInv, pc = "Dispatch"
  PROVE  DispatchBounds
  BY DEF TypeInv, TypeOK, StepCounted, BudgetInv, BeforeRecovery, DispatchBounds

LEMMA RelaxBounds ==
  ASSUME DispatchBounds, NEW g \in Guards, GuardWithin(g, iterations - 1)
  PROVE  GuardWithin(g, iterations) /\ GuardWithin(g, MaxIterations)
  BY ConstantsAssumption DEF DispatchBounds, GuardWithin, Guards

LEMMA RunRecoveryBudget ==
  ASSUME BudgetInv, DispatchBounds, iterations' = iterations,
         NEW g \in Guards, GuardWithin(g, iterations - 1), RunRecovery(g)
  PROVE  BudgetInv'
<1>1. CASE BudgetLeft(g)
  <2>1. guard' = ConsumeAttempt(g) /\ pc' = "Recover" /\ UNCHANGED outcome
    BY <1>1 DEF RunRecovery
  <2>2. iterations - 1 \in Nat /\ iterations - 1 + 1 = iterations
    BY DEF DispatchBounds
  <2>3. GuardWithin(guard', iterations)
    BY <1>1, <2>1, <2>2, GuardConsumed
  <2>4. guard' \in Guards
    <3>1. Larger(g.maxConsecutive, g.attempts + 1) \in Nat
      BY DEF Guards, Larger
    <3>2. g.attempts + 1 \in Nat /\ g.total + 1 \in Nat
      BY DEF Guards
    <3> QED  BY <2>1, <3>1, <3>2, Zenon DEF Guards, ConsumeAttempt
  <2> QED  BY <2>1, <2>3, <2>4, GoOnBudget DEF DispatchBounds
<1>2. CASE ~BudgetLeft(g)
  <2>1. guard' = g /\ Finish("RecoveryExhausted", iterations - 1)
    BY <1>2 DEF RunRecovery
  <2>2. g.maxConsecutive = MaxAttempts
    BY <1>2, ConstantsAssumption DEF BudgetLeft, GuardWithin, Guards
  <2> QED  BY <2>1, <2>2, RelaxBounds, FinishBudget
<1> QED  BY <1>1, <1>2

LEMMA NoMatchBodyBudget ==
  ASSUME TypeInv, BudgetInv, DispatchBounds, iterations' = iterations, NoMatchBody
  PROVE  BudgetInv'
<1> DEFINE due == RecoveryEnabled /\ MissIsDue(guard)
           g == IF RecoveryEnabled THEN RecordMiss(guard) ELSE guard
<1>1. g \in Guards /\ GuardWithin(g, iterations - 1)
  BY GuardOperations, GuardKept DEF DispatchBounds, TypeInv, TypeOK
<1> HIDE DEF g
<1>2. CASE GoalActive /\ GoalStatus(None) # "NotYet"
  <2>1. guard' = g /\ Finish(GoalReason(GoalStatus(None)), iterations)
    BY <1>2 DEF NoMatchBody, EvalGoalStop, g
  <2>2. GoalReason(GoalStatus(None)) # "RecoveryExhausted"
    BY DEF GoalReason
  <2> QED  BY <1>1, <2>1, <2>2, RelaxBounds, FinishBudget
<1>3. CASE ~(GoalActive /\ GoalStatus(None) # "NotYet")
  <2>1. IF due THEN RunRecovery(g) ELSE guard' = g /\ Continue
    BY <1>3 DEF NoMatchBody, EvalGoalStop, g
  <2>2. CASE due
    BY <1>1, <2>1, <2>2, RunRecoveryBudget
  <2>3. CASE ~due
    BY <1>1, <2>1, <2>3, RelaxBounds, GoOnBudget DEF Continue, DispatchBounds
  <2> QED  BY <2>2, <2>3
<1> QED  BY <1>2, <1>3

LEMMA HandleStepBudget ==
  ASSUME TypeInv, BudgetInv, HandleStep
  PROVE  BudgetInv'
<1>1. CASE StepMatched
  <2>1. DispatchBounds /\ iterations' = iterations
    BY <1>1, DispatchHasBounds DEF StepMatched, Dispatching
  <2>2. guard' = RecordMatch(guard)
    BY <1>1 DEF StepMatched, EvalGoalStop
  <2>3. guard' \in Guards /\ GuardWithin(guard', iterations - 1)
    BY <2>1, <2>2, GuardOperations, GuardKept DEF DispatchBounds, TypeInv, TypeOK
  <2>4. \/ Continue
        \/ \E r \in StopReasons \ {"RecoveryExhausted"} : Finish(r, iterations)
    BY <1>1 DEF StepMatched, EvalGoalStop, GoalReason, StopReasons
  <2>5. CASE Continue
    BY <2>1, <2>3, <2>5, RelaxBounds, GoOnBudget DEF Continue, DispatchBounds
  <2>6. CASE \E r \in StopReasons \ {"RecoveryExhausted"} : Finish(r, iterations)
    BY <2>1, <2>3, <2>6, RelaxBounds, FinishBudget
  <2> QED  BY <2>4, <2>5, <2>6
<1>2. CASE StepNoMatch
  BY <1>2, DispatchHasBounds, NoMatchBodyBudget DEF StepNoMatch, Dispatching
<1>3. CASE StepFiredUnverified
  BY <1>3, DispatchHasBounds, NoMatchBodyBudget DEF StepFiredUnverified, Dispatching
<1>4. CASE StepError
  <2>1. DispatchBounds /\ iterations' = iterations
    BY <1>4, DispatchHasBounds DEF StepError, Dispatching
  <2>2. \/ guard' = guard /\ Finish("ExecuteError", iterations - 1)
        \/ guard' = guard /\ Continue
        \/ RunRecovery(guard)
        \/ guard' = guard /\ Finish("CaptureError", iterations - 1)
    BY <1>4 DEF StepError
  <2>3. GuardWithin(guard, iterations) /\ GuardWithin(guard, MaxIterations)
    BY <2>1, RelaxBounds DEF DispatchBounds
  <2>4. CASE RunRecovery(guard)
    BY <2>1, <2>4, RunRecoveryBudget DEF DispatchBounds
  <2>5. CASE guard' = guard /\ Continue
    BY <2>1, <2>3, <2>5, GoOnBudget DEF Continue, DispatchBounds
  <2>6. CASE guard' = guard /\ (\/ Finish("ExecuteError", iterations - 1)
                                \/ Finish("CaptureError", iterations - 1))
    BY <2>3, <2>6, FinishBudget
  <2> QED  BY <2>2, <2>4, <2>5, <2>6
<1>5. CASE StepWatchFired
  <2>1. DispatchBounds /\ iterations' = iterations /\ Continue
    BY <1>5, DispatchHasBounds DEF StepWatchFired, Dispatching
  <2>2. guard' = RecordMatch(guard)
    BY <1>5 DEF StepWatchFired
  <2>3. guard' \in Guards /\ GuardWithin(guard', iterations - 1)
    BY <2>1, <2>2, GuardOperations, GuardKept DEF DispatchBounds, TypeInv, TypeOK
  <2> QED  BY <2>1, <2>3, RelaxBounds, GoOnBudget DEF Continue, DispatchBounds
<1>6. CASE HookSucceeds
  <2>1. guard' = Recovered(guard) /\ Continue /\ iterations' = iterations
    BY <1>6 DEF HookSucceeds, HookReturns
  <2>2. /\ iterations \in Nat /\ iterations <= MaxIterations
        /\ GuardWithin(guard, iterations) /\ guard \in Guards /\ now \in Nat
    BY <1>6 DEF HookSucceeds, HookReturns, TypeInv, TypeOK, BudgetInv
  <2>3. guard' \in Guards /\ GuardWithin(guard', iterations)
    BY <2>1, <2>2, GuardOperations, GuardKept
  <2> QED  BY <2>1, <2>2, <2>3, GoOnBudget DEF Continue
<1>7. CASE HookFails
  BY <1>7, FinishBudget DEF HookFails, BudgetInv
<1> QED
  BY <1>1, <1>2, <1>3, <1>4, <1>5, <1>6, <1>7 DEF HandleStep

\* run_once does not touch what the budget speaks of.
LEMMA RunOnceBudget ==
  ASSUME TypeInv, BudgetInv, RunOnce
  PROVE  BudgetInv'
<1>1. /\ UNCHANGED <<iterations, guard, outcome>>
      /\ BeforeRecovery /\ BeforeRecovery' /\ pc # "Done" /\ pc' # "Done"
  BY DEF RunOnce, CaptureFails, WatchMatches, TaskAbsent, DetectFails, TaskMatches,
         Captured, ExecuteOk, ExecuteFails, VerifyCaptureFails, VerifyStillPresent,
         VerifyGone, Verified, BeforeRecovery
<1> QED  BY <1>1 DEF BudgetInv, ReportedBudget, GuardWithin

LEMMA InitBudget == Init => BudgetInv
  BY ConstantsAssumption
     DEF Init, BudgetInv, GuardWithin, NewGuard, BeforeRecovery, ReportedBudget

LEMMA NextBudget == TypeInv /\ BudgetInv /\ [Next]_vars => BudgetInv'
<1> SUFFICES ASSUME TypeInv, BudgetInv, [Next]_vars PROVE BudgetInv'
  OBVIOUS
<1>1. CASE LoopInterrupted
  BY <1>1, FinishBudget DEF LoopInterrupted, loopVars, BudgetInv
<1>2. CASE LoopLimit
  BY <1>2, FinishBudget DEF LoopLimit, BudgetInv
<1>3. CASE LoopBegin
  <2>1. iterations' = iterations + 1 /\ iterations' <= MaxIterations
    BY <1>3 DEF LoopBegin
  <2>2. guard' = guard /\ guard \in Guards /\ iterations \in Nat
    BY <1>3 DEF LoopBegin, TypeInv, TypeOK
  <2>3. GuardWithin(guard, iterations)
    BY <1>3 DEF LoopBegin, BudgetInv
  <2>4. GuardWithin(guard', iterations') /\ GuardWithin(guard', iterations' - 1)
    BY <2>1, <2>2, <2>3 DEF GuardWithin, Guards
  <2>5. ReportedBudget' /\ GuardWithin(guard', MaxIterations)
    BY <1>3 DEF LoopBegin, BudgetInv, ReportedBudget, GuardWithin
  <2> QED  BY <2>1, <2>4, <2>5 DEF BudgetInv
<1>4. CASE RunOnce
  BY <1>4, RunOnceBudget
<1>5. CASE HandleStep
  BY <1>5, HandleStepBudget
<1>6. CASE Wake \/ Cancel \/ Tick \/ UNCHANGED vars
  <2>1. /\ UNCHANGED <<iterations, guard, outcome>>
        /\ BeforeRecovery' => BeforeRecovery
        /\ pc' # "Done" => pc # "Done"
    BY <1>6 DEF Wake, Cancel, Tick, vars, loopVars, BeforeRecovery
  <2> QED  BY <2>1 DEF BudgetInv, ReportedBudget, GuardWithin
<1> QED
  BY <1>1, <1>2, <1>3, <1>4, <1>5, <1>6 DEF Next, Loop

\* Whatever the game does, the report of a run agrees with the recovery budget.
THEOREM BudgetRespected == Spec => []ReportedBudget
<1>1. BudgetInv => ReportedBudget
  BY DEF BudgetInv
<1>2. Spec => [](TypeInv /\ BudgetInv)
  BY InitTypeInv, NextTypeInv, InitBudget, NextBudget, PTL DEF Spec
<1> QED
  BY <1>1, <1>2, PTL

-----------------------------------------------------------------------------
(* Cancellation.  Only LoopBegin enters "Capture", and at the top of the loop a
   cancel leaves LoopInterrupted as the only step of the driver. *)

CancelStep ==
  cancelled => /\ pc' = "Capture" => pc = "Capture"
               /\ (pc = "Top" /\ pc' = "Done") => outcome'.reason = "Interrupted"

LEMMA NextCancel == [Next]_vars => [CancelStep]_vars
<1> SUFFICES ASSUME [Next]_vars PROVE CancelStep
  OBVIOUS
<1>1. CASE LoopInterrupted
  BY <1>1 DEF LoopInterrupted, Finish, Outcome, CancelStep
<1>2. CASE LoopLimit \/ LoopBegin
  BY <1>2 DEF LoopLimit, LoopBegin, CancelStep
<1>3. CASE RunOnce
  BY <1>3 DEF RunOnce, CaptureFails, WatchMatches, TaskAbsent, DetectFails,
         TaskMatches, Captured, ExecuteOk, ExecuteFails, VerifyCaptureFails,
         VerifyStillPresent, VerifyGone, Verified, CancelStep
<1>4. CASE HandleStep
  BY <1>4 DEF HandleStep, StepMatched, StepNoMatch, StepFiredUnverified, StepError,
         StepWatchFired, HookSucceeds, HookFails, HookReturns, Dispatching,
         NoMatchBody, EvalGoalStop, RunRecovery, Finish, Continue, CancelStep
<1>5. CASE Wake \/ Cancel \/ Tick \/ UNCHANGED vars
  BY <1>5 DEF Wake, Cancel, Tick, vars, CancelStep
<1> QED
  BY <1>1, <1>2, <1>3, <1>4, <1>5 DEF Next, Loop

\* A cancel lets at most the step under way finish.
THEOREM CancelCorrect == Spec => CancelStopsRun
<1>1. [Next]_vars => [CancelStep]_vars
  BY NextCancel
<1>2. [][Next]_vars => [][CancelStep]_vars
  BY <1>1, PTL
<1>3. [][CancelStep]_vars => CancelStopsRun
  BY PTL DEF CancelStopsRun, CancelStep
<1> QED
  BY <1>2, <1>3, PTL DEF Spec

-----------------------------------------------------------------------------
(* The driver implements RecoveryPolicy: the initial states agree, and every
   step of the driver is a step of the policy or leaves it as it was. *)

LEMMA PolicyStarts == Init => Policy!Init
  BY DEF Init, Policy!Init, PolicyPhase, PolicyHealthy, PolicyReport, NewGuard

\* The counters the policy knows, before and after.
SameCounts(g, h) ==
  g.attempts = h.attempts /\ g.total = h.total /\ g.maxConsecutive = h.maxConsecutive

\* What the guard operations do to them.
LEMMA CountsOfGuard ==
  ASSUME NEW g \in Guards, NEW t \in Nat
  PROVE  /\ SameCounts(RecordMiss(g), g)
         /\ SameCounts(Recovered(g), g)
         /\ RecordMatch(g).attempts = 0
         /\ RecordMatch(g).total = g.total
         /\ RecordMatch(g).maxConsecutive = g.maxConsecutive
  BY DEF SameCounts, RecordMiss, Recovered, RecordMatch, Guards

LEMMA CountsOfAttempt ==
  ASSUME NEW g \in Guards
  PROVE  /\ ConsumeAttempt(g).attempts = g.attempts + 1
         /\ ConsumeAttempt(g).total = g.total + 1
         /\ ConsumeAttempt(g).maxConsecutive =
              IF g.attempts + 1 > g.maxConsecutive THEN g.attempts + 1 ELSE g.maxConsecutive
<1>1. ConsumeAttempt(g).attempts = g.attempts + 1
  BY DEF ConsumeAttempt, Guards
<1>2. ConsumeAttempt(g).total = g.total + 1
  BY DEF ConsumeAttempt, Guards
<1>3. ConsumeAttempt(g).maxConsecutive = Larger(g.maxConsecutive, g.attempts + 1)
  BY DEF ConsumeAttempt, Guards
<1>4. Larger(g.maxConsecutive, g.attempts + 1) =
        IF g.attempts + 1 > g.maxConsecutive THEN g.attempts + 1 ELSE g.maxConsecutive
  BY DEF Larger, Guards
<1> QED  BY <1>1, <1>2, <1>3, <1>4

Running == pc \notin {"Recover", "Done"}

\* A run that ends is seen to end, with the counts of its guard.
LEMMA FinishSeen ==
  ASSUME NEW r, NEW n, Finish(r, n)
  PROVE  /\ PolicyPhase' = IF r = "RecoveryExhausted" THEN "exhausted" ELSE "ended"
         /\ PolicyReport' = [total |-> guard'.total, longest |-> guard'.maxConsecutive]
         /\ PolicyHealthy' = FALSE
  BY DEF Finish, Outcome, PolicyPhase, PolicyReport, PolicyHealthy

LEMMA RunningSeen ==
  /\ Running => PolicyPhase = "running" /\ PolicyReport = None
  /\ pc = "Recover" => PolicyPhase = "recovering" /\ PolicyReport = None
  /\ PolicyHealthy \in BOOLEAN
  BY DEF Running, PolicyPhase, PolicyReport, PolicyHealthy

\* Steps of the driver that the policy takes for an observation.
LEMMA ObserveStep ==
  ASSUME Running, Running', SameCounts(guard', guard)
  PROVE  Policy!Observe
  BY RunningSeen DEF Running, PolicyPhase, PolicyReport, PolicyHealthy, SameCounts,
                     Policy!Observe

LEMMA EndStep ==
  ASSUME NEW r, NEW n, Running \/ pc = "Recover", ~PolicyHealthy,
         SameCounts(guard', guard), r # "RecoveryExhausted", Finish(r, n)
  PROVE  Policy!End
  BY RunningSeen, FinishSeen DEF SameCounts, Policy!End, Policy!Ends

LEMMA RunRecoveryStep ==
  ASSUME Running, ~PolicyHealthy, guard \in Guards, guard.attempts <= MaxAttempts,
         NEW g \in Guards, SameCounts(g, guard), RunRecovery(g)
  PROVE  Policy!Recover \/ Policy!GiveUp
<1>1. CASE BudgetLeft(g)
  <2>1. guard' = ConsumeAttempt(g) /\ pc' = "Recover"
    BY <1>1 DEF RunRecovery
  <2>2. /\ guard.attempts < MaxAttempts
        /\ guard'.attempts = guard.attempts + 1
        /\ guard'.total = guard.total + 1
        /\ guard'.maxConsecutive = IF guard'.attempts > guard.maxConsecutive
                                   THEN guard'.attempts ELSE guard.maxConsecutive
    BY <1>1, <2>1, CountsOfAttempt DEF BudgetLeft, SameCounts
  <2>3. /\ PolicyPhase = "running" /\ PolicyPhase' = "recovering"
        /\ PolicyReport' = PolicyReport
        /\ PolicyHealthy' = PolicyHealthy
    BY <2>1 DEF Running, PolicyPhase, PolicyReport, PolicyHealthy
  <2> QED  BY <2>2, <2>3 DEF Policy!Recover
<1>2. CASE ~BudgetLeft(g)
  <2>1. guard' = g /\ Finish("RecoveryExhausted", iterations - 1)
    BY <1>2 DEF RunRecovery
  <2>2. guard.attempts = MaxAttempts
    BY <1>2, ConstantsAssumption DEF BudgetLeft, SameCounts, Guards
  <2> QED
    BY <2>1, <2>2, RunningSeen, FinishSeen DEF SameCounts, Policy!GiveUp, Policy!Ends
<1> QED  BY <1>1, <1>2

LEMMA NoMatchStep ==
  ASSUME Running, ~PolicyHealthy, TypeOK, guard.attempts <= MaxAttempts, NoMatchBody
  PROVE  Policy!Next
<1> DEFINE due == RecoveryEnabled /\ MissIsDue(guard)
           g == IF RecoveryEnabled THEN RecordMiss(guard) ELSE guard
<1>1. g \in Guards /\ SameCounts(g, guard)
  BY GuardOperations, CountsOfGuard DEF TypeOK, SameCounts
<1> HIDE DEF g
<1>2. CASE GoalActive /\ GoalStatus(None) # "NotYet"
  <2>1. guard' = g /\ Finish(GoalReason(GoalStatus(None)), iterations)
    BY <1>2 DEF NoMatchBody, EvalGoalStop, g
  <2>2. GoalReason(GoalStatus(None)) # "RecoveryExhausted"
    BY DEF GoalReason
  <2> QED  BY <1>1, <2>1, <2>2, EndStep DEF Policy!Next
<1>3. CASE ~(GoalActive /\ GoalStatus(None) # "NotYet")
  <2>1. IF due THEN RunRecovery(g) ELSE guard' = g /\ Continue
    BY <1>3 DEF NoMatchBody, EvalGoalStop, g
  <2>2. CASE due
    BY <1>1, <2>1, <2>2, RunRecoveryStep DEF TypeOK, Policy!Next
  <2>3. CASE ~due
    BY <1>1, <2>1, <2>3, ObserveStep DEF Continue, Running, Policy!Next
  <2> QED  BY <2>2, <2>3
<1> QED  BY <1>2, <1>3

LEMMA HandleStepKeepsPolicy ==
  ASSUME TypeInv, BudgetInv, HandleStep
  PROVE  Policy!Next
<1>0. guard \in Guards /\ now \in Nat
  BY DEF TypeInv, TypeOK
<1>1. CASE StepMatched \/ StepWatchFired
  <2>1. /\ PolicyHealthy /\ Running
        /\ guard' = RecordMatch(guard)
    BY <1>1 DEF StepMatched, StepWatchFired, Dispatching, EvalGoalStop, PolicyHealthy, Running
  <2>2. \/ Continue
        \/ \E r \in StopReasons \ {"RecoveryExhausted"} : Finish(r, iterations)
    BY <1>1 DEF StepMatched, StepWatchFired, EvalGoalStop, GoalReason, StopReasons
  <2>3. /\ guard'.attempts = 0 /\ guard'.total = guard.total
        /\ guard'.maxConsecutive = guard.maxConsecutive
    BY <1>0, <2>1, CountsOfGuard
  <2>4. CASE Continue
    <3>1. /\ PolicyPhase' = PolicyPhase /\ PolicyReport' = PolicyReport
          /\ PolicyHealthy' = FALSE
      BY <2>1, <2>4 DEF Continue, Running, PolicyPhase, PolicyReport, PolicyHealthy
    <3> QED  BY <2>1, <2>3, <3>1, RunningSeen DEF Policy!GiveBack, Policy!Next
  <2>5. CASE \E r \in StopReasons \ {"RecoveryExhausted"} : Finish(r, iterations)
    BY <2>1, <2>3, <2>5, RunningSeen, FinishSeen
       DEF Policy!GiveBack, Policy!Ends, Policy!Next
  <2> QED  BY <2>2, <2>4, <2>5
<1>2. guard.attempts <= MaxAttempts
  BY <1>0, ConstantsAssumption DEF BudgetInv, GuardWithin, Guards
<1>3. CASE StepNoMatch \/ StepFiredUnverified
  <2>1. Running /\ ~PolicyHealthy /\ NoMatchBody
    BY <1>3 DEF StepNoMatch, StepFiredUnverified, Dispatching, Running, PolicyHealthy
  <2> QED  BY <1>2, <2>1, NoMatchStep DEF TypeInv
<1>4. CASE StepError
  <2>1. Running /\ ~PolicyHealthy
    BY <1>4 DEF StepError, Dispatching, Running, PolicyHealthy
  <2>2. \/ guard' = guard /\ Finish("ExecuteError", iterations - 1)
        \/ guard' = guard /\ Continue
        \/ RunRecovery(guard)
        \/ guard' = guard /\ Finish("CaptureError", iterations - 1)
    BY <1>4 DEF StepError
  <2>3. SameCounts(guard, guard) /\ (guard' = guard => SameCounts(guard', guard))
    BY DEF SameCounts
  <2>4. CASE RunRecovery(guard)
    BY <1>0, <1>2, <2>1, <2>3, <2>4, RunRecoveryStep DEF Policy!Next
  <2>5. CASE guard' = guard /\ Continue
    BY <2>1, <2>3, <2>5, ObserveStep DEF Continue, Running, Policy!Next
  <2>6. CASE guard' = guard /\ (\/ Finish("ExecuteError", iterations - 1)
                                \/ Finish("CaptureError", iterations - 1))
    BY <2>1, <2>3, <2>6, EndStep DEF Policy!Next
  <2> QED  BY <2>2, <2>4, <2>5, <2>6
<1>5. CASE HookSucceeds
  <2>1. pc = "Recover" /\ guard' = Recovered(guard) /\ Continue
    BY <1>5 DEF HookSucceeds, HookReturns
  <2>2. SameCounts(guard', guard)
    BY <1>0, <2>1, CountsOfGuard
  <2>3. /\ PolicyPhase = "recovering" /\ PolicyPhase' = "running"
        /\ PolicyReport' = PolicyReport /\ PolicyHealthy' = PolicyHealthy
    BY <2>1 DEF Continue, PolicyPhase, PolicyReport, PolicyHealthy
  <2> QED  BY <2>2, <2>3 DEF SameCounts, Policy!Recovered, Policy!Next
<1>6. CASE HookFails
  <2>1. /\ pc = "Recover" /\ ~PolicyHealthy
        /\ guard' = guard /\ Finish("ExecuteError", iterations - 1)
    BY <1>6 DEF HookFails, HookReturns, PolicyHealthy
  <2> QED  BY <2>1, EndStep DEF SameCounts, Policy!Next
<1> QED
  BY <1>1, <1>3, <1>4, <1>5, <1>6 DEF HandleStep

LEMMA NextKeepsPolicy == TypeInv /\ BudgetInv /\ [Next]_vars => [Policy!Next]_(Policy!vars)
<1> SUFFICES ASSUME TypeInv, BudgetInv, [Next]_vars PROVE [Policy!Next]_(Policy!vars)
  OBVIOUS
<1>1. CASE LoopInterrupted \/ LoopLimit
  <2>1. Running /\ ~PolicyHealthy /\ SameCounts(guard', guard)
    BY <1>1 DEF LoopInterrupted, LoopLimit, loopVars, Running, PolicyHealthy, SameCounts
  <2>2. \/ Finish("Interrupted", iterations) \/ Finish("MaxIterations", iterations)
    BY <1>1 DEF LoopInterrupted, LoopLimit
  <2> QED  BY <2>1, <2>2, EndStep DEF Policy!Next
<1>2. CASE LoopBegin \/ RunOnce \/ Wake
  <2>1. Running /\ Running' /\ SameCounts(guard', guard)
    BY <1>2 DEF LoopBegin, Wake, RunOnce, CaptureFails, WatchMatches, TaskAbsent,
         DetectFails, TaskMatches, Captured, ExecuteOk, ExecuteFails, VerifyCaptureFails,
         VerifyStillPresent, VerifyGone, Verified, loopVars, Running, SameCounts
  <2> QED  BY <2>1, ObserveStep DEF Policy!Next
<1>3. CASE HandleStep
  BY <1>3, HandleStepKeepsPolicy
<1>4. CASE Cancel \/ Tick \/ UNCHANGED vars
  <2>1. UNCHANGED <<pc, step, guard, outcome>>
    BY <1>4 DEF Cancel, Tick, vars, loopVars
  <2> QED
    BY <2>1 DEF Policy!vars, PolicyPhase, PolicyHealthy, PolicyReport
<1> QED
  BY <1>1, <1>2, <1>3, <1>4 DEF Next, Loop

\* README: recovery.  The driver keeps the recovery policy of its budget.
THEOREM RecoveryCorrect == Spec => KeepsRecoveryPolicy
<1>1. Spec => [](TypeInv /\ BudgetInv)
  BY InitTypeInv, NextTypeInv, InitBudget, NextBudget, PTL DEF Spec
<1>2. TypeInv /\ BudgetInv /\ [Next]_vars => [Policy!Next]_(Policy!vars)
  BY NextKeepsPolicy
<1> QED
  BY <1>1, <1>2, PolicyStarts, PTL DEF Spec, KeepsRecoveryPolicy, Policy!Spec

-----------------------------------------------------------------------------
(* The driver implements DriverContract: what its caller tells from the end
   of a run is so. *)

\* A step that sent a command is one that saw a task, and only a driver with a
\* token is cancelled.
CommandInv ==
  /\ step.kind = "Fired" => step.cmd
  /\ step.cmd => step.kind \in {"Fired", "FiredUnverified", "WatchFired"}
  /\ cancelled => Cancellable

LEMMA CommandInit == Init => CommandInv
<1> SUFFICES ASSUME Init PROVE CommandInv
  OBVIOUS
<1>1. step.kind = "NoMatch" /\ ~step.cmd
  BY RestingType DEF Init
<1>2. cancelled => Cancellable
  BY ConstantsAssumption, Zenon DEF Init
<1> QED  BY <1>1, <1>2 DEF CommandInv

LEMMA CommandNext == TypeInv /\ CommandInv /\ [Next]_vars => CommandInv'
<1> SUFFICES ASSUME TypeInv, CommandInv, [Next]_vars PROVE CommandInv'
  OBVIOUS
<1>1. CASE UNCHANGED <<step, cancelled>>
  BY <1>1 DEF CommandInv
<1>2. CASE Cancel
  BY <1>2 DEF Cancel, CommandInv, loopVars
<1>3. CASE HandleStep
  <2>1. UNCHANGED cancelled /\ (step' = Resting \/ UNCHANGED step)
    BY <1>3 DEF HandleStep, StepMatched, StepNoMatch, StepFiredUnverified, StepError,
         StepWatchFired, Dispatching, HookSucceeds, HookFails, HookReturns
  <2> QED  BY <2>1, RestingType DEF CommandInv
<1>4. CASE CaptureFails \/ TaskAbsent \/ DetectFails \/ ExecuteFails \/ VerifyCaptureFails
  <2>1. PICK kind \in StepKinds \ {"Fired"} : step' = Plain(kind)
    BY <1>4 DEF CaptureFails, TaskAbsent, DetectFails, ExecuteFails, VerifyCaptureFails,
         Captured, Verified, StepKinds
  <2>2. UNCHANGED cancelled
    BY <1>4 DEF CaptureFails, TaskAbsent, DetectFails, ExecuteFails, VerifyCaptureFails,
         Captured, Verified
  <2>3. step'.kind # "Fired" /\ step'.cmd = FALSE
    BY <2>1 DEF Plain, Step
  <2> QED  BY <2>2, <2>3 DEF CommandInv
<1>5. CASE WatchMatches
  <2>1. PICK i \in DOMAIN Watch :
          Captured(Step("WatchFired", Watch[i], None, Sends(Watch[i])),
                   IF Sends(Watch[i]) THEN "Execute" ELSE "Dispatch")
    BY <1>5 DEF WatchMatches
  <2>2. /\ UNCHANGED cancelled
        /\ step'.kind = "WatchFired" /\ step'.cmd = Sends(Watch[i])
    BY <2>1 DEF Captured, Step
  <2> QED  BY <2>2 DEF CommandInv, Sends
<1>6. CASE TaskMatches
  <2>1. /\ UNCHANGED cancelled
        /\ step'.kind = (IF Sends(current) THEN "Fired" ELSE "NoFire")
        /\ step'.cmd = Sends(current)
    BY <1>6 DEF TaskMatches, Captured, Step
  <2> QED  BY <2>1 DEF CommandInv, Sends
<1>7. CASE VerifyStillPresent
  <2>1. step' = [step EXCEPT !.kind = "FiredUnverified"] /\ UNCHANGED cancelled
    BY <1>7 DEF VerifyStillPresent, Verified
  <2>2. step \in Steps
    BY DEF TypeInv, TypeOK
  <2>3. step'.kind = "FiredUnverified" /\ step'.cmd = step.cmd
    BY <2>1, <2>2 DEF Steps
  <2> QED  BY <2>1, <2>3 DEF CommandInv
<1>8. CASE LoopInterrupted \/ LoopLimit \/ LoopBegin \/ Wake \/ Tick \/ ExecuteOk
            \/ VerifyGone \/ UNCHANGED vars
  <2>1. UNCHANGED <<step, cancelled>>
    BY <1>8 DEF LoopInterrupted, LoopLimit, LoopBegin, Wake, Tick, ExecuteOk, VerifyGone,
         Verified, vars, loopVars
  <2> QED  BY <1>1, <2>1
<1> QED
  BY <1>2, <1>3, <1>4, <1>5, <1>6, <1>7, <1>8 DEF Next, Loop, RunOnce

LEMMA ContractStarts == Init => Contract!Init
  BY DEF Init, Contract!Init, CallerPhase, CallerUsed, CallerFired, PolicyHealthy, NewGuard

LEMMA RunningTold ==
  /\ Running => CallerPhase = "Driving"
  /\ pc = "Recover" => CallerPhase = "Hook"
  /\ CallerFired \in BOOLEAN
  BY DEF Running, CallerPhase, CallerFired

\* What a run that ends tells.
LEMMA FinishTold ==
  ASSUME NEW r, NEW n, Finish(r, n)
  PROVE  /\ CallerPhase' = r
         /\ CallerUsed' = guard'.attempts
         /\ CallerFired' = (fired' # <<>>)
  BY DEF Finish, Outcome, CallerPhase, CallerUsed, CallerFired, PolicyHealthy

\* What one that goes on tells, once its step is handled.
LEMMA HandledTold ==
  ASSUME pc' \notin {"Dispatch", "Done"}
  PROVE  /\ CallerPhase' = IF pc' = "Recover" THEN "Hook" ELSE "Driving"
         /\ CallerUsed' = guard'.attempts
         /\ CallerFired' = (fired' # <<>>)
  BY DEF CallerPhase, CallerUsed, CallerFired, PolicyHealthy

\* A step that leaves the caller with what it knew.
SameTold(g) == CallerUsed = g.attempts /\ CallerFired = (fired' # <<>>)

LEMMA ContinueKeeps ==
  ASSUME Running \/ pc = "Recover", SameTold(guard'), Continue
  PROVE  Contract!Next
<1>1. /\ CallerPhase' = "Driving"
      /\ CallerUsed' = CallerUsed /\ CallerFired' = CallerFired
  BY HandledTold DEF Continue, SameTold
<1>2. CASE Running
  BY <1>1, <1>2, RunningTold DEF Contract!Round, Contract!Next
<1>3. CASE pc = "Recover"
  BY <1>1, <1>3, RunningTold DEF Contract!HookSucceeds, Contract!Next
<1> QED  BY <1>2, <1>3

LEMMA FinishKeeps ==
  ASSUME NEW r \in Contract!Reasons, NEW n, SameTold(guard'), Contract!MayEnd(r),
         Finish(r, n)
  PROVE  Contract!Next
<1>1. /\ CallerPhase' = r
      /\ CallerUsed' = CallerUsed /\ CallerFired' = CallerFired
  BY FinishTold DEF SameTold
<1> QED  BY <1>1 DEF Contract!End, Contract!Next

LEMMA RunRecoveryKeeps ==
  ASSUME Running, RecoveryEnabled, guard \in Guards, CallerUsed <= MaxAttempts,
         NEW g \in Guards, SameTold(g), RunRecovery(g)
  PROVE  Contract!Next
<1>1. CASE BudgetLeft(g)
  <2>1. guard' = ConsumeAttempt(g) /\ pc' = "Recover"
    BY <1>1 DEF RunRecovery
  <2>2. /\ CallerUsed < MaxAttempts /\ guard'.attempts = CallerUsed + 1
    BY <1>1, <2>1, CountsOfAttempt DEF BudgetLeft, SameTold
  <2>3. CallerPhase' = "Hook" /\ CallerUsed' = CallerUsed + 1 /\ CallerFired' = CallerFired
    BY <2>1, <2>2, HandledTold DEF SameTold
  <2> QED  BY <2>2, <2>3, RunningTold DEF Contract!Recover, Contract!Next
<1>2. CASE ~BudgetLeft(g)
  <2>1. guard' = g /\ Finish("RecoveryExhausted", iterations - 1)
    BY <1>2 DEF RunRecovery
  <2>2. CallerUsed = MaxAttempts
    BY <1>2, ConstantsAssumption DEF BudgetLeft, SameTold, Guards
  <2>3. "RecoveryExhausted" \in Contract!Reasons
    BY DEF Contract!Reasons
  <2>4. Contract!MayEnd("RecoveryExhausted")
    BY <2>2, RunningTold DEF Contract!MayEnd
  <2> QED  BY <2>1, <2>3, <2>4, FinishKeeps
<1> QED  BY <1>1, <1>2

LEMMA GoalStopKeeps ==
  ASSUME NEW m, Running, GoalActive, SameTold(guard'),
         Finish(GoalReason(GoalStatus(m)), iterations)
  PROVE  Contract!Next
<1> DEFINE r == GoalReason(GoalStatus(m))
<1>1. r \in {"GoalReached", "GoalTimeout"}
  BY DEF GoalReason
<1>2. r \in Contract!Reasons
  BY <1>1 DEF Contract!Reasons
<1>3. Contract!MayEnd(r)
  BY <1>1, RunningTold DEF Contract!MayEnd
<1>4. Finish(r, iterations)
  OBVIOUS
<1> HIDE DEF r
<1> QED  BY <1>2, <1>3, <1>4, FinishKeeps

LEMMA MatchKeepsContract ==
  ASSUME TypeInv, CommandInv, StepMatched \/ StepWatchFired
  PROVE  Contract!Next
<1>1. /\ pc = "Dispatch" /\ Running /\ PolicyHealthy
      /\ guard' = RecordMatch(guard) /\ fired' = FiredAfter
  BY DEF StepMatched, StepWatchFired, Dispatching, EvalGoalStop, PolicyHealthy, Running
<1>2. guard'.attempts = 0
  BY <1>1, CountsOfGuard DEF TypeInv, TypeOK
<1>3. CallerFired = (fired' # <<>>)
  <2>1. fired \in Seq(Tasks)
    BY DEF TypeInv, TypeOK
  <2>2. CASE step.cmd
    BY <1>1, <2>1, <2>2 DEF FiredAfter, CallerFired
  <2>3. CASE ~step.cmd
    BY <1>1, <2>3 DEF FiredAfter, CallerFired
  <2> QED  BY <2>2, <2>3
<1>4. SameTold(guard')
  BY <1>1, <1>2, <1>3 DEF SameTold, CallerUsed
<1>5. CASE Continue
  BY <1>1, <1>4, <1>5, ContinueKeeps
<1>6. CASE GoalActive /\ Finish(GoalReason(GoalStatus(lastMatch)), iterations)
  BY <1>1, <1>4, <1>6, GoalStopKeeps
<1>7. CASE StepMatched /\ Finish(IF step.kind = "Fired" THEN "TerminalTask" ELSE "Stop",
                                 iterations)
  <2> DEFINE r == IF step.kind = "Fired" THEN "TerminalTask" ELSE "Stop"
  <2>1. r \in Contract!Reasons
    BY DEF Contract!Reasons
  <2>2. r = "TerminalTask" => CallerFired
    BY <1>1 DEF CommandInv, CallerFired
  <2>3. Contract!MayEnd(r)
    BY <1>1, <2>2, RunningTold DEF Contract!MayEnd
  <2>4. Finish(r, iterations)
    BY <1>7
  <2> HIDE DEF r
  <2> QED  BY <1>4, <2>1, <2>3, <2>4, FinishKeeps
<1> QED
  BY <1>5, <1>6, <1>7 DEF StepMatched, StepWatchFired, EvalGoalStop

\* A miss and a command without effect were told of when they were seen.
LEMMA MissKeepsContract ==
  ASSUME TypeInv, BudgetInv, CommandInv, StepNoMatch \/ StepFiredUnverified
  PROVE  Contract!Next
<1> DEFINE due == RecoveryEnabled /\ MissIsDue(guard)
           g == IF RecoveryEnabled THEN RecordMiss(guard) ELSE guard
<1>0. guard \in Guards /\ now \in Nat /\ fired \in Seq(Tasks)
  BY DEF TypeInv, TypeOK
<1>1. /\ pc = "Dispatch" /\ Running /\ NoMatchBody
      /\ step.kind \in {"NoMatch", "FiredUnverified"}
  BY DEF StepNoMatch, StepFiredUnverified, Dispatching, Running
<1>2. CallerFired = (fired' # <<>>)
  <2>1. CASE StepFiredUnverified /\ step.cmd
    BY <1>0, <1>1, <2>1 DEF StepFiredUnverified, FiredAfter, CallerFired
  <2>2. CASE StepFiredUnverified /\ ~step.cmd
    BY <1>1, <2>2 DEF StepFiredUnverified, FiredAfter, CallerFired
  <2>3. CASE StepNoMatch
    BY <1>1, <2>3 DEF StepNoMatch, Dispatching, CommandInv, CallerFired
  <2> QED  BY <2>1, <2>2, <2>3
<1>3. CallerUsed = guard.attempts /\ CallerUsed <= MaxAttempts
  BY <1>0, <1>1, ConstantsAssumption
     DEF CallerUsed, PolicyHealthy, BudgetInv, GuardWithin, Guards
<1>4. g \in Guards /\ SameTold(g)
  BY <1>0, <1>2, <1>3, GuardOperations, CountsOfGuard DEF SameTold, SameCounts
<1> HIDE DEF g
<1>5. CASE GoalActive /\ GoalStatus(None) # "NotYet"
  <2>1. guard' = g /\ Finish(GoalReason(GoalStatus(None)), iterations)
    BY <1>1, <1>5 DEF NoMatchBody, EvalGoalStop, g
  <2> QED  BY <1>1, <1>4, <1>5, <2>1, GoalStopKeeps
<1>6. CASE ~(GoalActive /\ GoalStatus(None) # "NotYet")
  <2>1. IF due THEN RunRecovery(g) ELSE guard' = g /\ Continue
    BY <1>1, <1>6 DEF NoMatchBody, EvalGoalStop, g
  <2>2. CASE due
    BY <1>0, <1>1, <1>3, <1>4, <2>1, <2>2, RunRecoveryKeeps
  <2>3. CASE ~due
    BY <1>1, <1>4, <2>1, <2>3, ContinueKeeps
  <2> QED  BY <2>2, <2>3
<1> QED  BY <1>5, <1>6

LEMMA ErrorKeepsContract ==
  ASSUME TypeInv, BudgetInv, CommandInv, StepError
  PROVE  Contract!Next
<1>1. /\ pc = "Dispatch" /\ Running /\ fired' = fired
      /\ step.kind \in {"Capture", "VerifyCapture", "ExecuteError", "Other"}
  BY DEF StepError, Dispatching, Running
<1>2. guard \in Guards
  BY DEF TypeInv, TypeOK
<1>3. CallerFired = (fired' # <<>>)
  BY <1>1 DEF CommandInv, CallerFired
<1>4. CallerUsed = guard.attempts /\ CallerUsed <= MaxAttempts
  BY <1>1, <1>2, ConstantsAssumption
     DEF CallerUsed, PolicyHealthy, BudgetInv, GuardWithin, Guards
<1>5. SameTold(guard)
  BY <1>3, <1>4 DEF SameTold
<1>6. \/ guard' = guard /\ Finish("ExecuteError", iterations - 1)
      \/ guard' = guard /\ Continue
      \/ RecoveryEnabled /\ RunRecovery(guard)
      \/ ~RecoveryEnabled /\ guard' = guard /\ Finish("CaptureError", iterations - 1)
  BY DEF StepError
<1>7. CASE guard' = guard /\ Finish("ExecuteError", iterations - 1)
  <2>1. "ExecuteError" \in Contract!Reasons /\ Contract!MayEnd("ExecuteError")
    BY <1>1, RunningTold DEF Contract!Reasons, Contract!MayEnd
  <2> QED  BY <1>5, <1>7, <2>1, FinishKeeps
<1>8. CASE guard' = guard /\ Continue
  BY <1>1, <1>5, <1>8, ContinueKeeps
<1>9. CASE RecoveryEnabled /\ RunRecovery(guard)
  BY <1>1, <1>2, <1>4, <1>5, <1>9, RunRecoveryKeeps
<1>10. CASE ~RecoveryEnabled /\ guard' = guard /\ Finish("CaptureError", iterations - 1)
  <2>1. "CaptureError" \in Contract!Reasons /\ Contract!MayEnd("CaptureError")
    BY <1>1, <1>10, RunningTold DEF Contract!Reasons, Contract!MayEnd
  <2> QED  BY <1>5, <1>10, <2>1, FinishKeeps
<1> QED  BY <1>6, <1>7, <1>8, <1>9, <1>10

LEMMA HookKeepsContract ==
  ASSUME TypeInv, CommandInv, HookSucceeds \/ HookFails
  PROVE  Contract!Next
<1>1. pc = "Recover" /\ fired' = fired
  BY DEF HookSucceeds, HookFails, HookReturns
<1>2. guard'.attempts = guard.attempts
  BY CountsOfGuard DEF HookSucceeds, HookFails, SameCounts, TypeInv, TypeOK
<1>3. SameTold(guard')
  BY <1>1, <1>2 DEF SameTold, CallerUsed, CallerFired, PolicyHealthy
<1>4. CASE HookSucceeds
  BY <1>1, <1>3, <1>4, ContinueKeeps DEF HookSucceeds
<1>5. CASE HookFails
  <2>1. "ExecuteError" \in Contract!Reasons /\ Contract!MayEnd("ExecuteError")
    BY <1>1, RunningTold DEF Contract!Reasons, Contract!MayEnd
  <2>2. Finish("ExecuteError", iterations - 1)
    BY <1>5 DEF HookFails
  <2> QED  BY <1>3, <2>1, <2>2, FinishKeeps
<1> QED  BY <1>4, <1>5

LEMMA TopKeepsContract ==
  ASSUME CommandInv, LoopInterrupted \/ LoopLimit
  PROVE  Contract!Next
<1>1. /\ pc = "Top" /\ Running /\ fired' = fired /\ guard' = guard
  BY DEF LoopInterrupted, LoopLimit, loopVars, Running
<1>2. SameTold(guard')
  BY <1>1 DEF SameTold, CallerUsed, CallerFired, PolicyHealthy
<1>3. CASE LoopInterrupted
  <2>1. "Interrupted" \in Contract!Reasons /\ Contract!MayEnd("Interrupted")
    BY <1>1, <1>3, RunningTold DEF LoopInterrupted, CommandInv, Contract!Reasons, Contract!MayEnd
  <2>2. Finish("Interrupted", iterations)
    BY <1>3 DEF LoopInterrupted
  <2> QED  BY <1>2, <2>1, <2>2, FinishKeeps
<1>4. CASE LoopLimit
  <2>1. "MaxIterations" \in Contract!Reasons /\ Contract!MayEnd("MaxIterations")
    BY <1>1, RunningTold DEF Contract!Reasons, Contract!MayEnd
  <2>2. Finish("MaxIterations", iterations)
    BY <1>4 DEF LoopLimit
  <2> QED  BY <1>2, <2>1, <2>2, FinishKeeps
<1> QED  BY <1>3, <1>4

\* Capture, detection, the command and the look at its effect are a round, at
\* whose end the caller may know of a match and a command.
LEMMA RunOnceKeepsContract ==
  ASSUME LoopBegin \/ RunOnce \/ Wake
  PROVE  Contract!Next
<1>1. /\ Running /\ Running' /\ guard' = guard /\ fired' = fired /\ pc # "Dispatch"
  BY DEF LoopBegin, Wake, RunOnce, CaptureFails, WatchMatches, TaskAbsent,
         DetectFails, TaskMatches, Captured, ExecuteOk, ExecuteFails, VerifyCaptureFails,
         VerifyStillPresent, VerifyGone, Verified, loopVars, Running
<1>2. CallerPhase = "Driving" /\ CallerPhase' = "Driving"
  BY <1>1 DEF Running, CallerPhase
<1>3. CallerUsed' \in {0, CallerUsed}
  BY <1>1 DEF CallerUsed, PolicyHealthy
<1>4. CallerFired => CallerFired'
  BY <1>1 DEF Running, CallerFired
<1>5. CallerFired \in BOOLEAN /\ CallerFired' \in BOOLEAN
  BY DEF CallerFired
<1>6. CallerFired' \in {CallerFired, TRUE}
  BY <1>4, <1>5
<1> QED  BY <1>2, <1>3, <1>6 DEF Contract!Round, Contract!Next

LEMMA NextKeepsContract ==
  TypeInv /\ BudgetInv /\ CommandInv /\ [Next]_vars => [Contract!Next]_(Contract!vars)
<1> SUFFICES ASSUME TypeInv, BudgetInv, CommandInv, [Next]_vars
             PROVE  [Contract!Next]_(Contract!vars)
  OBVIOUS
<1>1. CASE Cancel \/ Tick \/ UNCHANGED vars
  <2>1. UNCHANGED <<pc, step, guard, fired, outcome>>
    BY <1>1 DEF Cancel, Tick, vars, loopVars
  <2> QED
    BY <2>1 DEF Contract!vars, CallerPhase, CallerUsed, CallerFired, PolicyHealthy
<1> QED
  BY <1>1, TopKeepsContract, RunOnceKeepsContract, MatchKeepsContract, MissKeepsContract,
     ErrorKeepsContract, HookKeepsContract DEF Next, Loop, HandleStep

\* README and US-CLI-21: the reason and the commands a run ends with.  The driver
\* keeps the contract its callers, the routine among them, are written against.
THEOREM ContractCorrect == Spec => KeepsDriverContract
<1>1. Spec => [](TypeInv /\ BudgetInv /\ CommandInv)
  BY InitTypeInv, NextTypeInv, InitBudget, NextBudget, CommandInit, CommandNext, PTL DEF Spec
<1>2. TypeInv /\ BudgetInv /\ CommandInv /\ [Next]_vars => [Contract!Next]_(Contract!vars)
  BY NextKeepsContract
<1> QED
  BY <1>1, <1>2, ContractStarts, PTL DEF Spec, KeepsDriverContract, Contract!Spec

-----------------------------------------------------------------------------
(* The log *)

\* The operators below read a log they are given, so that the two entries of a
\* step that starts the hook can be told one after the other.
Entries ==
  [ev : {"sent", "unseen", "match", "watch", "miss", "error", "hook", "restart"},
   task : Tasks \cup {None}, at : Nat]

Healthy == {"match", "watch"}

Outage(l, i) == {j \in 1..i : ~\E h \in DOMAIN l : l[h].ev \in Healthy /\ j <= h /\ h <= i}

Restarts(l, i) == {j \in Outage(l, i) : l[j].ev = "restart"}

Starting(l, i) == \E j \in Restarts(l, i) : j < i /\ l[i].at - l[j].at < Grace

Missed(l, i) ==
  {j \in Outage(l, i) : l[j].ev = "miss" /\ ~Starting(l, j) /\ \A r \in Restarts(l, i) : r < j}

Hooks(l, i) == {j \in Outage(l, i) : l[j].ev = "hook"}

AllHooks(l) == {j \in DOMAIN l : l[j].ev = "hook"}

-----------------------------------------------------------------------------
(* An entry is added *)

LEMMA Appending ==
  ASSUME NEW l \in Seq(Entries), NEW e \in Entries, NEW n \in Nat, n = Len(l)
  PROVE  /\ Append(l, e) \in Seq(Entries) /\ Len(Append(l, e)) = n + 1
         /\ DOMAIN l = 1..n /\ DOMAIN Append(l, e) = 1..(n + 1)
         /\ \A i \in 1..n : Append(l, e)[i] = l[i]
         /\ Append(l, e)[n + 1] = e
  OBVIOUS

\* What was told before the entry is told after it.
LEMMA PrefixKept ==
  ASSUME NEW l \in Seq(Entries), NEW e \in Entries, NEW n \in Nat, n = Len(l),
         NEW i \in 1..n
  PROVE  /\ Outage(Append(l, e), i) = Outage(l, i)
         /\ Restarts(Append(l, e), i) = Restarts(l, i)
         /\ Starting(Append(l, e), i) <=> Starting(l, i)
         /\ Missed(Append(l, e), i) = Missed(l, i)
         /\ Hooks(Append(l, e), i) = Hooks(l, i)
<1> DEFINE m == Append(l, e)
<1>1. /\ DOMAIN l = 1..n /\ DOMAIN m = 1..(n + 1)
      /\ \A k \in 1..n : m[k] = l[k]
  BY Appending
<1> HIDE DEF m
<1>2. \A k \in 1..n : k \in 1..(n + 1) /\ k <= n
  OBVIOUS
<1>3. \A h \in 1..(n + 1), k \in 1..n : h <= k => h \in 1..n
  OBVIOUS
<1>4. \A k \in 1..n : Outage(m, k) = Outage(l, k)
  BY <1>1, <1>2, <1>3 DEF Outage
<1>5. \A k \in 1..n : \A j \in Outage(l, k) : j \in 1..n /\ j <= k
  BY DEF Outage
<1>6. \A k \in 1..n : Restarts(m, k) = Restarts(l, k) /\ Hooks(m, k) = Hooks(l, k)
  BY <1>1, <1>4, <1>5 DEF Restarts, Hooks
<1>7. \A k \in 1..n : \A j \in Restarts(l, k) : j \in 1..n
  BY <1>5 DEF Restarts
<1>8. \A k \in 1..n : Starting(m, k) <=> Starting(l, k)
  BY <1>1, <1>6, <1>7 DEF Starting
<1>9. \A k \in 1..n : Missed(m, k) = Missed(l, k)
  BY <1>1, <1>4, <1>5, <1>6, <1>8 DEF Missed
<1> QED  BY <1>4, <1>6, <1>8, <1>9 DEF m

\* The outage at the new entry: over, or the one before and the entry.
LEMMA OutageGrows ==
  ASSUME NEW l \in Seq(Entries), NEW e \in Entries, NEW n \in Nat, n = Len(l)
  PROVE  /\ e.ev \in Healthy => Outage(Append(l, e), n + 1) = {}
         /\ e.ev \notin Healthy => Outage(Append(l, e), n + 1) = Outage(l, n) \cup {n + 1}
         /\ Outage(l, n) \subseteq 1..n
<1> DEFINE m == Append(l, e)
<1>1. /\ DOMAIN l = 1..n /\ DOMAIN m = 1..(n + 1)
      /\ (\A k \in 1..n : m[k] = l[k]) /\ m[n + 1] = e
  BY Appending
<1> HIDE DEF m
<1>2. CASE e.ev \in Healthy
  BY <1>1, <1>2 DEF Outage, m
<1>3. CASE e.ev \notin Healthy
  <2>1. \A j \in 1..n : j \in Outage(m, n + 1) <=> j \in Outage(l, n)
    BY <1>1, <1>3 DEF Outage
  <2>2. n + 1 \in Outage(m, n + 1)
    BY <1>1, <1>3 DEF Outage
  <2>3. \A j \in Outage(m, n + 1) : j \in 1..n \/ j = n + 1
    BY DEF Outage
  <2>4. \A j \in Outage(l, n) : j \in 1..n
    BY DEF Outage
  <2> QED  BY <1>3, <2>1, <2>2, <2>3, <2>4 DEF m
<1>4. Outage(l, n) \subseteq 1..n
  BY DEF Outage
<1> QED  BY <1>2, <1>3, <1>4

\* Positions of a log of n entries: the next entry is none of them.
Within(S, n) == IsFiniteSet(S) /\ S \subseteq 1..n /\ n + 1 \notin S

\* What the outage is made of are positions of the log.
LEMMA WithinLog ==
  ASSUME NEW l \in Seq(Entries), NEW n \in Nat, n = Len(l)
  PROVE  /\ Within(Restarts(l, n), n) /\ Within(Missed(l, n), n)
         /\ Within(Hooks(l, n), n) /\ Within(AllHooks(l), n)
<1>1. ASSUME NEW S, S \subseteq 1..n
      PROVE  Within(S, n)
  <2>1. IsFiniteSet(1..n)
    BY FS_Interval
  <2>2. IsFiniteSet(S)
    BY <1>1, <2>1, FS_Subset
  <2> QED  BY <1>1, <2>2 DEF Within
<1>2. Outage(l, n) \subseteq 1..n
  BY DEF Outage
<1>3. /\ Restarts(l, n) \subseteq Outage(l, n)
      /\ Missed(l, n) \subseteq Outage(l, n)
      /\ Hooks(l, n) \subseteq Outage(l, n)
  BY DEF Restarts, Missed, Hooks
<1>4. AllHooks(l) \subseteq 1..n
  BY DEF AllHooks
<1>5. /\ Restarts(l, n) \subseteq 1..n /\ Missed(l, n) \subseteq 1..n
      /\ Hooks(l, n) \subseteq 1..n
  BY <1>2, <1>3
<1> QED  BY <1>1, <1>4, <1>5

\* What an entry adds to what the outage is made of.
LEMMA Counting ==
  ASSUME NEW l \in Seq(Entries), NEW e \in Entries, NEW n \in Nat, n = Len(l)
  PROVE  LET m == Append(l, e) IN
         /\ e.ev \in Healthy => /\ Restarts(m, n + 1) = {} /\ Missed(m, n + 1) = {}
                                /\ Hooks(m, n + 1) = {}
         /\ e.ev = "restart" => /\ Restarts(m, n + 1) = Restarts(l, n) \cup {n + 1}
                                /\ Missed(m, n + 1) = {}
         /\ e.ev \notin Healthy \cup {"restart"} => Restarts(m, n + 1) = Restarts(l, n)
         /\ e.ev = "miss" =>
              Missed(m, n + 1) = IF Starting(m, n + 1) THEN Missed(l, n)
                                 ELSE Missed(l, n) \cup {n + 1}
         /\ e.ev \notin Healthy \cup {"restart", "miss"} => Missed(m, n + 1) = Missed(l, n)
         /\ e.ev = "hook" => Hooks(m, n + 1) = Hooks(l, n) \cup {n + 1}
         /\ e.ev \notin Healthy \cup {"hook"} => Hooks(m, n + 1) = Hooks(l, n)
         /\ AllHooks(m) = IF e.ev = "hook" THEN AllHooks(l) \cup {n + 1} ELSE AllHooks(l)
<1> DEFINE m == Append(l, e)
<1>1. /\ DOMAIN l = 1..n /\ DOMAIN m = 1..(n + 1)
      /\ (\A k \in 1..n : m[k] = l[k]) /\ m[n + 1] = e
  BY Appending
<1>2. /\ e.ev \in Healthy => Outage(m, n + 1) = {}
      /\ e.ev \notin Healthy => Outage(m, n + 1) = Outage(l, n) \cup {n + 1}
      /\ Outage(l, n) \subseteq 1..n
  BY OutageGrows
<1>3. \A k \in 1..n : Starting(m, k) <=> Starting(l, k)
  BY PrefixKept
<1> HIDE DEF m
<1>4. \A j \in 1..n : j # n + 1 /\ j < n + 1
  OBVIOUS
<1>5. ASSUME e.ev \in Healthy
      PROVE  Restarts(m, n + 1) = {} /\ Missed(m, n + 1) = {} /\ Hooks(m, n + 1) = {}
  BY <1>2, <1>5 DEF Restarts, Missed, Hooks
<1>6. ASSUME e.ev \notin Healthy
      PROVE  /\ Restarts(m, n + 1) = IF e.ev = "restart" THEN Restarts(l, n) \cup {n + 1}
                                     ELSE Restarts(l, n)
             /\ Hooks(m, n + 1) = IF e.ev = "hook" THEN Hooks(l, n) \cup {n + 1} ELSE Hooks(l, n)
             /\ Missed(m, n + 1) = IF e.ev = "restart" THEN {}
                                   ELSE IF e.ev = "miss" /\ ~Starting(m, n + 1)
                                   THEN Missed(l, n) \cup {n + 1} ELSE Missed(l, n)
  <2>1. Restarts(m, n + 1) = IF e.ev = "restart" THEN Restarts(l, n) \cup {n + 1} ELSE Restarts(l, n)
    BY <1>1, <1>2, <1>6 DEF Restarts
  <2>2. Hooks(m, n + 1) = IF e.ev = "hook" THEN Hooks(l, n) \cup {n + 1} ELSE Hooks(l, n)
    BY <1>1, <1>2, <1>6 DEF Hooks
  <2>3. ASSUME e.ev = "restart" PROVE Missed(m, n + 1) = {}
    <3>1. n + 1 \in Restarts(m, n + 1)
      BY <2>1, <2>3
    <3>2. \A j \in Outage(m, n + 1) : ~(n + 1 < j)
      BY <1>2, <1>6
    <3> QED  BY <3>1, <3>2 DEF Missed
  <2>4. ASSUME e.ev # "restart"
        PROVE  Missed(m, n + 1) = IF e.ev = "miss" /\ ~Starting(m, n + 1)
                                  THEN Missed(l, n) \cup {n + 1} ELSE Missed(l, n)
    <3>1. \A j \in 1..n : j \in Missed(m, n + 1) <=> j \in Missed(l, n)
      BY <1>1, <1>2, <1>3, <1>4, <1>6, <2>1, <2>4 DEF Missed
    <3>2. \A r \in Restarts(m, n + 1) : r < n + 1
      BY <1>2, <2>1, <2>4 DEF Restarts
    <3>3. n + 1 \in Missed(m, n + 1) <=> e.ev = "miss" /\ ~Starting(m, n + 1)
      BY <1>1, <1>2, <1>6, <3>2 DEF Missed
    <3>4. /\ \A j \in Missed(m, n + 1) : j \in 1..n \/ j = n + 1
          /\ \A j \in Missed(l, n) : j \in 1..n
      BY <1>2, <1>6 DEF Missed
    <3>5. CASE e.ev = "miss" /\ ~Starting(m, n + 1)
      <4>1. \A j : j \in Missed(m, n + 1) <=> j \in Missed(l, n) \/ j = n + 1
        BY <3>1, <3>3, <3>4, <3>5
      <4> QED  BY <3>5, <4>1
    <3>6. CASE ~(e.ev = "miss" /\ ~Starting(m, n + 1))
      <4>1. \A j : j \in Missed(m, n + 1) <=> j \in Missed(l, n)
        BY <3>1, <3>3, <3>4, <3>6
      <4> QED  BY <3>6, <4>1
    <3> QED  BY <3>5, <3>6
  <2> QED  BY <2>1, <2>2, <2>3, <2>4
<1>7. AllHooks(m) = IF e.ev = "hook" THEN AllHooks(l) \cup {n + 1} ELSE AllHooks(l)
  BY <1>1 DEF AllHooks
<1>8. "restart" \notin Healthy /\ "miss" \notin Healthy /\ "hook" \notin Healthy
  BY DEF Healthy
<1> QED  BY <1>5, <1>6, <1>7, <1>8 DEF m

-----------------------------------------------------------------------------
(* What the guard remembers of a log *)

Remembers(g, l) ==
  LET n == Len(l) IN
  /\ \A j \in Restarts(l, n) : g.recoveredAt # None /\ l[j].at <= g.recoveredAt
  /\ g.recoveredAt # None => \E j \in Restarts(l, n) : l[j].at = g.recoveredAt
  /\ RecoveryEnabled => g.streak = Cardinality(Missed(l, n))
  /\ g.total = Cardinality(AllHooks(l))
  /\ g.attempts = Cardinality(Hooks(l, n))
  /\ \A i \in DOMAIN l : Cardinality(Hooks(l, i)) <= g.maxConsecutive
  /\ \/ g.maxConsecutive = 0
     \/ \E i \in DOMAIN l : Cardinality(Hooks(l, i)) = g.maxConsecutive

\* The game is starting when the guard says so.
LEMMA StartingIsGrace ==
  ASSUME NEW l \in Seq(Entries), NEW e \in Entries, NEW n \in Nat, n = Len(l),
         e.ev \notin Healthy \cup {"restart"}, e.at = now, now \in Nat,
         NEW g \in Guards, Remembers(g, l)
  PROVE  Starting(Append(l, e), n + 1) <=> InGrace(g)
<1> DEFINE m == Append(l, e)
<1>1. Restarts(m, n + 1) = Restarts(l, n) /\ Restarts(l, n) \subseteq 1..n
  BY Counting, WithinLog DEF Within
<1>2. (\A k \in 1..n : m[k] = l[k]) /\ m[n + 1] = e
  BY Appending
<1>3. \A k \in 1..n : k < n + 1 /\ l[k].at \in Nat
  <2>1. \A k \in 1..n : l[k] \in Entries
    OBVIOUS
  <2> QED  BY <2>1 DEF Entries
<1> HIDE DEF m
<1>4. Starting(m, n + 1) <=> \E j \in Restarts(l, n) : now - l[j].at < Grace
  BY <1>1, <1>2, <1>3 DEF Starting
<1>5. g.recoveredAt \in Nat \cup {None}
  BY DEF Guards
<1>6. ASSUME NEW j \in Restarts(l, n), now - l[j].at < Grace PROVE InGrace(g)
  <2>1. g.recoveredAt \in Nat /\ l[j].at <= g.recoveredAt /\ l[j].at \in Nat
    BY <1>1, <1>3, <1>5 DEF Remembers
  <2> QED  BY <1>6, <2>1, ConstantsAssumption DEF InGrace
<1>7. ASSUME InGrace(g) PROVE \E j \in Restarts(l, n) : now - l[j].at < Grace
  BY <1>7 DEF InGrace, Remembers
<1> QED  BY <1>4, <1>6, <1>7 DEF m

\* The series of hooks at every entry, when one is added.
LEMMA SeriesKept ==
  ASSUME NEW l \in Seq(Entries), NEW e \in Entries, NEW n \in Nat, n = Len(l),
         NEW g \in Guards, Remembers(g, l), NEW x \in Nat, g.maxConsecutive <= x,
         Cardinality(Hooks(Append(l, e), n + 1)) <= x,
         x = g.maxConsecutive \/ x = Cardinality(Hooks(Append(l, e), n + 1))
  PROVE  LET m == Append(l, e) IN
         /\ \A i \in DOMAIN m : Cardinality(Hooks(m, i)) <= x
         /\ x = 0 \/ \E i \in DOMAIN m : Cardinality(Hooks(m, i)) = x
<1> DEFINE m == Append(l, e)
<1>1. DOMAIN l = 1..n /\ DOMAIN m = 1..(n + 1)
  BY Appending
<1>2. \A i \in 1..n : Hooks(m, i) = Hooks(l, i)
  BY PrefixKept
<1>3. \A i \in 1..n : IsFiniteSet(Hooks(l, i)) /\ Cardinality(Hooks(l, i)) \in Nat
  <2>1. \A i \in 1..n : Hooks(l, i) \subseteq 1..i /\ IsFiniteSet(1..i)
    BY FS_Interval DEF Hooks, Outage
  <2> QED  BY <2>1, FS_Subset, FS_CardinalityType
<1>4. g.maxConsecutive \in Nat
  BY DEF Guards
<1>5. /\ \A i \in 1..n : Cardinality(Hooks(l, i)) <= g.maxConsecutive
      /\ g.maxConsecutive = 0 \/ \E i \in 1..n : Cardinality(Hooks(l, i)) = g.maxConsecutive
  BY <1>1 DEF Remembers
<1> HIDE DEF m
<1>6. \A i \in 1..(n + 1) : i \in 1..n \/ i = n + 1
  OBVIOUS
<1>7. \A i \in DOMAIN m : Cardinality(Hooks(m, i)) <= x
  <2>1. ASSUME NEW i \in 1..n PROVE Cardinality(Hooks(m, i)) <= x
    BY <1>2, <1>3, <1>4, <1>5
  <2> QED  BY <1>1, <1>6, <2>1 DEF m
<1>8. x = 0 \/ \E i \in DOMAIN m : Cardinality(Hooks(m, i)) = x
  <2>1. CASE x = g.maxConsecutive
    <3>1. \A i \in 1..n : i \in 1..(n + 1)
      OBVIOUS
    <3> QED  BY <1>1, <1>2, <1>5, <2>1, <3>1
  <2>2. CASE x = Cardinality(Hooks(m, n + 1))
    BY <1>1, <2>2
  <2> QED  BY <2>1, <2>2 DEF m
<1> QED  BY <1>7, <1>8 DEF m
LEMMA LastSeries ==
  ASSUME NEW l \in Seq(Entries), NEW g \in Guards, Remembers(g, l),
         NEW n \in Nat, n = Len(l)
  PROVE  Cardinality(Hooks(l, n)) <= g.maxConsecutive
<1>1. CASE n = 0
  <2>1. Hooks(l, n) = {}
    BY <1>1 DEF Hooks, Outage
  <2> QED  BY <2>1, FS_EmptySet DEF Guards
<1>2. CASE n # 0
  <2>1. n \in DOMAIN l
    BY <1>2
  <2> QED  BY <2>1 DEF Remembers
<1> QED  BY <1>1, <1>2

\* A step that tells of neither a match, a miss, a hook nor a restart.
LEMMA RemembersOther ==
  ASSUME NEW l \in Seq(Entries), NEW e \in Entries, NEW g \in Guards, Remembers(g, l),
         e.ev \notin Healthy \cup {"restart", "miss", "hook"}
  PROVE  Remembers(g, Append(l, e))
<1> DEFINE m == Append(l, e)
<1>0. PICK n \in Nat : n = Len(l)
  OBVIOUS
<1>1. /\ Len(m) = n + 1 /\ DOMAIN l = 1..n
      /\ \A k \in 1..n : m[k] = l[k]
  BY <1>0, Appending
<1>2. /\ Restarts(m, n + 1) = Restarts(l, n) /\ Missed(m, n + 1) = Missed(l, n)
      /\ Hooks(m, n + 1) = Hooks(l, n) /\ AllHooks(m) = AllHooks(l)
      /\ Restarts(l, n) \subseteq 1..n
  BY <1>0, Counting, WithinLog DEF Within
<1>3. /\ g.attempts = Cardinality(Hooks(l, n)) /\ g.attempts \in Nat /\ g.maxConsecutive \in Nat
  BY <1>0 DEF Remembers, Guards
<1>4. Cardinality(Hooks(l, n)) <= g.maxConsecutive
  BY <1>0, LastSeries
<1>5. /\ \A i \in DOMAIN m : Cardinality(Hooks(m, i)) <= g.maxConsecutive
      /\ g.maxConsecutive = 0 \/ \E i \in DOMAIN m : Cardinality(Hooks(m, i)) = g.maxConsecutive
  BY <1>0, <1>2, <1>3, <1>4, SeriesKept
<1> HIDE DEF m
<1> QED  BY <1>0, <1>1, <1>2, <1>5 DEF Remembers, m

\* A miss during the grace is a miss while the game starts.
LEMMA RemembersMiss ==
  ASSUME NEW l \in Seq(Entries), NEW e \in Entries, NEW g \in Guards, Remembers(g, l),
         e.ev = "miss", e.at = now, now \in Nat
  PROVE  /\ Remembers(IF RecoveryEnabled THEN RecordMiss(g) ELSE g, Append(l, e))
         /\ RecoveryEnabled => Cardinality(Missed(Append(l, e), Len(l) + 1)) = RecordMiss(g).streak
<1> DEFINE m == Append(l, e)
           h == IF RecoveryEnabled THEN RecordMiss(g) ELSE g
<1>0. PICK n \in Nat : n = Len(l)
  OBVIOUS
<1>1. /\ Len(m) = n + 1 /\ DOMAIN l = 1..n
      /\ \A k \in 1..n : m[k] = l[k]
  BY <1>0, Appending
<1>2. /\ Restarts(m, n + 1) = Restarts(l, n)
      /\ Hooks(m, n + 1) = Hooks(l, n) /\ AllHooks(m) = AllHooks(l)
      /\ Missed(m, n + 1) = IF Starting(m, n + 1) THEN Missed(l, n)
                            ELSE Missed(l, n) \cup {n + 1}
      /\ Restarts(l, n) \subseteq 1..n
      /\ IsFiniteSet(Missed(l, n)) /\ n + 1 \notin Missed(l, n)
  BY <1>0, Counting, WithinLog DEF Healthy, Within
<1>3. Starting(m, n + 1) <=> InGrace(g)
  BY <1>0, StartingIsGrace DEF Healthy
<1>4. /\ g.attempts = Cardinality(Hooks(l, n)) /\ g.attempts \in Nat /\ g.maxConsecutive \in Nat
  BY <1>0 DEF Remembers, Guards
<1>5. Cardinality(Hooks(l, n)) <= g.maxConsecutive
  BY <1>0, LastSeries
<1>6. /\ \A i \in DOMAIN m : Cardinality(Hooks(m, i)) <= g.maxConsecutive
      /\ g.maxConsecutive = 0 \/ \E i \in DOMAIN m : Cardinality(Hooks(m, i)) = g.maxConsecutive
  BY <1>0, <1>2, <1>4, <1>5, SeriesKept
<1>7. Cardinality(Missed(m, n + 1)) = Cardinality(Missed(l, n)) + (IF InGrace(g) THEN 0 ELSE 1)
  <2>1. Cardinality(Missed(l, n) \cup {n + 1}) = Cardinality(Missed(l, n)) + 1
        /\ Cardinality(Missed(l, n)) \in Nat
    BY <1>2, FS_AddElement, FS_CardinalityType
  <2> QED  BY <1>2, <1>3, <2>1
<1>8. /\ h.recoveredAt = g.recoveredAt /\ h.total = g.total /\ h.attempts = g.attempts
      /\ h.maxConsecutive = g.maxConsecutive
      /\ RecordMiss(g).streak = IF InGrace(g) THEN g.streak ELSE g.streak + 1
  BY DEF RecordMiss, Guards
<1>9. RecoveryEnabled => Cardinality(Missed(m, n + 1)) = RecordMiss(g).streak
  <2>1. RecoveryEnabled => g.streak = Cardinality(Missed(l, n))
    BY <1>0 DEF Remembers
  <2>2. g.streak \in Nat
    BY DEF Guards
  <2> QED  BY <1>7, <1>8, <2>1, <2>2
<1>10. RecoveryEnabled => h.streak = Cardinality(Missed(m, n + 1))
  BY <1>9
<1> HIDE DEF m, h
<1>11. Remembers(h, m)
  BY <1>0, <1>1, <1>2, <1>6, <1>8, <1>10 DEF Remembers
<1> QED  BY <1>0, <1>9, <1>11 DEF m, h

\* A match ends the outage, and the guard starts afresh.
LEMMA RemembersMatch ==
  ASSUME NEW l \in Seq(Entries), NEW e \in Entries, NEW g \in Guards, Remembers(g, l),
         e.ev \in Healthy
  PROVE  Remembers(RecordMatch(g), Append(l, e))
<1> DEFINE m == Append(l, e)
           h == RecordMatch(g)
<1>0. PICK n \in Nat : n = Len(l)
  OBVIOUS
<1>1. Len(m) = n + 1
  BY <1>0, Appending
<1>2. /\ Restarts(m, n + 1) = {} /\ Missed(m, n + 1) = {} /\ Hooks(m, n + 1) = {}
      /\ AllHooks(m) = AllHooks(l)
  BY <1>0, Counting DEF Healthy
<1>3. Cardinality(Hooks(m, n + 1)) = 0 /\ Cardinality(Missed(m, n + 1)) = 0
  BY <1>2, FS_EmptySet
<1>4. g.maxConsecutive \in Nat
  BY DEF Guards
<1>5. /\ \A i \in DOMAIN m : Cardinality(Hooks(m, i)) <= g.maxConsecutive
      /\ g.maxConsecutive = 0 \/ \E i \in DOMAIN m : Cardinality(Hooks(m, i)) = g.maxConsecutive
  BY <1>0, <1>3, <1>4, SeriesKept
<1>6. /\ h.recoveredAt = None /\ h.total = g.total /\ h.attempts = 0 /\ h.streak = 0
      /\ h.maxConsecutive = g.maxConsecutive
  BY DEF RecordMatch, Guards
<1>7. g.total = Cardinality(AllHooks(l))
  BY DEF Remembers
<1> HIDE DEF m, h
<1>8. Remembers(h, m)
  BY <1>1, <1>2, <1>3, <1>5, <1>6, <1>7 DEF Remembers
<1> QED  BY <1>8 DEF m, h

\* An attempt is taken for every hook.
LEMMA RemembersHook ==
  ASSUME NEW l \in Seq(Entries), NEW e \in Entries, NEW g \in Guards, Remembers(g, l),
         e.ev = "hook"
  PROVE  Remembers(ConsumeAttempt(g), Append(l, e))
<1> DEFINE m == Append(l, e)
           h == ConsumeAttempt(g)
           x == Larger(g.maxConsecutive, g.attempts + 1)
<1>0. PICK n \in Nat : n = Len(l)
  OBVIOUS
<1>1. /\ Len(m) = n + 1 /\ DOMAIN l = 1..n
      /\ \A k \in 1..n : m[k] = l[k]
  BY <1>0, Appending
<1>2. /\ Restarts(m, n + 1) = Restarts(l, n) /\ Missed(m, n + 1) = Missed(l, n)
      /\ Hooks(m, n + 1) = Hooks(l, n) \cup {n + 1} /\ AllHooks(m) = AllHooks(l) \cup {n + 1}
      /\ Restarts(l, n) \subseteq 1..n
      /\ IsFiniteSet(Hooks(l, n)) /\ n + 1 \notin Hooks(l, n)
      /\ IsFiniteSet(AllHooks(l)) /\ n + 1 \notin AllHooks(l)
  <2>1. e.ev \notin Healthy /\ e.ev # "restart" /\ e.ev # "miss"
    BY DEF Healthy
  <2>2. /\ Restarts(m, n + 1) = Restarts(l, n) /\ Missed(m, n + 1) = Missed(l, n)
        /\ Hooks(m, n + 1) = Hooks(l, n) \cup {n + 1} /\ AllHooks(m) = AllHooks(l) \cup {n + 1}
    BY <1>0, <2>1, Counting
  <2>3. /\ Within(Restarts(l, n), n)
        /\ Within(Hooks(l, n), n) /\ Within(AllHooks(l), n)
    BY <1>0, WithinLog
  <2> QED  BY <2>2, <2>3 DEF Within
<1>3. /\ g.attempts = Cardinality(Hooks(l, n)) /\ g.total = Cardinality(AllHooks(l))
      /\ g.attempts \in Nat /\ g.maxConsecutive \in Nat /\ g.total \in Nat
  BY <1>0 DEF Remembers, Guards
<1>4. /\ Cardinality(Hooks(m, n + 1)) = g.attempts + 1
      /\ Cardinality(AllHooks(m)) = g.total + 1
  BY <1>2, <1>3, FS_AddElement
<1>5. x \in Nat /\ g.maxConsecutive <= x /\ g.attempts + 1 <= x
      /\ (x = g.maxConsecutive \/ x = g.attempts + 1)
  BY <1>3 DEF Larger
<1> HIDE DEF x
<1>6. /\ \A i \in DOMAIN m : Cardinality(Hooks(m, i)) <= x
      /\ x = 0 \/ \E i \in DOMAIN m : Cardinality(Hooks(m, i)) = x
  BY <1>0, <1>4, <1>5, SeriesKept
<1>7. h.recoveredAt = g.recoveredAt /\ h.streak = g.streak
  BY DEF ConsumeAttempt, Guards
<1>8. h.total = g.total + 1
  BY DEF ConsumeAttempt, Guards
<1>9. h.attempts = g.attempts + 1
  BY DEF ConsumeAttempt, Guards
<1>10. h.maxConsecutive = x
  BY DEF ConsumeAttempt, Guards, x
<1> HIDE DEF m, h
<1>11. Remembers(h, m)
  BY <1>0, <1>1, <1>2, <1>4, <1>6, <1>7, <1>8, <1>9, <1>10 DEF Remembers
<1> QED  BY <1>11 DEF m, h

\* The grace starts with the restart, and so does the count of the misses.
LEMMA RemembersRestart ==
  ASSUME NEW l \in Seq(Entries), NEW e \in Entries, NEW g \in Guards, Remembers(g, l),
         e.ev = "restart", e.at = now, now \in Nat, \A i \in DOMAIN l : l[i].at <= now
  PROVE  Remembers(Recovered(g), Append(l, e))
<1> DEFINE m == Append(l, e)
           h == Recovered(g)
<1>0. PICK n \in Nat : n = Len(l)
  OBVIOUS
<1>1. /\ Len(m) = n + 1 /\ DOMAIN l = 1..n
      /\ \A k \in 1..n : m[k] = l[k]
      /\ m[n + 1] = e
  BY <1>0, Appending
<1>2. /\ Restarts(m, n + 1) = Restarts(l, n) \cup {n + 1} /\ Missed(m, n + 1) = {}
      /\ Hooks(m, n + 1) = Hooks(l, n) /\ AllHooks(m) = AllHooks(l)
      /\ Restarts(l, n) \subseteq 1..n
  <2>1. Restarts(l, n) \subseteq 1..n
    BY <1>0, WithinLog DEF Within
  <2>2. e.ev \notin Healthy /\ e.ev # "hook"
    BY DEF Healthy
  <2> QED  BY <1>0, <2>1, <2>2, Counting
<1>3. /\ g.attempts = Cardinality(Hooks(l, n)) /\ g.attempts \in Nat /\ g.maxConsecutive \in Nat
  BY <1>0 DEF Remembers, Guards
<1>4. Cardinality(Hooks(l, n)) <= g.maxConsecutive
  BY <1>0, LastSeries
<1>5. /\ \A i \in DOMAIN m : Cardinality(Hooks(m, i)) <= g.maxConsecutive
      /\ g.maxConsecutive = 0 \/ \E i \in DOMAIN m : Cardinality(Hooks(m, i)) = g.maxConsecutive
  BY <1>0, <1>2, <1>3, <1>4, SeriesKept
<1>6. /\ h.recoveredAt = now /\ h.total = g.total /\ h.attempts = g.attempts /\ h.streak = 0
      /\ h.maxConsecutive = g.maxConsecutive
  BY DEF Recovered, Guards
<1>7. Cardinality(Missed(m, n + 1)) = 0 /\ now # None
  BY <1>2, FS_EmptySet, ConstantsAssumption
<1> HIDE DEF m, h
<1>8. /\ \A j \in Restarts(m, n + 1) : m[j].at <= now
      /\ \E j \in Restarts(m, n + 1) : m[j].at = now
  BY <1>1, <1>2
<1>9. Remembers(h, m)
  BY <1>0, <1>1, <1>2, <1>3, <1>5, <1>6, <1>7, <1>8 DEF Remembers
<1> QED  BY <1>9 DEF m, h

-----------------------------------------------------------------------------
(* The invariant of the recoveries *)

Times == log \in Seq(Entries) /\ \A i \in DOMAIN log : log[i].at <= now

\* The misses at i are enough for the hook.
Due(l, i) == RecoveryEnabled /\ Cardinality(Missed(l, i)) >= Threshold

HookAt(l, i) ==
  l[i].ev = "hook" =>
    /\ ~Starting(l, i)
    /\ i > 1
    /\ \/ l[i - 1].ev = "error"
       \/ l[i - 1].ev = "miss" /\ Cardinality(Missed(l, i)) >= Threshold

MissAt(l, i, ended) ==
  l[i].ev = "miss" /\ Due(l, i) =>
    (i < Len(l) /\ l[i + 1].ev = "hook") \/ (i = Len(l) /\ ended)

\* While the loop goes on, the misses are fewer than the hook takes.
BelowThreshold ==
  RecoveryEnabled /\ pc \notin {"Recover", "Done"} => guard.streak < Threshold

Reported ==
  pc = "Done" => /\ outcome.attempts = guard.total
                 /\ outcome.maxConsecutive = guard.maxConsecutive

RecoveryInv ==
  /\ Times /\ Remembers(guard, log) /\ BelowThreshold /\ Reported
  /\ \A i \in DOMAIN log : HookAt(log, i) /\ MissAt(log, i, pc = "Done")

LEMMA OneEntry ==
  ASSUME RecoveryInv, NEW e \in Entries, log' = Append(log, e), e.at = now,
         now \in Nat, now' = now, pc # "Done", e.ev # "hook",
         Remembers(guard', log'), BelowThreshold', Reported',
         e.ev = "miss" => ~Due(log', Len(log) + 1) \/ pc' = "Done"
  PROVE  RecoveryInv'
<1>0. PICK n \in Nat : n = Len(log)
  BY DEF RecoveryInv, Times
<1>1. log \in Seq(Entries) /\ \A i \in DOMAIN log : log[i].at <= now
  BY DEF RecoveryInv, Times
<1>2. /\ log' \in Seq(Entries) /\ Len(log') = n + 1
      /\ DOMAIN log = 1..n /\ DOMAIN log' = 1..(n + 1)
      /\ \A i \in 1..n : log'[i] = log[i]
      /\ log'[n + 1] = e
  BY <1>0, <1>1, Appending
<1>3. \A i \in 1..(n + 1) : i \in 1..n \/ i = n + 1
  OBVIOUS
<1>4. Times'
  BY <1>1, <1>2, <1>3 DEF Times
<1>5. ASSUME NEW i \in 1..n
      PROVE  HookAt(log', i) /\ MissAt(log', i, pc' = "Done")
  <2>1. /\ Starting(log', i) <=> Starting(log, i)
        /\ Missed(log', i) = Missed(log, i)
    BY <1>0, <1>1, PrefixKept
  <2>2. HookAt(log, i) /\ MissAt(log, i, FALSE)
    BY <1>2 DEF RecoveryInv, MissAt
  <2>3. i > 1 => i - 1 \in 1..n
    OBVIOUS
  <2>4. i < n => i + 1 \in 1..n
    OBVIOUS
  <2>5. HookAt(log', i)
    BY <1>2, <2>1, <2>2, <2>3 DEF HookAt
  <2>6. MissAt(log', i, pc' = "Done")
    BY <1>0, <1>2, <2>1, <2>2, <2>4 DEF MissAt, Due
  <2> QED  BY <2>5, <2>6
<1>6. HookAt(log', n + 1) /\ MissAt(log', n + 1, pc' = "Done")
  BY <1>0, <1>2 DEF HookAt, MissAt
<1>7. \A i \in DOMAIN log' : HookAt(log', i) /\ MissAt(log', i, pc' = "Done")
  BY <1>2, <1>3, <1>5, <1>6
<1> QED  BY <1>4, <1>7 DEF RecoveryInv

\* The hook is told right after what it follows.
LEMMA HookEntry ==
  ASSUME RecoveryInv, NEW e \in Entries, NEW h \in Entries,
         log' = Append(Append(log, e), h), e.at = now, h.at = now,
         now \in Nat, now' = now, pc # "Done", pc' = "Recover",
         e.ev \in {"miss", "error"}, h.ev = "hook", Remembers(guard', log'),
         ~Starting(log', Len(log) + 2),
         e.ev = "miss" => Cardinality(Missed(log', Len(log) + 2)) >= Threshold
  PROVE  RecoveryInv'
<1> DEFINE l == Append(log, e)
<1>0. PICK n \in Nat : n = Len(log)
  BY DEF RecoveryInv, Times
<1>1. log \in Seq(Entries) /\ \A i \in DOMAIN log : log[i].at <= now
  BY DEF RecoveryInv, Times
<1>2. /\ l \in Seq(Entries) /\ Len(l) = n + 1
      /\ DOMAIN log = 1..n /\ DOMAIN l = 1..(n + 1)
      /\ \A i \in 1..n : l[i] = log[i]
      /\ l[n + 1] = e
  BY <1>0, <1>1, Appending
<1>3. /\ log' \in Seq(Entries) /\ Len(log') = n + 1 + 1 /\ DOMAIN log' = 1..(n + 1 + 1)
      /\ \A i \in 1..(n + 1) : log'[i] = l[i]
      /\ log'[n + 1 + 1] = h
  BY <1>2, Appending
<1>4. \A i \in 1..n : Missed(l, i) = Missed(log, i) /\ (Starting(l, i) <=> Starting(log, i))
  BY <1>0, <1>1, PrefixKept
<1> HIDE DEF l
<1>5. \A i \in 1..(n + 1) : Missed(log', i) = Missed(l, i) /\ (Starting(log', i) <=> Starting(l, i))
  <2>1. PICK k \in Nat : k = n + 1
    OBVIOUS
  <2>2. k = Len(l) /\ log' = Append(l, h) /\ l \in Seq(Entries)
    BY <1>2, <2>1 DEF l
  <2> QED  BY <2>1, <2>2, PrefixKept
<1>6. \A i \in 1..n : i \in 1..(n + 1)
  OBVIOUS
<1>7. \A i \in 1..(n + 1 + 1) : i \in 1..n \/ i = n + 1 \/ i = n + 2
  OBVIOUS
<1>8. n + 1 + 1 = n + 2 /\ n + 2 - 1 = n + 1
  OBVIOUS
<1>9. /\ \A i \in 1..n : log'[i] = log[i] /\ Missed(log', i) = Missed(log, i)
                         /\ (Starting(log', i) <=> Starting(log, i))
      /\ log'[n + 1] = e /\ log'[n + 2] = h /\ Len(log') = n + 2 /\ DOMAIN log' = 1..(n + 2)
  BY <1>2, <1>3, <1>4, <1>5, <1>6, <1>8
<1>10. Times'
  BY <1>1, <1>2, <1>3, <1>7, <1>9 DEF Times
<1>11. ASSUME NEW i \in 1..n
       PROVE  HookAt(log', i) /\ MissAt(log', i, pc' = "Done")
  <2>1. HookAt(log, i) /\ MissAt(log, i, FALSE)
    BY <1>2 DEF RecoveryInv, MissAt
  <2>2. i > 1 => i - 1 \in 1..n
    OBVIOUS
  <2>3. i < n => i + 1 \in 1..n
    OBVIOUS
  <2>4. HookAt(log', i)
    BY <1>9, <2>1, <2>2 DEF HookAt
  <2>5. MissAt(log', i, pc' = "Done")
    BY <1>0, <1>9, <2>1, <2>3 DEF MissAt, Due
  <2> QED  BY <2>4, <2>5
<1>12. HookAt(log', n + 1) /\ MissAt(log', n + 1, pc' = "Done")
  BY <1>9 DEF HookAt, MissAt
<1>13. HookAt(log', n + 2) /\ MissAt(log', n + 2, pc' = "Done")
  BY <1>0, <1>8, <1>9 DEF HookAt, MissAt
<1>14. \A i \in DOMAIN log' : HookAt(log', i) /\ MissAt(log', i, pc' = "Done")
  BY <1>3, <1>7, <1>11, <1>12, <1>13
<1>15. BelowThreshold' /\ Reported'
  BY DEF BelowThreshold, Reported
<1> QED  BY <1>10, <1>14, <1>15 DEF RecoveryInv
-----------------------------------------------------------------------------
(* The steps *)

LEMMA EntryType ==
  ASSUME NEW ev \in {"sent", "unseen", "match", "watch", "miss", "error", "hook", "restart"},
         NEW t \in Tasks \cup {None}, now \in Nat
  PROVE  /\ Entry(ev, t) \in Entries /\ Entry(ev, t).ev = ev /\ Entry(ev, t).at = now
         /\ Entry(ev, t).task = t
  BY DEF Entry, Entries

LEMMA FinishTells ==
  ASSUME NEW r, NEW n, Finish(r, n)
  PROVE  Reported' /\ BelowThreshold' /\ pc' = "Done"
  BY DEF Finish, Outcome, Reported, BelowThreshold

\* A step that tells nothing of the game, and what it leaves alone.
LEMMA QuietKeeps ==
  ASSUME RecoveryInv, UNCHANGED log, UNCHANGED guard, now \in Nat,
         now' = now \/ now' = now + 1, pc = "Done" => pc' = "Done", Reported',
         pc' \notin {"Recover", "Done"} => pc \notin {"Recover", "Done"}
  PROVE  RecoveryInv'
<1>1. Times'
  <2>1. \A i \in DOMAIN log : log[i].at <= now /\ log[i].at \in Nat
    <3>1. \A i \in DOMAIN log : log[i] \in Entries /\ log[i].at <= now
      BY DEF RecoveryInv, Times
    <3> QED  BY <3>1 DEF Entries
  <2> QED  BY <2>1 DEF RecoveryInv, Times
<1>2. BelowThreshold'
  BY DEF RecoveryInv, BelowThreshold
<1>3. \A i \in DOMAIN log : MissAt(log, i, pc' = "Done")
  BY DEF RecoveryInv, MissAt
<1> QED  BY <1>1, <1>2, <1>3 DEF RecoveryInv

\* The loop without its handling of a step.
LEMMA LoopKeeps ==
  ASSUME TypeInv, RecoveryInv, UNCHANGED log,
         LoopInterrupted \/ LoopLimit \/ LoopBegin \/ Wake \/ CaptureFails \/ WatchMatches
           \/ TaskAbsent \/ DetectFails \/ TaskMatches \/ ExecuteFails
           \/ VerifyStillPresent \/ VerifyGone \/ HookFails \/ Cancel \/ Tick \/ UNCHANGED vars
  PROVE  RecoveryInv'
<1>0. now \in Nat
  BY DEF TypeInv, TypeOK
<1>1. CASE LoopInterrupted \/ LoopLimit \/ HookFails
  <2>1. Reported' /\ pc' = "Done" /\ UNCHANGED <<guard, now>>
    BY <1>1, FinishTells DEF LoopInterrupted, LoopLimit, HookFails, HookReturns, loopVars
  <2> QED  BY <1>0, <2>1, QuietKeeps
<1>2. CASE LoopBegin \/ Wake \/ CaptureFails \/ WatchMatches
           \/ TaskAbsent \/ DetectFails \/ TaskMatches \/ ExecuteFails
           \/ VerifyStillPresent \/ VerifyGone
  <2>1. /\ UNCHANGED <<guard, now>> /\ pc \notin {"Recover", "Done"}
        /\ pc' \notin {"Recover", "Done"}
    BY <1>2 DEF LoopBegin, Wake, CaptureFails, WatchMatches, TaskAbsent, DetectFails,
         TaskMatches, ExecuteFails, VerifyStillPresent, VerifyGone, Captured, Verified, loopVars
  <2> QED  BY <1>0, <2>1, QuietKeeps DEF Reported
<1>3. CASE Cancel \/ Tick \/ UNCHANGED vars
  <2>1. /\ UNCHANGED <<guard, pc, outcome>> /\ (now' = now \/ now' = now + 1)
    BY <1>3 DEF Cancel, Tick, vars, loopVars
  <2>2. Reported'
    BY <2>1 DEF RecoveryInv, Reported
  <2> QED  BY <1>0, <2>1, <2>2, QuietKeeps
<1> QED  BY <1>1, <1>2, <1>3

\* A command that is sent, and an effect that cannot be looked at.
LEMMA NotesKeep ==
  ASSUME TypeInv, RecoveryInv,
         (ExecuteOk /\ Note("sent", step.task)) \/ (VerifyCaptureFails /\ Note("unseen", pre))
  PROVE  RecoveryInv'
<1>1. /\ UNCHANGED <<guard, now>> /\ now \in Nat /\ guard \in Guards
      /\ pc \notin {"Recover", "Done"} /\ pc' \notin {"Recover", "Done"}
      /\ step.task \in Tasks \cup {None} /\ pre \in Tasks
  BY DEF TypeInv, TypeOK, Steps, ExecuteOk, VerifyCaptureFails, Verified
<1>2. PICK e \in Entries : /\ log' = Append(log, e) /\ e.at = now
                           /\ e.ev \in {"sent", "unseen"}
  BY <1>1, EntryType DEF Note
<1>3. Remembers(guard', log')
  BY <1>1, <1>2, RemembersOther DEF RecoveryInv, Times, Healthy
<1>4. BelowThreshold' /\ Reported'
  BY <1>1 DEF RecoveryInv, BelowThreshold, Reported
<1> QED  BY <1>1, <1>2, <1>3, <1>4, OneEntry

LEMMA MatchKeeps ==
  ASSUME TypeInv, RecoveryInv,
         (StepMatched /\ Handled("match")) \/ (StepWatchFired /\ Handled("watch"))
  PROVE  RecoveryInv'
<1>1. /\ now' = now /\ now \in Nat /\ guard \in Guards /\ pc = "Dispatch" /\ pre \in Tasks
      /\ guard' = RecordMatch(guard)
  BY DEF TypeInv, TypeOK, StepMatched, StepWatchFired, Dispatching, EvalGoalStop
<1>2. Continue \/ \E r, n : Finish(r, n)
  BY DEF StepMatched, StepWatchFired, EvalGoalStop
<1>3. pc' # "Recover" /\ Reported' /\ BelowThreshold'
  <2>1. CASE Continue
    <3>1. guard'.streak = 0
      BY <1>1 DEF RecordMatch, Guards
    <3> QED
      BY <2>1, <3>1, ConstantsAssumption DEF Continue, Reported, BelowThreshold, RecoveryEnabled
  <2>2. CASE \E r, n : Finish(r, n)
    BY <2>2, FinishTells
  <2> QED  BY <1>2, <2>1, <2>2
<1>4. PICK e \in Entries : log' = Append(log, e) /\ e.at = now /\ e.ev \in Healthy
  BY <1>1, <1>3, EntryType DEF Handled, Healthy
<1>5. Remembers(guard', log')
  BY <1>1, <1>4, RemembersMatch DEF RecoveryInv, Times
<1> QED  BY <1>1, <1>3, <1>4, <1>5, OneEntry DEF Healthy

LEMMA RestartKeeps ==
  ASSUME TypeInv, RecoveryInv, HookSucceeds, Note("restart", None)
  PROVE  RecoveryInv'
<1>1. /\ now' = now /\ now \in Nat /\ guard \in Guards /\ pc = "Recover" /\ pc' = "Sleep"
      /\ guard' = Recovered(guard)
  BY DEF TypeInv, TypeOK, HookSucceeds, HookReturns, Continue
<1>2. PICK e \in Entries : log' = Append(log, e) /\ e.at = now /\ e.ev = "restart"
  BY <1>1, EntryType DEF Note
<1>3. Remembers(guard', log')
  BY <1>1, <1>2, RemembersRestart DEF RecoveryInv, Times
<1>4. Reported' /\ BelowThreshold'
  <2>1. guard'.streak = 0
    BY <1>1 DEF Recovered, Guards
  <2> QED
    BY <1>1, <2>1, ConstantsAssumption DEF Reported, BelowThreshold, RecoveryEnabled
<1> QED  BY <1>1, <1>2, <1>3, <1>4, OneEntry
\* An attempt is taken outside the grace.
LEMMA AttemptKeeps ==
  ASSUME TypeInv, RecoveryInv, NEW ev \in {"miss", "error"}, Handled(ev),
         pc = "Dispatch", now' = now, NEW g \in Guards, ~InGrace(g), RunRecovery(g), BudgetLeft(g),
         Remembers(g, Append(log, Entry(ev, pre))),
         ev = "miss" => Cardinality(Missed(Append(log, Entry(ev, pre)), Len(log) + 1)) >= Threshold
  PROVE  RecoveryInv'
<1> DEFINE l == Append(log, Entry(ev, pre))
<1>0. PICK n \in Nat : n = Len(log)
  BY DEF RecoveryInv, Times
<1>1. guard' = ConsumeAttempt(g) /\ pc' = "Recover" /\ now \in Nat /\ pre \in Tasks
  BY DEF RunRecovery, TypeInv, TypeOK
<1>2. PICK e \in Entries : e = Entry(ev, pre) /\ e.at = now /\ e.ev = ev
  BY <1>1, EntryType
<1>3. PICK h \in Entries : /\ log' = Append(Append(log, e), h) /\ h.at = now /\ h.ev = "hook"
  BY <1>1, <1>2, EntryType DEF Handled
<1>4. log \in Seq(Entries) /\ l = Append(log, e)
  BY <1>2 DEF RecoveryInv, Times
<1>5. l \in Seq(Entries) /\ Len(l) = n + 1
  BY <1>0, <1>4, Appending
<1>6. Remembers(g, l)
  OBVIOUS
<1> HIDE DEF l
<1>7. PICK k \in Nat : k = Len(l) /\ k = n + 1 /\ k + 1 = Len(log) + 2
  BY <1>0, <1>5
<1>8. log' = Append(l, h)
  BY <1>3, <1>4
<1>9. Remembers(guard', log')
  BY <1>1, <1>3, <1>5, <1>6, <1>8, RemembersHook
<1>10. ~Starting(log', k + 1)
  BY <1>1, <1>3, <1>5, <1>6, <1>7, <1>8, StartingIsGrace DEF Healthy
<1>11. Missed(log', k + 1) = Missed(l, k)
  BY <1>3, <1>5, <1>7, <1>8, Counting DEF Healthy
<1>12. e.ev = "miss" => Cardinality(Missed(log', k + 1)) >= Threshold
  BY <1>0, <1>2, <1>7, <1>11 DEF l
<1> QED  BY <1>1, <1>2, <1>3, <1>7, <1>9, <1>10, <1>12, HookEntry

LEMMA ErrorKeeps ==
  ASSUME TypeInv, RecoveryInv, StepError, Handled("error")
  PROVE  RecoveryInv'
<1>1. /\ now' = now /\ now \in Nat /\ guard \in Guards /\ pc = "Dispatch" /\ pre \in Tasks
  BY DEF TypeInv, TypeOK, StepError, Dispatching
<1>2. PICK e \in Entries : e = Entry("error", pre) /\ e.at = now /\ e.ev = "error"
  BY <1>1, EntryType
<1>3. Remembers(guard, Append(log, e))
  BY <1>1, <1>2, RemembersOther DEF RecoveryInv, Times, Healthy
<1>4. \/ guard' = guard /\ (Continue \/ \E r, n : Finish(r, n))
      \/ ~InGrace(guard) /\ RunRecovery(guard)
  BY DEF StepError
<1>5. CASE guard' = guard /\ (Continue \/ \E r, n : Finish(r, n))
  <2>1. pc' # "Recover" /\ Reported' /\ BelowThreshold'
    <3>1. CASE Continue
      BY <1>1, <1>5, <3>1 DEF Continue, Reported, RecoveryInv, BelowThreshold
    <3>2. CASE \E r, n : Finish(r, n)
      BY <3>2, FinishTells
    <3> QED  BY <1>5, <3>1, <3>2
  <2>2. log' = Append(log, e)
    BY <1>2, <2>1 DEF Handled
  <2> QED  BY <1>1, <1>2, <1>3, <1>5, <2>1, <2>2, OneEntry
<1>6. CASE ~InGrace(guard) /\ RunRecovery(guard)
  <2>1. CASE BudgetLeft(guard)
    BY <1>1, <1>2, <1>3, <1>6, <2>1, AttemptKeeps
  <2>2. CASE ~BudgetLeft(guard)
    <3>1. guard' = guard /\ Finish("RecoveryExhausted", iterations - 1)
      BY <1>6, <2>2 DEF RunRecovery
    <3>2. pc' = "Done" /\ Reported' /\ BelowThreshold'
      BY <3>1, FinishTells
    <3>3. log' = Append(log, e)
      BY <1>2, <3>2 DEF Handled
    <3> QED  BY <1>1, <1>2, <1>3, <3>1, <3>2, <3>3, OneEntry
  <2> QED  BY <2>1, <2>2
<1> QED  BY <1>4, <1>5, <1>6

LEMMA MissKeeps ==
  ASSUME TypeInv, RecoveryInv, StepNoMatch \/ StepFiredUnverified, Handled("miss")
  PROVE  RecoveryInv'
<1> DEFINE due == RecoveryEnabled /\ MissIsDue(guard)
           g == IF RecoveryEnabled THEN RecordMiss(guard) ELSE guard
<1>1. /\ now' = now /\ now \in Nat /\ guard \in Guards /\ pc = "Dispatch" /\ pre \in Tasks
      /\ NoMatchBody /\ log \in Seq(Entries)
  BY DEF TypeInv, TypeOK, StepNoMatch, StepFiredUnverified, Dispatching, RecoveryInv, Times
<1>2. PICK e \in Entries : e = Entry("miss", pre) /\ e.at = now /\ e.ev = "miss"
  BY <1>1, EntryType
<1>3. /\ Remembers(g, Append(log, e))
      /\ RecoveryEnabled => Cardinality(Missed(Append(log, e), Len(log) + 1)) = RecordMiss(guard).streak
  BY <1>1, <1>2, RemembersMiss DEF RecoveryInv
<1>4. g \in Guards
  BY <1>1, GuardOperations
<1>5. /\ guard.streak \in Nat
      /\ RecordMiss(guard).streak = IF InGrace(guard) THEN guard.streak ELSE guard.streak + 1
      /\ InGrace(RecordMiss(guard)) <=> InGrace(guard)
  BY <1>1 DEF RecordMiss, Guards, InGrace
<1>6. RecoveryEnabled => guard.streak < Threshold /\ Threshold \in Nat
  BY <1>1, ConstantsAssumption DEF RecoveryInv, BelowThreshold
<1>7. \/ guard' = g /\ \E r, n : Finish(r, n)
      \/ due /\ RunRecovery(g)
      \/ ~due /\ guard' = g /\ Continue
  BY <1>1 DEF NoMatchBody, EvalGoalStop
<1> HIDE DEF g
<1>8. ASSUME guard' = g, \E r, n : Finish(r, n) PROVE RecoveryInv'
  <2>1. pc' = "Done" /\ Reported' /\ BelowThreshold'
    BY <1>8, FinishTells
  <2>2. log' = Append(log, e)
    BY <1>2, <2>1 DEF Handled
  <2> QED  BY <1>1, <1>2, <1>3, <1>8, <2>1, <2>2, OneEntry
<1>9. CASE due /\ RunRecovery(g)
  <2>1. CASE BudgetLeft(g)
    <3>1. ~InGrace(g) /\ RecordMiss(guard).streak >= Threshold
      BY <1>5, <1>9 DEF MissIsDue, g
    <3>2. Cardinality(Missed(Append(log, Entry("miss", pre)), Len(log) + 1)) >= Threshold
      BY <1>2, <1>3, <1>9, <3>1
    <3> QED  BY <1>1, <1>2, <1>3, <1>4, <1>9, <2>1, <3>1, <3>2, AttemptKeeps
  <2>2. CASE ~BudgetLeft(g)
    BY <1>8, <1>9, <2>2 DEF RunRecovery
  <2> QED  BY <2>1, <2>2
<1>10. CASE ~due /\ guard' = g /\ Continue
  <2>1. pc' = "Sleep" /\ Reported'
    BY <1>10 DEF Continue, Reported
  <2>2. log' = Append(log, e)
    BY <1>2, <2>1 DEF Handled
  <2>3. RecoveryEnabled => RecordMiss(guard).streak < Threshold
    BY <1>5, <1>6, <1>10 DEF MissIsDue
  <2>4. BelowThreshold'
    BY <1>10, <2>3 DEF BelowThreshold, g
  <2>5. ~Due(log', Len(log) + 1)
    BY <1>3, <1>5, <1>6, <2>2, <2>3 DEF Due
  <2> QED  BY <1>1, <1>2, <1>3, <1>10, <2>1, <2>2, <2>4, <2>5, OneEntry
<1> QED  BY <1>7, <1>8, <1>9, <1>10

LEMMA HistoryOnlyWatches == [HNext]_hvars => [Next]_vars
  BY DEF HNext, Next, Loop, RunOnce, HandleStep, hvars

LEMMA InitRecovery == HInit => RecoveryInv
<1> SUFFICES ASSUME HInit PROVE RecoveryInv
  OBVIOUS
<1>1. log = <<>> /\ pc = "Top" /\ guard = NewGuard
  BY DEF HInit, Init
<1>2. Restarts(<<>>, 0) = {} /\ Missed(<<>>, 0) = {} /\ Hooks(<<>>, 0) = {} /\ AllHooks(<<>>) = {}
  BY DEF Restarts, Missed, Hooks, AllHooks, Outage
<1>3. Remembers(guard, log)
  <2>1. log = <<>> /\ Len(log) = 0 /\ DOMAIN log = {}
    BY <1>1
  <2>2. /\ guard.recoveredAt = None /\ guard.streak = 0 /\ guard.total = 0
        /\ guard.attempts = 0 /\ guard.maxConsecutive = 0
    BY <1>1 DEF NewGuard
  <2>3. Restarts(log, 0) = {} /\ Missed(log, 0) = {} /\ Hooks(log, 0) = {} /\ AllHooks(log) = {}
    BY <1>2, <2>1
  <2> QED  BY <2>1, <2>2, <2>3, FS_EmptySet DEF Remembers
<1>4. Times /\ Reported
  BY <1>1 DEF Times, Reported
<1>5. BelowThreshold
  BY <1>1, ConstantsAssumption DEF BelowThreshold, NewGuard, RecoveryEnabled
<1> QED  BY <1>1, <1>3, <1>4, <1>5 DEF RecoveryInv

LEMMA NextRecovery == TypeInv /\ RecoveryInv /\ [HNext]_hvars => RecoveryInv'
<1> SUFFICES ASSUME TypeInv, RecoveryInv, [HNext]_hvars PROVE RecoveryInv'
  OBVIOUS
<1>1. CASE UNCHANGED hvars
  BY <1>1, LoopKeeps DEF hvars
<1>2. CASE /\ \/ LoopInterrupted \/ LoopLimit \/ LoopBegin \/ Wake \/ CaptureFails
              \/ WatchMatches \/ TaskAbsent \/ DetectFails \/ TaskMatches \/ ExecuteFails
              \/ VerifyStillPresent \/ VerifyGone \/ HookFails \/ Cancel \/ Tick
           /\ Quiet
  BY <1>2, LoopKeeps DEF Quiet
<1>3. CASE (ExecuteOk /\ Note("sent", step.task)) \/ (VerifyCaptureFails /\ Note("unseen", pre))
  BY <1>3, NotesKeep
<1>4. CASE (StepMatched /\ Handled("match")) \/ (StepWatchFired /\ Handled("watch"))
  BY <1>4, MatchKeeps
<1>5. CASE (StepNoMatch \/ StepFiredUnverified) /\ Handled("miss")
  BY <1>5, MissKeeps
<1>6. CASE StepError /\ Handled("error")
  BY <1>6, ErrorKeeps
<1>7. CASE HookSucceeds /\ Note("restart", None)
  BY <1>7, RestartKeeps
<1> QED  BY <1>1, <1>2, <1>3, <1>4, <1>5, <1>6, <1>7 DEF HNext

\* In every run, however matches, misses, errors, hooks and the clock follow each
\* other, the recovery guard remembers exactly the outage the log shows: its streak
\* of misses, the time of the last restart, its hooks and the longest series.
THEOREM RecoveryInvariant == HSpec => [](TypeInv /\ RecoveryInv)
<1>1. HInit => TypeInv /\ RecoveryInv
  BY InitTypeInv, InitRecovery DEF HInit
<1>2. TypeInv /\ RecoveryInv /\ [HNext]_hvars => (TypeInv /\ RecoveryInv)'
  BY HistoryOnlyWatches, NextTypeInv, NextRecovery
<1> QED  BY <1>1, <1>2, PTL DEF HSpec

-----------------------------------------------------------------------------
(* What the invariant says of the run *)

LEMMA SameReading ==
  /\ \A i : OutageSince(i) = Outage(log, i)
  /\ \A i : Booting(i) <=> Starting(log, i)
  /\ \A i : i \in Nat /\ log[i].ev # "restart" => Counted(i) = Missed(log, i)
<1>1. \A i : OutageSince(i) = Outage(log, i)
  BY DEF OutageSince, Outage, Events, Healthy
<1>2. \A i : Booting(i) <=> Starting(log, i)
  BY <1>1 DEF Booting, RestartsBefore, Starting, Restarts
<1>3. ASSUME NEW i \in Nat, log[i].ev # "restart"
      PROVE  Counted(i) = Missed(log, i)
  <2>1. RestartsBefore(i) = Restarts(log, i)
    <3>1. \A j \in Outage(log, i) : j \in Nat /\ j <= i /\ (j = i \/ j < i)
      BY DEF Outage
    <3> QED  BY <1>1, <1>3, <3>1 DEF RestartsBefore, Restarts
  <2> QED  BY <1>1, <1>2, <2>1 DEF Counted, Missed
<1> QED  BY <1>1, <1>2, <1>3

\* US-CLI-11: however errors, misses and the clock follow each other, no hook is
\* started within the grace period of a restart that no match came after.
THEOREM GraceCorrect == HSpec => []NoHookWhileBooting
<1>1. RecoveryInv => NoHookWhileBooting
  BY SameReading DEF RecoveryInv, HookAt, NoHookWhileBooting, Events
<1> QED  BY <1>1, RecoveryInvariant, PTL

\* A hook has a cause: an I/O error, or the counted miss that completes the
\* threshold (RecoveryGuard::record_miss, run_recovery_step).
THEOREM CauseCorrect == HSpec => []HookHasCause
<1>1. ASSUME RecoveryInv PROVE HookHasCause
  <2> SUFFICES ASSUME NEW i \in Events({"hook"})
               PROVE  \/ log[i - 1].ev = "error"
                      \/ log[i - 1].ev = "miss" /\ Cardinality(Counted(i)) >= Threshold
    BY DEF HookHasCause
  <2>1. i \in DOMAIN log /\ log[i].ev = "hook" /\ i \in Nat
    BY <1>1 DEF Events, RecoveryInv, Times
  <2>2. HookAt(log, i) /\ Counted(i) = Missed(log, i)
    BY <1>1, <2>1, SameReading DEF RecoveryInv
  <2> QED  BY <2>1, <2>2 DEF HookAt
<1> QED  BY <1>1, RecoveryInvariant, PTL

\* And the hook is not withheld: the miss that completes the threshold starts it
\* or ends the run.
THEOREM NotIgnoredCorrect == HSpec => []MissesNotIgnored
<1>1. ASSUME RecoveryInv PROVE MissesNotIgnored
  <2> SUFFICES ASSUME NEW i \in Events({"miss"}),
                      RecoveryEnabled, Cardinality(Counted(i)) >= Threshold
               PROVE  \/ i < Here /\ log[i + 1].ev = "hook"
                      \/ i = Here /\ pc = "Done"
    BY DEF MissesNotIgnored
  <2>1. i \in DOMAIN log /\ log[i].ev = "miss" /\ i \in Nat
    BY <1>1 DEF Events, RecoveryInv, Times
  <2>2. MissAt(log, i, pc = "Done") /\ Counted(i) = Missed(log, i)
    BY <1>1, <2>1, SameReading DEF RecoveryInv
  <2> QED  BY <2>1, <2>2 DEF MissAt, Due, Here
<1> QED  BY <1>1, RecoveryInvariant, PTL

\* The report's telemetry is the number of hooks that were started and the length
\* of the longest series of them in one outage (build_outcome).
THEOREM TelemetryCorrect == HSpec => []TelemetryIsExact
<1>1. ASSUME RecoveryInv PROVE TelemetryIsExact
  <2>1. HooksIn(DOMAIN log) = Cardinality(AllHooks(log))
    BY DEF HooksIn, AllHooks
  <2>2. \A i : HooksIn(OutageSince(i)) = Cardinality(Hooks(log, i))
    BY SameReading DEF HooksIn, Hooks
  <2> QED  BY <1>1, <2>1, <2>2 DEF RecoveryInv, Remembers, Reported, TelemetryIsExact
<1> QED  BY <1>1, RecoveryInvariant, PTL
-----------------------------------------------------------------------------
(* What the pipeline's position and the report's commands follow from *)

EndsWith(l, ev) == Len(l) > 0 /\ l[Len(l)].ev = ev

HandledIn(l) == {i \in DOMAIN l : l[i].ev \in {"match", "watch", "miss", "error"}}

Moved(t) == IF AdvanceNext(t) = None THEN t ELSE AdvanceNext(t)

\* Where an entry that tells of a handled step leaves the pipeline.
PositionAfter(l, i) ==
  IF l[i].ev = "match" \/ (i > 1 /\ l[i - 1].ev = "unseen") THEN Moved(l[i].task)
  ELSE l[i].task

Positioned(c, l) ==
  \/ HandledIn(l) = {}
  \/ \E i \in HandledIn(l) : (\A j \in HandledIn(l) : j <= i) /\ c = PositionAfter(l, i)

\* The commands sent before the last entry, without those not looked at.
SentIn(l) ==
  {i \in DOMAIN l : i < Len(l) /\ l[i].ev = "sent" /\ l[i + 1].ev # "unseen"}

Tells(f, l) ==
  \E pos \in [DOMAIN f -> SentIn(l)] :
    /\ SentIn(l) = {pos[k] : k \in DOMAIN f}
    /\ \A k \in DOMAIN f : /\ f[k] = l[pos[k]].task
                           /\ \A m \in DOMAIN f : m < k => pos[m] < pos[k]

LEMMA SentGrows ==
  ASSUME NEW l \in Seq(Entries), NEW e \in Entries, NEW n \in Nat, n = Len(l)
  PROVE  /\ EndsWith(l, "sent") /\ e.ev # "unseen" =>
              SentIn(Append(l, e)) = SentIn(l) \cup {n}
         /\ ~EndsWith(l, "sent") \/ e.ev = "unseen" => SentIn(Append(l, e)) = SentIn(l)
         /\ \A i \in SentIn(l) : i \in 1..n /\ i < n
<1> DEFINE m == Append(l, e)
<1>1. /\ Len(m) = n + 1 /\ DOMAIN l = 1..n /\ DOMAIN m = 1..(n + 1)
      /\ (\A k \in 1..n : m[k] = l[k]) /\ m[n + 1] = e
  BY Appending
<1> HIDE DEF m
<1>2. \A i \in SentIn(l) : i \in 1..n /\ i < n
  BY <1>1 DEF SentIn
<1>3. \A i \in SentIn(m) : i \in 1..n /\ m[i + 1].ev # "unseen" /\ l[i].ev = "sent"
  BY <1>1 DEF SentIn
<1>4. \A i \in 1..n : i < n => (i \in SentIn(m) <=> i \in SentIn(l))
  <2>1. \A i \in 1..n : i < n => i + 1 \in 1..n /\ i \in 1..(n + 1)
    OBVIOUS
  <2> QED  BY <1>1, <2>1 DEF SentIn
<1>5. \A i \in 1..n : i < n \/ i = n
  OBVIOUS
<1>6. n \in SentIn(m) => EndsWith(l, "sent") /\ e.ev # "unseen"
  BY <1>1, <1>3 DEF EndsWith
<1>7. EndsWith(l, "sent") /\ e.ev # "unseen" => n \in SentIn(m)
  BY <1>1 DEF EndsWith, SentIn
<1>8. \A i \in SentIn(m) : i \in SentIn(l) \/ (i = n /\ n \in SentIn(m))
  BY <1>3, <1>4, <1>5
<1>9. \A i \in SentIn(l) : i \in SentIn(m)
  BY <1>2, <1>4
<1> QED  BY <1>2, <1>6, <1>7, <1>8, <1>9 DEF m

LEMMA TellsSame ==
  ASSUME NEW l \in Seq(Entries), NEW e \in Entries, NEW f \in Seq(Tasks), Tells(f, l),
         ~EndsWith(l, "sent") \/ e.ev = "unseen"
  PROVE  Tells(f, Append(l, e))
<1> DEFINE m == Append(l, e)
<1>0. PICK n \in Nat : n = Len(l)
  OBVIOUS
<1>1. SentIn(m) = SentIn(l)
  BY <1>0, SentGrows
<1>2. \A i \in SentIn(l) : m[i] = l[i]
  BY <1>0, Appending DEF SentIn
<1> HIDE DEF m
<1>3. Tells(f, m)
  BY <1>1, <1>2 DEF Tells
<1> QED  BY <1>3 DEF m

LEMMA TellsFired ==
  ASSUME NEW l \in Seq(Entries), NEW e \in Entries, NEW f \in Seq(Tasks), Tells(f, l),
         EndsWith(l, "sent"), e.ev # "unseen", NEW t \in Tasks, l[Len(l)].task = t
  PROVE  Tells(Append(f, t), Append(l, e))
<1> DEFINE m == Append(l, e)
           g == Append(f, t)
<1>0. PICK n \in Nat : n = Len(l)
  OBVIOUS
<1>1. PICK d \in Nat : d = Len(f)
  OBVIOUS
<1>2. /\ DOMAIN f = 1..d /\ DOMAIN g = 1..(d + 1)
      /\ (\A k \in 1..d : g[k] = f[k]) /\ g[d + 1] = t
  BY <1>1
<1>3. /\ SentIn(m) = SentIn(l) \cup {n} /\ (\A i \in SentIn(l) : m[i] = l[i] /\ i < n)
      /\ m[n] = l[n] /\ l[n].task = t
  <2>1. n > 0
    BY <1>0 DEF EndsWith
  <2> QED  BY <1>0, <2>1, SentGrows, Appending
<1>4. PICK pos \in [1..d -> SentIn(l)] :
        /\ SentIn(l) = {pos[k] : k \in 1..d}
        /\ \A k \in 1..d : /\ f[k] = l[pos[k]].task
                           /\ \A j \in 1..d : j < k => pos[j] < pos[k]
  BY <1>2 DEF Tells
<1> HIDE DEF m, g
<1> DEFINE next == [k \in 1..(d + 1) |-> IF k = d + 1 THEN n ELSE pos[k]]
<1>5. /\ \A k \in 1..d : k \in 1..(d + 1) /\ k # d + 1 /\ k < d + 1
      /\ \A k \in 1..(d + 1) : k \in 1..d \/ k = d + 1
      /\ \A k, j \in 1..(d + 1) : j < k => j \in 1..d
      /\ d + 1 \in 1..(d + 1)
  OBVIOUS
<1>6. (\A k \in 1..d : next[k] = pos[k]) /\ next[d + 1] = n
  BY <1>5
<1>7. next \in [1..(d + 1) -> SentIn(m)]
  BY <1>3, <1>4, <1>5
<1> HIDE DEF next
<1>8. SentIn(m) = {next[k] : k \in 1..(d + 1)}
  <2>1. \A i \in SentIn(m) : \E k \in 1..(d + 1) : i = next[k]
    BY <1>3, <1>4, <1>5, <1>6
  <2> QED  BY <1>7, <2>1
<1>9. ASSUME NEW k \in 1..(d + 1)
      PROVE  /\ g[k] = m[next[k]].task
             /\ \A j \in 1..(d + 1) : j < k => next[j] < next[k]
  <2>1. CASE k \in 1..d
    <3>1. pos[k] \in SentIn(l) /\ next[k] = pos[k] /\ g[k] = f[k] /\ m[pos[k]] = l[pos[k]]
      BY <1>2, <1>3, <1>4, <1>6, <2>1
    <3>2. g[k] = m[next[k]].task
      BY <1>4, <2>1, <3>1
    <3>3. ASSUME NEW j \in 1..(d + 1), j < k PROVE next[j] < next[k]
      <4>1. j \in 1..d
        BY <2>1, <3>3
      <4> QED  BY <1>4, <1>6, <2>1, <3>3, <4>1
    <3> QED  BY <3>2, <3>3
  <2>2. CASE k = d + 1
    BY <1>2, <1>3, <1>4, <1>5, <1>6, <2>2
  <2> QED  BY <1>5, <2>1, <2>2
<1>10. Tells(g, m)
  BY <1>2, <1>7, <1>8, <1>9 DEF Tells
<1> QED  BY <1>10 DEF m, g

LEMMA PositionSame ==
  ASSUME NEW l \in Seq(Entries), NEW e \in Entries, NEW c, Positioned(c, l),
         e.ev \notin {"match", "watch", "miss", "error"}
  PROVE  Positioned(c, Append(l, e))
<1> DEFINE m == Append(l, e)
<1>0. PICK n \in Nat : n = Len(l)
  OBVIOUS
<1>1. /\ DOMAIN l = 1..n /\ DOMAIN m = 1..(n + 1)
      /\ (\A k \in 1..n : m[k] = l[k]) /\ m[n + 1] = e
  BY <1>0, Appending
<1> HIDE DEF m
<1>2. HandledIn(m) = HandledIn(l) /\ HandledIn(l) \subseteq 1..n
  BY <1>1 DEF HandledIn
<1>3. \A i \in 1..n : i > 1 => i - 1 \in 1..n
  OBVIOUS
<1>4. \A i \in HandledIn(l) : PositionAfter(m, i) = PositionAfter(l, i)
  BY <1>1, <1>2, <1>3 DEF PositionAfter
<1>5. Positioned(c, m)
  BY <1>2, <1>4 DEF Positioned
<1> QED  BY <1>5 DEF m

LEMMA PositionNew ==
  ASSUME NEW l \in Seq(Entries), NEW e \in Entries,
         e.ev \in {"match", "watch", "miss", "error"}
  PROVE  Positioned(IF e.ev = "match" \/ EndsWith(l, "unseen") THEN Moved(e.task) ELSE e.task,
                    Append(l, e))
<1> DEFINE m == Append(l, e)
           c == IF e.ev = "match" \/ EndsWith(l, "unseen") THEN Moved(e.task) ELSE e.task
<1>0. PICK n \in Nat : n = Len(l)
  OBVIOUS
<1>1. /\ DOMAIN l = 1..n /\ DOMAIN m = 1..(n + 1)
      /\ (\A k \in 1..n : m[k] = l[k]) /\ m[n + 1] = e
  BY <1>0, Appending
<1> HIDE DEF m
<1>2. n + 1 \in HandledIn(m) /\ \A j \in HandledIn(m) : j <= n + 1
  BY <1>1 DEF HandledIn
<1>3. (n + 1 > 1 /\ m[n + 1 - 1].ev = "unseen") <=> EndsWith(l, "unseen")
  <2>1. n + 1 - 1 = n /\ (n + 1 > 1 <=> n > 0) /\ (n > 0 => n \in 1..n)
    OBVIOUS
  <2> QED  BY <1>0, <1>1, <2>1 DEF EndsWith
<1>4. c = PositionAfter(m, n + 1)
  BY <1>1, <1>3 DEF PositionAfter
<1>5. Positioned(c, m)
  BY <1>2, <1>4 DEF Positioned
<1> QED  BY <1>5 DEF m, c

-----------------------------------------------------------------------------
(* The invariant of the position and the commands *)

WithStep == pc \in {"Execute", "Verify", "Dispatch"}

\* A command was sent whose step is not handled yet.
Pending == pc \in {"Verify", "Dispatch"} /\ step.cmd

Quietly == {"NoMatch", "Capture", "VerifyCapture", "ExecuteError", "Other"}

\* What the step at hand says of the position.
StepPlace ==
  /\ pc = "Capture" => current = pre
  /\ pc = "Execute" => step.cmd /\ step.kind \in {"Fired", "WatchFired"}
  /\ pc = "Verify" => step.cmd /\ step.kind = "Fired"
  /\ WithStep =>
       /\ step.kind \in {"Fired", "NoFire"} => step.task = pre /\ current = Moved(pre)
       /\ step.kind = "FiredUnverified" => step.task = pre /\ current = pre
       /\ step.kind \in {"NoMatch", "Capture", "Other", "WatchFired"} => current = pre
       /\ step.kind = "VerifyCapture" => current = Moved(pre)
       /\ step.kind \in Quietly => ~step.cmd

LogEnd ==
  /\ EndsWith(log, "sent") <=> Pending
  /\ Pending => log[Len(log)].task = step.task
  /\ EndsWith(log, "unseen") <=> (pc = "Dispatch" /\ step.kind = "VerifyCapture")

EvidenceInv ==
  /\ StepPlace /\ LogEnd /\ Tells(fired, log)
  /\ pc \in {"Top", "Sleep", "Recover"} => Positioned(current, log)
  /\ pc = "Done" => outcome.fired = fired

LEMMA InitEvidence == HInit => EvidenceInv
<1> SUFFICES ASSUME HInit PROVE EvidenceInv
  OBVIOUS
<1>1. log = <<>> /\ Len(log) = 0 /\ DOMAIN log = {} /\ fired = <<>> /\ DOMAIN fired = {} /\ pc = "Top"
  BY DEF HInit, Init
<1>2. SentIn(log) = {} /\ HandledIn(log) = {}
  BY <1>1 DEF SentIn, HandledIn
<1>3. Tells(fired, log)
  <2> DEFINE pos == [k \in {} |-> k]
  <2>1. pos \in [{} -> {}] /\ {} = {pos[k] : k \in {}}
    OBVIOUS
  <2> HIDE DEF pos
  <2> QED  BY <1>1, <1>2, <2>1 DEF Tells
<1>4. StepPlace /\ LogEnd
  BY <1>1 DEF StepPlace, LogEnd, WithStep, Pending, EndsWith
<1> QED  BY <1>1, <1>2, <1>3, <1>4 DEF EvidenceInv, Positioned

\* The steps that tell nothing.
LEMMA QuietPlace ==
  ASSUME TypeInv, EvidenceInv, UNCHANGED log,
         LoopInterrupted \/ LoopLimit \/ LoopBegin \/ Wake \/ CaptureFails \/ WatchMatches
           \/ TaskAbsent \/ DetectFails \/ TaskMatches \/ ExecuteFails
           \/ VerifyStillPresent \/ VerifyGone \/ HookFails \/ Cancel \/ Tick \/ UNCHANGED vars
  PROVE  EvidenceInv'
<1>1. CASE LoopInterrupted \/ LoopLimit \/ HookFails
  <2>1. /\ pc' = "Done" /\ outcome'.fired = fired' /\ fired' = fired
        /\ pc \in {"Top", "Recover"}
    BY <1>1 DEF LoopInterrupted, LoopLimit, HookFails, HookReturns, Finish, Outcome, loopVars
  <2> QED
    BY <2>1 DEF EvidenceInv, StepPlace, LogEnd, WithStep, Pending
<1>2. CASE LoopBegin \/ Wake
  <2>1. UNCHANGED <<current, fired, step>> /\ pc \in {"Top", "Sleep"} /\ pc' \in {"Top", "Capture"}
        /\ (pc' = "Capture" => pre' = current)
    BY <1>2 DEF LoopBegin, Wake, loopVars
  <2> QED
    BY <2>1 DEF EvidenceInv, StepPlace, LogEnd, WithStep, Pending
<1>3. CASE CaptureFails \/ TaskAbsent \/ DetectFails
  <2>1. /\ UNCHANGED <<current, pre, fired>> /\ pc = "Capture" /\ pc' = "Dispatch"
        /\ step' \in {Plain("Capture"), Plain("NoMatch"), Plain("Other")}
    BY <1>3 DEF CaptureFails, TaskAbsent, DetectFails, Captured
  <2>2. step'.kind \in {"Capture", "NoMatch", "Other"} /\ ~step'.cmd
    BY <2>1, PlainType DEF StepKinds
  <2>3. StepPlace'
    BY <2>1, <2>2 DEF EvidenceInv, StepPlace, WithStep
  <2>4. LogEnd'
    BY <2>1, <2>2 DEF EvidenceInv, LogEnd, Pending
  <2> QED  BY <2>1, <2>3, <2>4 DEF EvidenceInv
<1>4. CASE WatchMatches
  <2>1. PICK i \in DOMAIN Watch :
          /\ Watch[i] \in Defined
          /\ Captured(Step("WatchFired", Watch[i], None, Sends(Watch[i])),
                      IF Sends(Watch[i]) THEN "Execute" ELSE "Dispatch")
    BY <1>4 DEF WatchMatches
  <2>2. Watch[i] \in Tasks /\ Sends(Watch[i]) \in BOOLEAN
    BY <2>1, ConstantsAssumption, AdvanceNextType
  <2>3. step'.kind = "WatchFired" /\ step'.cmd = Sends(Watch[i])
    BY <2>1, <2>2, StepType DEF Captured, StepKinds
  <2>4. /\ UNCHANGED <<current, pre, fired>> /\ pc = "Capture"
        /\ pc' = IF Sends(Watch[i]) THEN "Execute" ELSE "Dispatch"
    BY <1>4, <2>1 DEF WatchMatches, Captured
  <2>5. StepPlace'
    BY <2>3, <2>4 DEF EvidenceInv, StepPlace, WithStep, Quietly
  <2>6. LogEnd'
    BY <2>3, <2>4 DEF EvidenceInv, LogEnd, Pending
  <2> QED  BY <2>4, <2>5, <2>6 DEF EvidenceInv
<1>5. CASE TaskMatches
  <2> DEFINE kind == IF Sends(current) THEN "Fired" ELSE "NoFire"
  <2>1. current \in Tasks /\ AdvanceNext(current) \in Tasks \cup {None} /\ Sends(current) \in BOOLEAN
    BY AdvanceNextType DEF TypeInv, TypeOK
  <2>2. step' = Step(kind, current, AdvanceNext(current), Sends(current))
    BY <1>5 DEF TaskMatches, Captured
  <2>3. kind \in StepKinds
    BY DEF StepKinds
  <2>4. step'.kind = kind /\ step'.task = current /\ step'.cmd = Sends(current)
    <3> HIDE DEF kind
    <3> QED  BY <2>1, <2>2, <2>3, StepType
  <2>5. /\ UNCHANGED <<pre, fired>> /\ pc = "Capture" /\ current' = Moved(current)
        /\ pc' = IF Sends(current) THEN "Execute" ELSE "Dispatch"
    BY <1>5 DEF TaskMatches, Captured, Moved
  <2>6. current = pre
    BY <2>5 DEF EvidenceInv, StepPlace
  <2>7. StepPlace'
    BY <2>4, <2>5, <2>6 DEF StepPlace, WithStep, Quietly
  <2>8. LogEnd'
    BY <2>4, <2>5 DEF EvidenceInv, LogEnd, Pending
  <2> QED  BY <2>5, <2>7, <2>8 DEF EvidenceInv
<1>6. CASE ExecuteFails
  <2>1. /\ UNCHANGED <<current, pre, fired>> /\ pc = "Execute" /\ pc' = "Dispatch"
        /\ step'.kind = "ExecuteError" /\ ~step'.cmd
    BY <1>6, PlainType DEF ExecuteFails, StepKinds
  <2>2. StepPlace'
    BY <2>1 DEF StepPlace, WithStep
  <2>3. LogEnd'
    BY <2>1 DEF EvidenceInv, LogEnd, Pending
  <2> QED  BY <2>1, <2>2, <2>3 DEF EvidenceInv
<1>7. CASE VerifyStillPresent
  <2>1. /\ UNCHANGED <<pre, fired>> /\ pc = "Verify" /\ pc' = "Dispatch" /\ current' = pre
        /\ step' = [step EXCEPT !.kind = "FiredUnverified"] /\ step \in Steps
    BY <1>7 DEF VerifyStillPresent, Verified, TypeInv, TypeOK
  <2>2. step'.kind = "FiredUnverified" /\ step'.task = step.task /\ step'.cmd = step.cmd
    BY <2>1 DEF Steps
  <2>3. StepPlace'
    BY <2>1, <2>2 DEF EvidenceInv, StepPlace, WithStep, Quietly
  <2>4. LogEnd'
    BY <2>1, <2>2 DEF EvidenceInv, LogEnd, Pending
  <2> QED  BY <2>1, <2>3, <2>4 DEF EvidenceInv
<1>8. CASE VerifyGone
  <2>1. UNCHANGED <<pre, fired, current, step>> /\ pc = "Verify" /\ pc' = "Dispatch"
    BY <1>8 DEF VerifyGone, Verified
  <2>2. StepPlace'
    BY <2>1 DEF EvidenceInv, StepPlace, WithStep
  <2>3. LogEnd'
    BY <2>1 DEF EvidenceInv, StepPlace, LogEnd, Pending
  <2> QED  BY <2>1, <2>2, <2>3 DEF EvidenceInv
<1>9. CASE Cancel \/ Tick \/ UNCHANGED vars
  <2>1. UNCHANGED <<pc, current, pre, step, fired, outcome>>
    BY <1>9 DEF Cancel, Tick, vars, loopVars
  <2> QED
    BY <2>1 DEF EvidenceInv, StepPlace, LogEnd, WithStep, Pending
<1> QED  BY <1>1, <1>2, <1>3, <1>4, <1>5, <1>6, <1>7, <1>8, <1>9

LEMMA SendKeeps ==
  ASSUME TypeInv, EvidenceInv, Times, ExecuteOk, Note("sent", step.task)
  PROVE  EvidenceInv'
<1>1. /\ UNCHANGED <<current, pre, step, fired>> /\ pc = "Execute" /\ pc' \in {"Verify", "Dispatch"}
      /\ (pc' = "Verify" => step.kind = "Fired")
      /\ log \in Seq(Entries) /\ fired \in Seq(Tasks) /\ now \in Nat /\ step.task \in Tasks \cup {None}
  BY DEF ExecuteOk, TypeInv, TypeOK, Steps, Times
<1>2. PICK e \in Entries : log' = Append(log, e) /\ e.ev = "sent" /\ e.task = step.task
  BY <1>1, EntryType DEF Note
<1>3. step.cmd /\ step.kind \in {"Fired", "WatchFired"} /\ ~EndsWith(log, "sent")
  BY <1>1 DEF EvidenceInv, StepPlace, LogEnd, Pending
<1>4. EndsWith(log', "sent") /\ ~EndsWith(log', "unseen") /\ log'[Len(log')] = e
  BY <1>1, <1>2 DEF EndsWith
<1>5. StepPlace'
  BY <1>1, <1>3 DEF EvidenceInv, StepPlace, WithStep
<1>6. LogEnd'
  BY <1>1, <1>2, <1>3, <1>4 DEF LogEnd, Pending
<1>7. Tells(fired, log')
  BY <1>1, <1>2, <1>3, TellsSame DEF EvidenceInv
<1> QED  BY <1>1, <1>5, <1>6, <1>7 DEF EvidenceInv

LEMMA UnseenKeeps ==
  ASSUME TypeInv, EvidenceInv, Times, VerifyCaptureFails, Note("unseen", pre)
  PROVE  EvidenceInv'
<1>1. /\ UNCHANGED <<current, pre, fired>> /\ pc = "Verify" /\ pc' = "Dispatch"
      /\ step'.kind = "VerifyCapture" /\ ~step'.cmd
      /\ log \in Seq(Entries) /\ fired \in Seq(Tasks) /\ now \in Nat /\ pre \in Tasks
  BY PlainType DEF VerifyCaptureFails, Verified, TypeInv, TypeOK, Times, StepKinds
<1>2. PICK e \in Entries : log' = Append(log, e) /\ e.ev = "unseen"
  BY <1>1, EntryType DEF Note
<1>3. current = Moved(pre)
  BY <1>1 DEF EvidenceInv, StepPlace, WithStep
<1>4. EndsWith(log', "unseen") /\ ~EndsWith(log', "sent")
  BY <1>1, <1>2 DEF EndsWith
<1>5. StepPlace'
  BY <1>1, <1>3 DEF StepPlace, WithStep
<1>6. LogEnd'
  BY <1>1, <1>4 DEF LogEnd, Pending
<1>7. Tells(fired, log')
  BY <1>1, <1>2, TellsSame DEF EvidenceInv
<1> QED  BY <1>1, <1>5, <1>6, <1>7 DEF EvidenceInv

LEMMA RestartPlace ==
  ASSUME TypeInv, EvidenceInv, Times, HookSucceeds, Note("restart", None)
  PROVE  EvidenceInv'
<1>1. /\ UNCHANGED <<current, fired>> /\ pc = "Recover" /\ pc' = "Sleep"
      /\ log \in Seq(Entries) /\ fired \in Seq(Tasks) /\ now \in Nat
  BY DEF HookSucceeds, HookReturns, Continue, TypeInv, TypeOK, Times
<1>2. PICK e \in Entries : log' = Append(log, e) /\ e.ev = "restart"
  BY <1>1, EntryType DEF Note
<1>3. ~EndsWith(log', "unseen") /\ ~EndsWith(log', "sent")
  BY <1>1, <1>2 DEF EndsWith
<1>4. StepPlace' /\ LogEnd'
  BY <1>1, <1>3 DEF StepPlace, LogEnd, WithStep, Pending
<1>5. Tells(fired, log')
  BY <1>1, <1>2, TellsSame DEF EvidenceInv, LogEnd, Pending
<1>6. Positioned(current, log')
  BY <1>1, <1>2, PositionSame DEF EvidenceInv
<1> QED  BY <1>1, <1>4, <1>5, <1>6 DEF EvidenceInv

\* A step is handled: what is common to its kinds.
LEMMA HandledPlace ==
  ASSUME TypeInv, EvidenceInv, Times, pc = "Dispatch",
         NEW ev \in {"match", "watch", "miss", "error"}, Handled(ev),
         UNCHANGED <<current, pre>>, fired' = FiredAfter,
         pc' \in {"Sleep", "Recover", "Done"}, pc' = "Done" => outcome'.fired = fired',
         pc' # "Done" =>
           current = IF ev = "match" \/ EndsWith(log, "unseen") THEN Moved(pre) ELSE pre
  PROVE  EvidenceInv'
<1>1. /\ log \in Seq(Entries) /\ fired \in Seq(Tasks) /\ now \in Nat /\ pre \in Tasks
      /\ (step.cmd => step.task \in Tasks) /\ step.cmd \in BOOLEAN
  BY DEF TypeInv, TypeOK, StepNamesTask, Steps, Times
<1>2. PICK e \in Entries : e = Entry(ev, pre) /\ e.ev = ev /\ e.task = pre
  BY <1>1, EntryType
<1>3. PICK h \in Entries : h = Entry("hook", None) /\ h.ev = "hook"
  BY <1>1, EntryType
<1> DEFINE told == Append(log, e)
<1>4. told \in Seq(Entries) /\ ~EndsWith(told, "sent") /\ ~EndsWith(told, "unseen")
  BY <1>1, <1>2 DEF EndsWith
<1>5. log' = told \/ log' = Append(told, h)
  BY <1>2, <1>3 DEF Handled
<1>6. fired' \in Seq(Tasks) /\ Tells(fired', told)
  <2>1. EndsWith(log, "sent") <=> step.cmd
    BY <1>1 DEF EvidenceInv, LogEnd, Pending
  <2>2. CASE step.cmd
    <3>1. log[Len(log)].task = step.task /\ fired' = Append(fired, step.task)
      BY <2>2 DEF EvidenceInv, LogEnd, Pending, FiredAfter
    <3>2. Tells(Append(fired, step.task), Append(log, e))
      BY <1>1, <1>2, <2>1, <2>2, <3>1, TellsFired DEF EvidenceInv
    <3> QED  BY <1>1, <2>2, <3>1, <3>2
  <2>3. CASE ~step.cmd
    BY <1>1, <2>1, <2>3, TellsSame DEF EvidenceInv, FiredAfter
  <2> QED  BY <2>2, <2>3
<1>7. pc' # "Done" => Positioned(current', told)
  BY <1>1, <1>2, PositionNew
<1> HIDE DEF told
<1>8. Tells(fired', log')
  BY <1>3, <1>4, <1>5, <1>6, TellsSame
<1>9. pc' # "Done" => Positioned(current', log')
  BY <1>3, <1>4, <1>5, <1>7, PositionSame
<1>10. ~EndsWith(log', "sent") /\ ~EndsWith(log', "unseen")
  <2>1. ~EndsWith(Append(told, h), "sent") /\ ~EndsWith(Append(told, h), "unseen")
    BY <1>3, <1>4 DEF EndsWith
  <2> QED  BY <1>4, <1>5, <2>1
<1>11. StepPlace' /\ LogEnd'
  BY <1>10 DEF StepPlace, LogEnd, WithStep, Pending
<1> QED  BY <1>8, <1>9, <1>11 DEF EvidenceInv

LEMMA RunRecoveryEnds ==
  ASSUME NEW g, RunRecovery(g)
  PROVE  pc' \in {"Recover", "Done"} /\ (pc' = "Done" => outcome'.fired = fired')
  BY DEF RunRecovery, Finish, Outcome

LEMMA NoMatchEnds ==
  ASSUME NoMatchBody
  PROVE  pc' \in {"Sleep", "Recover", "Done"} /\ (pc' = "Done" => outcome'.fired = fired')
<1> DEFINE g == IF RecoveryEnabled THEN RecordMiss(guard) ELSE guard
<1>1. \/ Finish(GoalReason(GoalStatus(None)), iterations)
      \/ RunRecovery(g)
      \/ Continue
  BY DEF NoMatchBody, EvalGoalStop
<1> HIDE DEF g
<1>2. CASE Finish(GoalReason(GoalStatus(None)), iterations)
  BY <1>2 DEF Finish, Outcome
<1>3. CASE RunRecovery(g)
  BY <1>3, RunRecoveryEnds
<1>4. CASE Continue
  BY <1>4 DEF Continue
<1> QED  BY <1>1, <1>2, <1>3, <1>4

LEMMA HandledKeeps ==
  ASSUME TypeInv, EvidenceInv, Times,
         \/ StepMatched /\ Handled("match")
         \/ StepWatchFired /\ Handled("watch")
         \/ (StepNoMatch \/ StepFiredUnverified) /\ Handled("miss")
         \/ StepError /\ Handled("error")
  PROVE  EvidenceInv'
<1>0. /\ pc = "Dispatch" => (EndsWith(log, "unseen") <=> step.kind = "VerifyCapture")
      /\ pc = "Dispatch" => StepPlace /\ WithStep
      /\ current \in Tasks /\ pre \in Tasks
  BY DEF EvidenceInv, LogEnd, WithStep, TypeInv, TypeOK
<1>1. CASE StepMatched /\ Handled("match")
  <2>1. /\ pc = "Dispatch" /\ UNCHANGED <<current, pre>> /\ fired' = FiredAfter
        /\ step.kind \in {"Fired", "NoFire"}
    BY <1>1 DEF StepMatched, Dispatching
  <2>2. \/ Finish(GoalReason(GoalStatus(lastMatch)), iterations)
        \/ Finish(IF step.kind = "Fired" THEN "TerminalTask" ELSE "Stop", iterations)
        \/ Continue
    BY <1>1 DEF StepMatched, EvalGoalStop
  <2>3. pc' \in {"Sleep", "Recover", "Done"} /\ (pc' = "Done" => outcome'.fired = fired')
    BY <2>2 DEF Finish, Outcome, Continue
  <2>4. current = Moved(pre)
    BY <1>0, <2>1 DEF StepPlace
  <2> QED  BY <1>1, <2>1, <2>3, <2>4, HandledPlace
<1>2. CASE StepWatchFired /\ Handled("watch")
  <2>1. /\ pc = "Dispatch" /\ UNCHANGED <<current, pre>> /\ fired' = FiredAfter
        /\ step.kind = "WatchFired" /\ pc' = "Sleep"
    BY <1>2 DEF StepWatchFired, Dispatching, Continue
  <2>2. current = pre /\ ~EndsWith(log, "unseen")
    BY <1>0, <2>1 DEF StepPlace
  <2> QED  BY <1>2, <2>1, <2>2, HandledPlace
<1>3. CASE StepNoMatch /\ Handled("miss")
  <2>1. /\ pc = "Dispatch" /\ UNCHANGED <<current, pre>> /\ fired' = fired
        /\ step.kind = "NoMatch"
    BY <1>3 DEF StepNoMatch, Dispatching
  <2>2. current = pre /\ ~EndsWith(log, "unseen") /\ ~step.cmd
    BY <1>0, <2>1 DEF StepPlace, Quietly
  <2>3. pc' \in {"Sleep", "Recover", "Done"} /\ (pc' = "Done" => outcome'.fired = fired')
    BY <1>3, NoMatchEnds DEF StepNoMatch
  <2>4. fired' = FiredAfter
    BY <2>1, <2>2 DEF FiredAfter
  <2> QED  BY <1>3, <2>1, <2>2, <2>3, <2>4, HandledPlace
<1>4. CASE StepFiredUnverified /\ Handled("miss")
  <2>1. /\ pc = "Dispatch" /\ UNCHANGED <<current, pre>> /\ fired' = FiredAfter
        /\ step.kind = "FiredUnverified"
    BY <1>4 DEF StepFiredUnverified, Dispatching
  <2>2. current = pre /\ ~EndsWith(log, "unseen")
    BY <1>0, <2>1 DEF StepPlace
  <2>3. pc' \in {"Sleep", "Recover", "Done"} /\ (pc' = "Done" => outcome'.fired = fired')
    BY <1>4, NoMatchEnds DEF StepFiredUnverified
  <2> QED  BY <1>4, <2>1, <2>2, <2>3, HandledPlace
<1>5. CASE StepError /\ Handled("error")
  <2>1. /\ pc = "Dispatch" /\ UNCHANGED <<current, pre>> /\ fired' = fired
        /\ step.kind \in {"Capture", "VerifyCapture", "ExecuteError", "Other"}
    BY <1>5 DEF StepError, Dispatching
  <2>2. ~step.cmd
    BY <1>0, <2>1 DEF StepPlace, Quietly
  <2>3. \/ Finish("ExecuteError", iterations - 1)
        \/ step.kind \in RecoverableErrors /\ Continue
        \/ step.kind \in RecoverableErrors /\ RunRecovery(guard)
        \/ Finish("CaptureError", iterations - 1)
    BY <1>5 DEF StepError
  <2>4. /\ pc' \in {"Sleep", "Recover", "Done"} /\ (pc' = "Done" => outcome'.fired = fired')
        /\ pc' # "Done" => step.kind \in RecoverableErrors
    <3>1. CASE Finish("ExecuteError", iterations - 1) \/ Finish("CaptureError", iterations - 1)
      BY <3>1 DEF Finish, Outcome
    <3>2. CASE step.kind \in RecoverableErrors /\ Continue
      BY <3>2 DEF Continue
    <3>3. CASE step.kind \in RecoverableErrors /\ RunRecovery(guard)
      BY <3>3, RunRecoveryEnds
    <3> QED  BY <2>3, <3>1, <3>2, <3>3
  <2>5. pc' # "Done" => current = IF EndsWith(log, "unseen") THEN Moved(pre) ELSE pre
    BY <1>0, <2>1, <2>4 DEF StepPlace, RecoverableErrors
  <2>6. fired' = FiredAfter
    BY <2>1, <2>2 DEF FiredAfter
  <2> QED  BY <1>5, <2>1, <2>4, <2>5, <2>6, HandledPlace
<1> QED  BY <1>1, <1>2, <1>3, <1>4, <1>5

LEMMA NextEvidence == TypeInv /\ Times /\ EvidenceInv /\ [HNext]_hvars => EvidenceInv'
<1> SUFFICES ASSUME TypeInv, Times, EvidenceInv, [HNext]_hvars PROVE EvidenceInv'
  OBVIOUS
<1>1. CASE UNCHANGED hvars
  BY <1>1, QuietPlace DEF hvars
<1>2. CASE /\ \/ LoopInterrupted \/ LoopLimit \/ LoopBegin \/ Wake \/ CaptureFails
              \/ WatchMatches \/ TaskAbsent \/ DetectFails \/ TaskMatches \/ ExecuteFails
              \/ VerifyStillPresent \/ VerifyGone \/ HookFails \/ Cancel \/ Tick
           /\ Quiet
  BY <1>2, QuietPlace DEF Quiet
<1>3. CASE ExecuteOk /\ Note("sent", step.task)
  BY <1>3, SendKeeps
<1>4. CASE VerifyCaptureFails /\ Note("unseen", pre)
  BY <1>4, UnseenKeeps
<1>5. CASE \/ StepMatched /\ Handled("match")
           \/ StepWatchFired /\ Handled("watch")
           \/ (StepNoMatch \/ StepFiredUnverified) /\ Handled("miss")
           \/ StepError /\ Handled("error")
  BY <1>5, HandledKeeps
<1>6. CASE HookSucceeds /\ Note("restart", None)
  BY <1>6, RestartPlace
<1> QED  BY <1>1, <1>2, <1>3, <1>4, <1>5, <1>6 DEF HNext

\* In every run, whatever the game shows and however commands and looks fail, the
\* log ends as the step at hand says, the commands told so far are those that were
\* sent, and between two steps the position is the one the last handled step left.
THEOREM EvidenceInvariant == HSpec => [](TypeInv /\ RecoveryInv /\ EvidenceInv)
<1>1. HInit => EvidenceInv
  BY InitEvidence
<1>2. TypeInv /\ RecoveryInv /\ EvidenceInv /\ [HNext]_hvars => EvidenceInv'
  BY NextEvidence DEF RecoveryInv
<1> QED  BY <1>1, <1>2, RecoveryInvariant, PTL DEF HSpec

\* US-CLI-12: the position of the pipeline between two steps (PipelineState::tick
\* and its roll-back) is always the one the last handled step's evidence allows.
THEOREM PositionCorrect == HSpec => []PositionFollowsEvidence
<1>1. ASSUME RecoveryInv, EvidenceInv PROVE PositionFollowsEvidence
  <2> SUFFICES ASSUME pc \in {"Sleep", "Top"}, Handlings # {}
               PROVE  current = PositionAfter(log, Max(Handlings))
    BY DEF PositionFollowsEvidence, PositionAfter, Moved
  <2>1. Handlings = HandledIn(log) /\ Handlings \subseteq Nat
    BY <1>1 DEF Handlings, HandledIn, Events, RecoveryInv, Times
  <2>2. PICK i \in Handlings : (\A j \in Handlings : j <= i) /\ current = PositionAfter(log, i)
    BY <1>1, <2>1 DEF EvidenceInv, Positioned
  <2>3. Max(Handlings) = i
    <3>1. \A k \in Handlings : (\A j \in Handlings : k >= j) => k = i
      BY <2>1, <2>2
    <3>2. \E k \in Handlings : \A j \in Handlings : k >= j
      BY <2>1, <2>2
    <3> QED  BY <3>1, <3>2 DEF Max
  <2> QED  BY <2>2, <2>3
<1> QED  BY <1>1, EvidenceInvariant, PTL

\* The commands of the report (PipelineOutcome::fired_commands) are those that
\* reached the game, in their order, without the ones that were not looked at.
THEOREM CommandsCorrect == HSpec => []ReportTellsCommands
<1>1. ASSUME RecoveryInv, EvidenceInv PROVE ReportTellsCommands
  <2> SUFFICES ASSUME pc = "Done"
               PROVE  \E pos \in [DOMAIN outcome.fired -> Told] :
                        /\ Told = {pos[k] : k \in DOMAIN pos}
                        /\ \A k \in DOMAIN pos :
                             /\ outcome.fired[k] = log[pos[k]].task
                             /\ \A m \in DOMAIN pos : m < k => pos[m] < pos[k]
    BY DEF ReportTellsCommands
  <2>1. outcome.fired = fired /\ Tells(fired, log) /\ ~EndsWith(log, "sent")
    BY <1>1 DEF EvidenceInv, LogEnd, Pending
  <2>2. PICK n \in Nat : n = Len(log) /\ DOMAIN log = 1..n
    BY <1>1 DEF RecoveryInv, Times
  <2>3. Told = SentIn(log)
    <3>1. \A i \in 1..n : log[i].ev = "sent" => i < n
      <4>1. \A i \in 1..n : i = n \/ i < n
        OBVIOUS
      <4> QED  BY <2>1, <2>2, <4>1 DEF EndsWith
    <3> QED  BY <2>2, <3>1 DEF Told, SentIn, Events, Here
  <2>4. PICK pos \in [DOMAIN fired -> SentIn(log)] :
          /\ SentIn(log) = {pos[k] : k \in DOMAIN fired}
          /\ \A k \in DOMAIN fired : /\ fired[k] = log[pos[k]].task
                                     /\ \A m \in DOMAIN fired : m < k => pos[m] < pos[k]
    BY <2>1 DEF Tells
  <2>5. DOMAIN pos = DOMAIN fired
    BY <2>4
  <2> QED  BY <2>1, <2>3, <2>4, <2>5
<1> QED  BY <1>1, EvidenceInvariant, PTL

\* The driver with its log is a run of the driver: what is proved of the driver
\* holds while it is watched.
THEOREM HistoryIsDriver == HSpec => Spec
  BY HistoryOnlyWatches, PTL DEF HSpec, HInit, Spec

-----------------------------------------------------------------------------
(* What the goals of the manifest decide *)

\* The lemmas about trees, for the goal of the run.  They are about its value
\* only: none of them says anything of the variables of a GoalRun.
Tree == INSTANCE GoalRunProofs WITH
  NoMatchYet <- None,
  TaskNames <- Tasks,
  Candidates <- {RunGoal},
  StepMatches <- Matches \cup {None},
  MaxSteps <- MaxIterations,
  MaxElapsed <- MaxTime,
  goal <- RunGoal,
  ctx <- goalCtx,
  elapsed <- now,
  status <- "NotYet",
  seen <- <<>>,
  evaluatedAt <- now

LEMMA SameTrees ==
  /\ Tree!StopConditions = GoalEval!StopConditions
  /\ Tree!LeafConditions(Tasks) = GoalEval!LeafConditions(Tasks)
  /\ \A c : Tree!IsComposition(c) = GoalEval!IsComposition(c)
BY DEF Tree!StopConditions, GoalEval!StopConditions, Tree!Trees, GoalEval!Trees,
       Tree!LeafConditions, GoalEval!LeafConditions, Tree!Compositions, GoalEval!Compositions,
       Tree!IsComposition, GoalEval!IsComposition

LEMMA SameEvaluation ==
  /\ \A c, x, e : Tree!LeafStatus(c, x, e) = GoalEval!LeafStatus(c, x, e)
  /\ \A c, x, e : Tree!EvaluateGoal(c, x, e) = GoalEval!EvaluateGoal(c, x, e)
BY DEF Tree!EvaluateGoal, GoalEval!EvaluateGoal, Tree!Statuses, GoalEval!Statuses,
       Tree!StopConditions, GoalEval!StopConditions, Tree!Trees, GoalEval!Trees,
       Tree!LeafConditions, GoalEval!LeafConditions, Tree!Compositions, GoalEval!Compositions,
       Tree!IsComposition, GoalEval!IsComposition, Tree!LeafStatus, GoalEval!LeafStatus,
       Tree!TimedOut, GoalEval!TimedOut, Tree!EvaluateAny, GoalEval!EvaluateAny,
       Tree!EvaluateAllInOrder, GoalEval!EvaluateAllInOrder, Tree!Min, GoalEval!Min,
       Tree!Range, GoalEval!Range

LEMMA SameTreeReading ==
  /\ Tree!Decisive = GoalEval!Decisive
  /\ \A leaves : Tree!MetBy(leaves) = GoalEval!MetBy(leaves)
<1>1. Tree!Decisive = GoalEval!Decisive
  BY DEF Tree!Decisive, GoalEval!Decisive, Tree!Deciding, GoalEval!Deciding,
       Tree!StopConditions, GoalEval!StopConditions, Tree!Trees, GoalEval!Trees,
       Tree!LeafConditions, GoalEval!LeafConditions, Tree!Compositions, GoalEval!Compositions,
       Tree!IsComposition, GoalEval!IsComposition
<1>2. ASSUME NEW leaves PROVE Tree!MetBy(leaves) = GoalEval!MetBy(leaves)
  BY DEF Tree!MetBy, GoalEval!MetBy,
       Tree!StopConditions, GoalEval!StopConditions, Tree!Trees, GoalEval!Trees,
       Tree!LeafConditions, GoalEval!LeafConditions, Tree!Compositions, GoalEval!Compositions,
       Tree!IsComposition, GoalEval!IsComposition
<1> QED  BY <1>1, <1>2

LEMMA LimitsOfGoals ==
  \A s \in TimeLimits : s \in Nat
<1> SUFFICES ASSUME NEW d \in GoalEval!Decisive[RunGoal], d.kind = "Timeout"
             PROVE  d.secs \in Nat
  BY DEF TimeLimits
<1>1. d \in Tree!StopConditions /\ RunGoal \in Tree!StopConditions
  BY Tree!DecisiveEquation, SameTrees, SameTreeReading, GoalsAssumption
<1>2. d \in GoalEval!LeafConditions(Tasks)
  BY <1>1, Tree!LeafShape, SameTrees, GoalsAssumption DEF GoalEval!IsComposition
<1> QED  BY <1>2 DEF GoalEval!LeafConditions

\* What the goal decides: it fails past a time limit that decides it, and is
\* reached only when the leaves meet it that are reached.
LEMMA Decided ==
  ASSUME NEW c, NEW t \in Nat
  PROVE  /\ EvaluateStop(c, t) \in {"Reached", "Failed", "NotYet"}
         /\ (\E s \in TimeLimits : t >= s) => EvaluateStop(c, t) = "Failed"
<1>1. RunGoal \in Tree!StopConditions /\ EvaluateStop(c, t) = Tree!EvaluateGoal(RunGoal, c, t)
  BY SameTrees, SameEvaluation, GoalsAssumption DEF EvaluateStop
<1>2. EvaluateStop(c, t) \in {"Reached", "Failed", "NotYet"}
  BY <1>1, Tree!StatusesEquation, GoalsAssumption DEF Tree!EvaluateGoal, Tree!GoalStatuses
<1>3. ASSUME NEW d \in GoalEval!Decisive[RunGoal], d.kind = "Timeout", t >= d.secs
      PROVE  EvaluateStop(c, t) = "Failed"
  <2>1. d \in Tree!Decisive[RunGoal] /\ Tree!TimedOut(d.secs, t)
    BY <1>3, SameTreeReading DEF Tree!TimedOut
  <2> QED  BY <1>1, <1>3, <2>1, Tree!LimitFails, GoalsAssumption
<1> QED  BY <1>2, <1>3 DEF TimeLimits

LEMMA ReachedByLeaves ==
  ASSUME NEW c, NEW t, EvaluateStop(c, t) = "Reached", NEW leaves,
         \A d \in GoalEval!LeafConditions(Tasks) :
           GoalEval!LeafStatus(d, c, t) = "Reached" => d \in leaves
  PROVE  GoalEval!MetBy(leaves)[RunGoal]
<1>1. RunGoal \in Tree!StopConditions /\ Tree!EvaluateGoal(RunGoal, c, t) = "Reached"
  BY SameTrees, SameEvaluation, GoalsAssumption DEF EvaluateStop
<1>2. \A d \in Tree!LeafConditions(Tasks) : Tree!LeafStatus(d, c, t) = "Reached" => d \in leaves
  BY SameTrees, SameEvaluation
<1>3. Tree!MetBy(leaves)[RunGoal]
  BY <1>1, <1>2, Tree!ReachedIsMet, GoalsAssumption
<1> QED  BY <1>3, SameTreeReading

-----------------------------------------------------------------------------
(* What the context of a goal knows of a log *)

EvaluatedIn(l) == {i \in DOMAIN l : l[i].ev \in {"match", "miss"}}

MatchedIn(l) == {i \in DOMAIN l : l[i].ev = "match"}

IsLastMatch(i, l) == i \in MatchedIn(l) /\ \A j \in MatchedIn(l) : j <= i

Knows(c, l) ==
  /\ c.iterations = Cardinality(EvaluatedIn(l))
  /\ c.lastMatch # None => \E i : IsLastMatch(i, l) /\ l[i].task = c.lastMatch.task
  /\ \A i \in MatchedIn(l) : ~(i > 1 /\ l[i - 1].ev = "unseen")

LEMMA ReadingGrows ==
  ASSUME NEW l \in Seq(Entries), NEW e \in Entries, NEW n \in Nat, n = Len(l)
  PROVE  LET m == Append(l, e) IN
         /\ EvaluatedIn(m) = IF e.ev \in {"match", "miss"} THEN EvaluatedIn(l) \cup {n + 1}
                             ELSE EvaluatedIn(l)
         /\ MatchedIn(m) = IF e.ev = "match" THEN MatchedIn(l) \cup {n + 1} ELSE MatchedIn(l)
         /\ MatchedIn(l) \subseteq 1..n
         /\ Within(EvaluatedIn(l), n)
<1> DEFINE m == Append(l, e)
<1>1. /\ DOMAIN l = 1..n /\ DOMAIN m = 1..(n + 1)
      /\ (\A k \in 1..n : m[k] = l[k]) /\ m[n + 1] = e
  BY Appending
<1>2. IsFiniteSet(EvaluatedIn(l))
  <2>1. IsFiniteSet(1..n)
    BY FS_Interval
  <2>2. EvaluatedIn(l) \subseteq 1..n
    BY <1>1 DEF EvaluatedIn
  <2> QED  BY <2>1, <2>2, FS_Subset
<1> HIDE DEF m
<1>3. \A i \in 1..(n + 1) : i \in 1..n \/ i = n + 1
  OBVIOUS
<1>4. n + 1 \notin 1..n /\ n + 1 \in 1..(n + 1) /\ \A i \in 1..n : i \in 1..(n + 1)
  OBVIOUS
<1>5. EvaluatedIn(m) = IF e.ev \in {"match", "miss"} THEN EvaluatedIn(l) \cup {n + 1}
                       ELSE EvaluatedIn(l)
  BY <1>1, <1>3, <1>4 DEF EvaluatedIn
<1>6. MatchedIn(m) = IF e.ev = "match" THEN MatchedIn(l) \cup {n + 1} ELSE MatchedIn(l)
  BY <1>1, <1>3, <1>4 DEF MatchedIn
<1>7. MatchedIn(l) \subseteq 1..n /\ EvaluatedIn(l) \subseteq 1..n
  BY <1>1 DEF MatchedIn, EvaluatedIn
<1> QED  BY <1>2, <1>4, <1>5, <1>6, <1>7 DEF m, Within

\* An entry that is no match leaves what is said of the matches.
LEMMA MatchesKept ==
  ASSUME NEW l \in Seq(Entries), NEW e \in Entries, e.ev # "match"
  PROVE  /\ \A i : IsLastMatch(i, l) <=> IsLastMatch(i, Append(l, e))
         /\ MatchedIn(Append(l, e)) = MatchedIn(l)
         /\ \A i \in MatchedIn(l) : /\ Append(l, e)[i] = l[i]
                                    /\ i > 1 => Append(l, e)[i - 1] = l[i - 1]
<1> DEFINE m == Append(l, e)
<1>0. PICK n \in Nat : n = Len(l)
  OBVIOUS
<1>1. MatchedIn(m) = MatchedIn(l) /\ MatchedIn(l) \subseteq 1..n
  BY <1>0, ReadingGrows
<1>2. \A i \in 1..n : i > 1 => i - 1 \in 1..n
  OBVIOUS
<1>3. \A i \in 1..n : m[i] = l[i]
  BY <1>0, Appending
<1> HIDE DEF m
<1> QED  BY <1>1, <1>2, <1>3 DEF IsLastMatch, m

LEMMA KnowsOther ==
  ASSUME NEW l \in Seq(Entries), NEW e \in Entries, NEW c, Knows(c, l),
         e.ev \notin {"match", "miss"}
  PROVE  Knows(c, Append(l, e))
<1> DEFINE m == Append(l, e)
<1>0. PICK n \in Nat : n = Len(l)
  OBVIOUS
<1>1. EvaluatedIn(m) = EvaluatedIn(l)
  BY <1>0, ReadingGrows
<1>2. /\ \A i : IsLastMatch(i, l) <=> IsLastMatch(i, m)
      /\ MatchedIn(m) = MatchedIn(l)
      /\ \A i \in MatchedIn(l) : m[i] = l[i] /\ (i > 1 => m[i - 1] = l[i - 1])
  BY MatchesKept
<1> HIDE DEF m
<1>3. c.lastMatch # None => \E i : IsLastMatch(i, m) /\ m[i].task = c.lastMatch.task
  <2> SUFFICES ASSUME c.lastMatch # None
               PROVE  \E i : IsLastMatch(i, m) /\ m[i].task = c.lastMatch.task
    OBVIOUS
  <2>1. PICK i : IsLastMatch(i, l) /\ l[i].task = c.lastMatch.task
    BY DEF Knows
  <2>2. i \in MatchedIn(l)
    BY <2>1 DEF IsLastMatch
  <2> QED  BY <1>2, <2>1, <2>2
<1>4. Knows(c, m)
  BY <1>1, <1>2, <1>3 DEF Knows
<1> QED  BY <1>4 DEF m

LEMMA EvaluatedCount ==
  ASSUME NEW l \in Seq(Entries), NEW e \in Entries, e.ev \in {"match", "miss"}
  PROVE  Cardinality(EvaluatedIn(Append(l, e))) = Cardinality(EvaluatedIn(l)) + 1
<1>0. PICK n \in Nat : n = Len(l)
  OBVIOUS
<1>1. EvaluatedIn(Append(l, e)) = EvaluatedIn(l) \cup {n + 1} /\ Within(EvaluatedIn(l), n)
  BY <1>0, ReadingGrows
<1>2. IsFiniteSet(EvaluatedIn(l)) /\ n + 1 \notin EvaluatedIn(l)
  BY <1>1 DEF Within
<1> QED  BY <1>1, <1>2, FS_AddElement

\* A step without a match is counted and changes no more.
LEMMA KnowsMiss ==
  ASSUME NEW l \in Seq(Entries), NEW e \in Entries, NEW c, Knows(c, l), e.ev = "miss"
  PROVE  Knows([iterations |-> c.iterations + 1, lastMatch |-> c.lastMatch], Append(l, e))
<1> DEFINE m == Append(l, e)
           d == [iterations |-> c.iterations + 1, lastMatch |-> c.lastMatch]
<1>1. /\ \A i : IsLastMatch(i, l) <=> IsLastMatch(i, m)
      /\ MatchedIn(m) = MatchedIn(l)
      /\ \A i \in MatchedIn(l) : m[i] = l[i] /\ (i > 1 => m[i - 1] = l[i - 1])
  BY MatchesKept
<1>2. d.iterations = Cardinality(EvaluatedIn(m)) /\ d.lastMatch = c.lastMatch
  BY EvaluatedCount DEF Knows
<1> HIDE DEF m, d
<1>3. d.lastMatch # None => \E i : IsLastMatch(i, m) /\ m[i].task = d.lastMatch.task
  <2> SUFFICES ASSUME c.lastMatch # None
               PROVE  \E i : IsLastMatch(i, m) /\ m[i].task = c.lastMatch.task
    BY <1>2
  <2>1. PICK i : IsLastMatch(i, l) /\ l[i].task = c.lastMatch.task
    BY DEF Knows
  <2>2. i \in MatchedIn(l)
    BY <2>1 DEF IsLastMatch
  <2> QED  BY <1>1, <2>1, <2>2
<1>4. \A i \in MatchedIn(m) : ~(i > 1 /\ m[i - 1].ev = "unseen")
  BY <1>1 DEF Knows
<1>5. Knows(d, m)
  BY <1>2, <1>3, <1>4 DEF Knows
<1> QED  BY <1>5 DEF m, d

\* A match is counted and is the last from now on.
LEMMA KnowsMatch ==
  ASSUME NEW l \in Seq(Entries), NEW e \in Entries, NEW c, Knows(c, l), e.ev = "match",
         ~EndsWith(l, "unseen"), NEW x, x.task = e.task
  PROVE  Knows([iterations |-> c.iterations + 1, lastMatch |-> x], Append(l, e))
<1> DEFINE m == Append(l, e)
           d == [iterations |-> c.iterations + 1, lastMatch |-> x]
<1>0. PICK n \in Nat : n = Len(l)
  OBVIOUS
<1>1. MatchedIn(m) = MatchedIn(l) \cup {n + 1} /\ MatchedIn(l) \subseteq 1..n
  BY <1>0, ReadingGrows
<1>2. (\A i \in 1..n : m[i] = l[i]) /\ m[n + 1] = e
  BY <1>0, Appending
<1>3. d.iterations = Cardinality(EvaluatedIn(m)) /\ d.lastMatch = x
  BY EvaluatedCount DEF Knows
<1> HIDE DEF m, d
<1>4. IsLastMatch(n + 1, m) /\ m[n + 1].task = x.task
  BY <1>1, <1>2 DEF IsLastMatch
<1>5. ASSUME NEW i \in MatchedIn(m)
      PROVE  ~(i > 1 /\ m[i - 1].ev = "unseen")
  <2>1. CASE i \in MatchedIn(l)
    <3>1. i > 1 => i - 1 \in 1..n
      BY <1>1, <2>1
    <3> QED  BY <1>2, <2>1, <3>1 DEF Knows
  <2>2. CASE i = n + 1
    <3>1. i > 1 => n > 0 /\ n \in 1..n /\ i - 1 = n
      BY <2>2
    <3> QED  BY <1>0, <1>2, <3>1 DEF EndsWith
  <2> QED  BY <1>1, <2>1, <2>2
<1>6. Knows(d, m)
  BY <1>1, <1>3, <1>4, <1>5 DEF Knows
<1> QED  BY <1>6 DEF m, d

-----------------------------------------------------------------------------
(* Time limits over a log *)

InTime(e) == \A s \in TimeLimits : e.at < s

HookInTime(l, i) == (i > 1 /\ l[i].ev = "hook" /\ l[i - 1].ev = "miss") => InTime(l[i])

EvaluatedInTime(l, i, ended) ==
  l[i].ev \in {"match", "miss"} => InTime(l[i]) \/ (i = Len(l) /\ ended)

LimitsKept(l, ended) == \A i \in DOMAIN l : HookInTime(l, i) /\ EvaluatedInTime(l, i, ended)

LEMMA LimitsEntry ==
  ASSUME NEW l \in Seq(Entries), NEW e \in Entries, LimitsKept(l, FALSE), NEW ended,
         e.ev \in {"match", "miss"} => InTime(e) \/ ended,
         e.ev = "hook" /\ EndsWith(l, "miss") => InTime(e)
  PROVE  LimitsKept(Append(l, e), ended)
<1> DEFINE m == Append(l, e)
<1>0. PICK n \in Nat : n = Len(l)
  OBVIOUS
<1>1. /\ Len(m) = n + 1 /\ DOMAIN l = 1..n /\ DOMAIN m = 1..(n + 1)
      /\ (\A k \in 1..n : m[k] = l[k]) /\ m[n + 1] = e
  BY <1>0, Appending
<1> HIDE DEF m
<1>2. ASSUME NEW i \in 1..n PROVE HookInTime(m, i) /\ EvaluatedInTime(m, i, ended)
  <2>1. HookInTime(l, i) /\ (l[i].ev \in {"match", "miss"} => InTime(l[i]))
    BY <1>1 DEF LimitsKept, EvaluatedInTime
  <2>2. i > 1 => i - 1 \in 1..n
    OBVIOUS
  <2> QED  BY <1>1, <2>1, <2>2 DEF HookInTime, EvaluatedInTime
<1>3. HookInTime(m, n + 1)
  <2>1. n + 1 > 1 => n > 0 /\ n \in 1..n /\ (n + 1) - 1 = n
    OBVIOUS
  <2> QED  BY <1>0, <1>1, <2>1 DEF HookInTime, EndsWith
<1>4. EvaluatedInTime(m, n + 1, ended)
  BY <1>1 DEF EvaluatedInTime
<1>5. \A i \in 1..(n + 1) : i \in 1..n \/ i = n + 1
  OBVIOUS
<1>6. LimitsKept(m, ended)
  BY <1>1, <1>2, <1>3, <1>4, <1>5 DEF LimitsKept
<1> QED  BY <1>6 DEF m

-----------------------------------------------------------------------------
(* The invariant of a driver that pursues its goals *)

\* The match the driver remembers is that of the step at hand.
FreshMatch ==
  WithStep /\ step.kind \in {"Fired", "NoFire"} => lastMatch # None /\ lastMatch.task = pre

TimeIsUp == pc = "Done" /\ outcome.reason = "GoalTimeout"

IsReached == EvaluateStop(goalCtx, now) = "Reached"

GoalInv ==
  /\ now <= MaxTime
  /\ goalCtx.iterations <= iterations
  /\ BeforeRecovery => goalCtx.iterations < iterations
  /\ FreshMatch /\ Knows(goalCtx, log) /\ LimitsKept(log, TimeIsUp)
  /\ (pc = "Done" /\ outcome.reason = "GoalReached") => IsReached

\* An end that no goal decided.
OtherEnd == pc = "Done" => outcome.reason \notin {"GoalReached", "GoalTimeout"}

LEMMA InitGoal == HInit => GoalInv
<1> SUFFICES ASSUME HInit PROVE GoalInv
  OBVIOUS
<1>1. /\ log = <<>> /\ DOMAIN log = {} /\ pc = "Top" /\ now = 0 /\ iterations = 0
      /\ goalCtx.iterations = 0 /\ goalCtx.lastMatch = None
  BY DEF HInit, Init
<1>2. EvaluatedIn(log) = {} /\ MatchedIn(log) = {}
  BY <1>1 DEF EvaluatedIn, MatchedIn
<1>3. Knows(goalCtx, log)
  BY <1>1, <1>2, FS_EmptySet DEF Knows
<1> QED
  BY <1>1, <1>3, ConstantsAssumption DEF GoalInv, LimitsKept, FreshMatch, WithStep, BeforeRecovery

\* The log and the context are left alone, or the log tells of no evaluation.
LEMMA AsideGoal ==
  ASSUME TypeInv, GoalInv, Times, pc # "Done", UNCHANGED goalCtx, now' <= MaxTime,
         \/ UNCHANGED log
         \/ \E e \in Entries : /\ log' = Append(log, e)
                               /\ e.ev \notin {"match", "miss", "hook"},
         iterations' = iterations \/ iterations' = iterations + 1,
         BeforeRecovery' => BeforeRecovery \/ iterations' = iterations + 1,
         FreshMatch', OtherEnd'
  PROVE  GoalInv'
<1>1. LimitsKept(log, FALSE) /\ log \in Seq(Entries)
  BY DEF GoalInv, TimeIsUp, Times
<1>2. ~TimeIsUp'
  BY DEF OtherEnd, TimeIsUp
<1>3. Knows(goalCtx, log') /\ LimitsKept(log', FALSE)
  <2>1. CASE UNCHANGED log
    BY <1>1, <2>1 DEF GoalInv
  <2>2. ASSUME NEW e \in Entries, log' = Append(log, e), e.ev \notin {"match", "miss", "hook"}
        PROVE  Knows(goalCtx, log') /\ LimitsKept(log', FALSE)
    <3>1. Knows(goalCtx, Append(log, e))
      BY <1>1, <2>2, KnowsOther DEF GoalInv
    <3>2. LimitsKept(Append(log, e), FALSE)
      BY <1>1, <2>2, LimitsEntry
    <3> QED  BY <2>2, <3>1, <3>2
  <2> QED  BY <2>1, <2>2
<1>4. Knows(goalCtx', log') /\ LimitsKept(log', TimeIsUp')
  BY <1>2, <1>3 DEF LimitsKept, EvaluatedInTime
<1>5. goalCtx'.iterations <= iterations' /\ (BeforeRecovery' => goalCtx'.iterations < iterations')
  BY DEF GoalInv, TypeInv, TypeOK
<1> QED  BY <1>4, <1>5 DEF GoalInv, OtherEnd

LEMMA QuietGoal ==
  ASSUME TypeInv, EvidenceInv, GoalInv, Times, UNCHANGED log,
         LoopInterrupted \/ LoopLimit \/ LoopBegin \/ Wake \/ CaptureFails \/ WatchMatches
           \/ TaskAbsent \/ DetectFails \/ TaskMatches \/ ExecuteFails
           \/ VerifyStillPresent \/ VerifyGone \/ HookFails \/ Cancel \/ Tick
  PROVE  GoalInv'
<1>0. now <= MaxTime /\ now \in Nat /\ FreshMatch /\ (pc = "Capture" => current = pre)
  BY DEF GoalInv, TypeInv, TypeOK, EvidenceInv, StepPlace
<1>1. CASE LoopInterrupted \/ LoopLimit \/ HookFails
  <2>1. /\ UNCHANGED <<goalCtx, now>> /\ pc \in {"Top", "Recover"} /\ pc' = "Done"
        /\ iterations' = iterations \/ iterations' = iterations + 1
        /\ outcome'.reason \in {"Interrupted", "MaxIterations", "ExecuteError"}
    BY <1>1 DEF LoopInterrupted, LoopLimit, HookFails, HookReturns, Finish, Outcome, loopVars
  <2> QED
    BY <1>0, <2>1, AsideGoal DEF FreshMatch, OtherEnd, BeforeRecovery, WithStep
<1>2. CASE LoopBegin \/ Wake
  <2>1. /\ UNCHANGED <<goalCtx, now>> /\ pc \in {"Top", "Sleep"} /\ pc' \in {"Capture", "Top"}
        /\ pc' = "Capture" => iterations' = iterations + 1
        /\ pc' = "Top" => iterations' = iterations
    BY <1>2 DEF LoopBegin, Wake, loopVars
  <2> QED
    BY <1>0, <2>1, AsideGoal DEF FreshMatch, OtherEnd, BeforeRecovery, WithStep
<1>3. CASE CaptureFails \/ WatchMatches \/ TaskAbsent \/ DetectFails \/ TaskMatches
           \/ ExecuteFails \/ VerifyStillPresent \/ VerifyGone
  <2>1. /\ UNCHANGED <<goalCtx, now, iterations>> /\ BeforeRecovery
        /\ pc # "Done" /\ pc' # "Done"
    BY <1>3 DEF CaptureFails, WatchMatches, TaskAbsent, DetectFails, TaskMatches, ExecuteFails,
         VerifyStillPresent, VerifyGone, Captured, Verified, BeforeRecovery
  <2>2. FreshMatch'
    <3>1. CASE CaptureFails \/ TaskAbsent \/ DetectFails \/ WatchMatches \/ ExecuteFails
      <4>1. step'.kind \notin {"Fired", "NoFire"}
        BY <3>1 DEF CaptureFails, TaskAbsent, DetectFails, WatchMatches, ExecuteFails, Captured,
             Plain, Step
      <4> QED  BY <4>1 DEF FreshMatch
    <3>2. CASE TaskMatches
      <4>1. \E c \in Confidences : lastMatch' = [task |-> current, confidence |-> c]
        BY <3>2 DEF TaskMatches
      <4>2. lastMatch' \in Matches /\ lastMatch'.task = current
        BY <4>1, <1>0 DEF Matches, TypeInv, TypeOK
      <4>3. pre' = pre /\ current = pre
        BY <3>2, <1>0 DEF TaskMatches, Captured
      <4>4. lastMatch' # None
        BY <4>2, ConstantsAssumption DEF Matches
      <4> QED  BY <4>2, <4>3, <4>4 DEF FreshMatch
    <3>3. CASE VerifyStillPresent
      <4>1. step'.kind = "FiredUnverified"
        BY <3>3 DEF VerifyStillPresent, Verified, TypeInv, TypeOK, Steps
      <4> QED  BY <4>1 DEF FreshMatch
    <3>4. CASE VerifyGone
      BY <1>0, <3>4 DEF VerifyGone, Verified, FreshMatch, WithStep
    <3> QED  BY <1>3, <3>1, <3>2, <3>3, <3>4
  <2> QED  BY <1>0, <2>1, <2>2, AsideGoal DEF OtherEnd
<1>4. CASE Cancel \/ Tick
  <2>1. /\ UNCHANGED <<goalCtx, iterations, pc, step, lastMatch, pre>> /\ pc # "Done"
        /\ now' <= MaxTime
    BY <1>0, <1>4, ConstantsAssumption DEF Cancel, Tick, loopVars
  <2> QED
    BY <1>0, <2>1, AsideGoal DEF FreshMatch, OtherEnd, BeforeRecovery, WithStep
<1> QED  BY <1>1, <1>2, <1>3, <1>4

\* A command sent, an effect that could not be looked at, a restart.
LEMMA NoteGoal ==
  ASSUME TypeInv, GoalInv, Times,
         \/ ExecuteOk /\ Note("sent", step.task)
         \/ VerifyCaptureFails /\ Note("unseen", pre)
         \/ HookSucceeds /\ Note("restart", None)
  PROVE  GoalInv'
<1>1. /\ now <= MaxTime /\ now \in Nat /\ FreshMatch /\ pre \in Tasks
      /\ step.task \in Tasks \cup {None}
  BY DEF GoalInv, TypeInv, TypeOK, Steps
<1>2. /\ UNCHANGED <<goalCtx, now, iterations>> /\ pc # "Done" /\ pc' # "Done"
      /\ BeforeRecovery' => BeforeRecovery
  BY DEF ExecuteOk, VerifyCaptureFails, HookSucceeds, HookReturns, Continue, Verified,
       BeforeRecovery
<1>3. \E e \in Entries : log' = Append(log, e) /\ e.ev \notin {"match", "miss", "hook"}
  <2>1. CASE Note("sent", step.task)
    BY <1>1, <2>1, EntryType DEF Note
  <2>2. CASE Note("unseen", pre)
    BY <1>1, <2>2, EntryType DEF Note
  <2>3. CASE Note("restart", None)
    BY <1>1, <2>3, EntryType DEF Note
  <2> QED  BY <2>1, <2>2, <2>3
<1>4. FreshMatch'
  <2>1. CASE ExecuteOk
    BY <1>1, <2>1 DEF ExecuteOk, FreshMatch, WithStep
  <2>2. CASE VerifyCaptureFails
    <3>1. step'.kind = "VerifyCapture"
      BY <2>2 DEF VerifyCaptureFails, Verified, Plain, Step
    <3> QED  BY <3>1 DEF FreshMatch
  <2>3. CASE HookSucceeds
    BY <2>3 DEF HookSucceeds, Continue, FreshMatch, WithStep
  <2> QED  BY <2>1, <2>2, <2>3
<1> QED  BY <1>1, <1>2, <1>3, <1>4, AsideGoal DEF OtherEnd

\* A step is handled: what is common to its kinds.
LEMMA HandledGoal ==
  ASSUME TypeInv, GoalInv, Times, pc = "Dispatch",
         NEW ev \in {"match", "watch", "miss", "error"}, Handled(ev),
         UNCHANGED <<iterations, now>>, pc' \in {"Sleep", "Recover", "Done"},
         goalCtx'.iterations <= iterations, Knows(goalCtx', Append(log, Entry(ev, pre))),
         ev \in {"match", "miss"} => (\A s \in TimeLimits : now < s) \/ TimeIsUp',
         (pc' = "Done" /\ outcome'.reason = "GoalReached") => IsReached'
  PROVE  GoalInv'
<1>1. /\ now <= MaxTime /\ now \in Nat /\ pre \in Tasks /\ log \in Seq(Entries)
      /\ LimitsKept(log, FALSE)
  BY DEF GoalInv, TypeInv, TypeOK, Times, TimeIsUp
<1>2. PICK e \in Entries : e = Entry(ev, pre) /\ e.ev = ev /\ e.at = now
  BY <1>1, EntryType
<1>3. PICK h \in Entries : h = Entry("hook", None) /\ h.ev = "hook" /\ h.at = now
  BY <1>1, EntryType
<1> DEFINE told == Append(log, e)
<1>4. told \in Seq(Entries) /\ (EndsWith(told, "miss") <=> ev = "miss")
  BY <1>1, <1>2 DEF EndsWith
<1>5. log' = IF pc' = "Recover" THEN Append(told, h) ELSE told
  BY <1>2, <1>3 DEF Handled
<1>6. Knows(goalCtx', told)
  BY <1>2
<1>7. ASSUME NEW ended, ended <=> TimeIsUp'
      PROVE  LimitsKept(told, ended)
  BY <1>1, <1>2, <1>7, LimitsEntry DEF InTime
<1> HIDE DEF told
<1>8. Knows(goalCtx', log')
  <2>1. Knows(goalCtx', Append(told, h))
    BY <1>3, <1>4, <1>6, KnowsOther
  <2> QED  BY <1>5, <1>6, <2>1
<1>9. LimitsKept(log', TimeIsUp')
  <2>1. CASE pc' = "Recover"
    <3>1. ~TimeIsUp'
      BY <2>1 DEF TimeIsUp
    <3>2. LimitsKept(told, FALSE)
      BY <1>7, <3>1
    <3>3. ev = "miss" => InTime(h)
      BY <1>3, <3>1 DEF InTime
    <3>4. LimitsKept(Append(told, h), FALSE)
      BY <1>3, <1>4, <3>2, <3>3, LimitsEntry
    <3> QED  BY <1>5, <2>1, <3>1, <3>4 DEF LimitsKept, EvaluatedInTime
  <2>2. CASE pc' # "Recover"
    BY <1>5, <1>7, <2>2
  <2> QED  BY <2>1, <2>2
<1>10. FreshMatch' /\ ~BeforeRecovery'
  BY DEF FreshMatch, WithStep, BeforeRecovery
<1> QED  BY <1>1, <1>8, <1>9, <1>10 DEF GoalInv

\* The goals are evaluated: what they decide, and what ends the run.
LEMMA EvaluatedGoal ==
  ASSUME Pursued, TypeInv, BudgetInv, GoalInv, pc = "Dispatch", NEW m \in Matches \cup {None},
         UNCHANGED now, goalCtx' = GoalTick(m),
         \/ GoalStatus(m) # "NotYet" /\ Finish(GoalReason(GoalStatus(m)), iterations)
         \/ GoalStatus(m) = "NotYet" /\ OtherEnd'
  PROVE  /\ goalCtx'.iterations <= iterations
         /\ (\A s \in TimeLimits : now < s) \/ TimeIsUp'
         /\ (pc' = "Done" /\ outcome'.reason = "GoalReached") => IsReached'
<1>1. /\ goalCtx.iterations \in Nat /\ goalCtx.lastMatch \in Matches \cup {None}
      /\ iterations \in Nat /\ now \in 0..MaxTime /\ MaxIterations \in Nat
      /\ goalCtx.iterations < iterations /\ iterations <= MaxIterations
  BY ConstantsAssumption DEF TypeInv, TypeOK, BudgetInv, GoalInv, BeforeRecovery
<1>2. /\ GoalTick(m).iterations = goalCtx.iterations + 1
      /\ GoalTick(m) \in Contexts
  BY <1>1 DEF GoalTick, Contexts, Matches
<1>3. GoalStatus(m) = EvaluateStop(GoalTick(m), now)
  BY <1>1, <1>2 DEF Pursued, GoalStatus
<1>4. /\ GoalStatus(m) \in {"Reached", "Failed", "NotYet"}
      /\ (\E s \in TimeLimits : now >= s) => GoalStatus(m) = "Failed"
      /\ GoalStatus(m) = "Reached" => IsReached'
  BY <1>1, <1>3, Decided DEF IsReached
<1>5. CASE GoalStatus(m) = "NotYet" /\ OtherEnd'
  <2>1. \A s \in TimeLimits : now < s
    BY <1>1, <1>4, <1>5, LimitsOfGoals
  <2> QED  BY <1>1, <1>2, <1>5, <2>1 DEF OtherEnd
<1>6. CASE GoalStatus(m) # "NotYet" /\ Finish(GoalReason(GoalStatus(m)), iterations)
  <2>1. pc' = "Done" /\ outcome'.reason = GoalReason(GoalStatus(m))
    BY <1>6 DEF Finish, Outcome
  <2>2. CASE GoalStatus(m) = "Failed"
    BY <1>1, <1>2, <2>1, <2>2 DEF GoalReason, TimeIsUp
  <2>3. CASE GoalStatus(m) = "Reached"
    <3>1. \A s \in TimeLimits : now < s
      BY <1>1, <1>4, <2>3, LimitsOfGoals
    <3> QED  BY <1>1, <1>2, <1>4, <2>3, <3>1
  <2> QED  BY <1>4, <1>6, <2>2, <2>3
<1> QED  BY <1>5, <1>6

LEMMA MatchGoal ==
  ASSUME Pursued, TypeInv, BudgetInv, EvidenceInv, GoalInv, Times, StepMatched, Handled("match")
  PROVE  GoalInv'
<1>1. /\ pc = "Dispatch" /\ UNCHANGED <<iterations, now>> /\ step.kind \in {"Fired", "NoFire"}
      /\ goalCtx' = GoalTick(lastMatch)
  BY DEF StepMatched, Dispatching, EvalGoalStop, Pursued
<1>2. /\ lastMatch \in Matches \cup {None} /\ lastMatch # None /\ lastMatch.task = pre
      /\ ~EndsWith(log, "unseen") /\ log \in Seq(Entries) /\ now \in Nat /\ pre \in Tasks
  BY <1>1 DEF TypeInv, TypeOK, GoalInv, FreshMatch, WithStep, EvidenceInv, LogEnd, Times
<1>3. \/ /\ GoalStatus(lastMatch) # "NotYet"
         /\ Finish(GoalReason(GoalStatus(lastMatch)), iterations)
      \/ /\ GoalStatus(lastMatch) = "NotYet"
         /\ \/ Continue
            \/ Finish(IF step.kind = "Fired" THEN "TerminalTask" ELSE "Stop", iterations)
  BY DEF StepMatched, EvalGoalStop, Pursued
<1>4. /\ pc' \in {"Sleep", "Recover", "Done"}
      /\ \/ /\ GoalStatus(lastMatch) # "NotYet"
            /\ Finish(GoalReason(GoalStatus(lastMatch)), iterations)
         \/ GoalStatus(lastMatch) = "NotYet" /\ OtherEnd'
  BY <1>3 DEF Continue, Finish, Outcome, OtherEnd
<1>5. Knows(goalCtx', Append(log, Entry("match", pre)))
  <2>1. goalCtx' = [iterations |-> goalCtx.iterations + 1, lastMatch |-> lastMatch]
    BY <1>1, <1>2 DEF GoalTick
  <2>2. /\ Entry("match", pre) \in Entries /\ Entry("match", pre).ev = "match"
        /\ Entry("match", pre).task = pre
    BY <1>2, EntryType
  <2> QED  BY <1>2, <2>1, <2>2, KnowsMatch DEF GoalInv
<1>6. /\ goalCtx'.iterations <= iterations
      /\ (\A s \in TimeLimits : now < s) \/ TimeIsUp'
      /\ (pc' = "Done" /\ outcome'.reason = "GoalReached") => IsReached'
  BY <1>1, <1>2, <1>4, EvaluatedGoal
<1> QED  BY <1>1, <1>4, <1>5, <1>6, HandledGoal

LEMMA RunRecoveryGoal ==
  ASSUME NEW g, RunRecovery(g)
  PROVE  pc' \in {"Recover", "Done"} /\ (pc' = "Done" => outcome'.reason = "RecoveryExhausted")
  BY DEF RunRecovery, Finish, Outcome

LEMMA MissGoal ==
  ASSUME Pursued, TypeInv, BudgetInv, EvidenceInv, GoalInv, Times,
         StepNoMatch \/ StepFiredUnverified, Handled("miss")
  PROVE  GoalInv'
<1> DEFINE g == IF RecoveryEnabled THEN RecordMiss(guard) ELSE guard
<1>1. /\ pc = "Dispatch" /\ UNCHANGED <<iterations, now>> /\ NoMatchBody
      /\ log \in Seq(Entries) /\ now \in Nat /\ pre \in Tasks
  BY DEF StepNoMatch, StepFiredUnverified, Dispatching, Times, TypeInv, TypeOK
<1>2. goalCtx' = GoalTick(None)
  BY <1>1 DEF NoMatchBody, EvalGoalStop, Pursued
<1>3. \/ GoalStatus(None) # "NotYet" /\ Finish(GoalReason(GoalStatus(None)), iterations)
      \/ GoalStatus(None) = "NotYet" /\ (RunRecovery(g) \/ Continue)
  BY <1>1 DEF NoMatchBody, EvalGoalStop, Pursued
<1> HIDE DEF g
<1>4. /\ pc' \in {"Sleep", "Recover", "Done"}
      /\ \/ GoalStatus(None) # "NotYet" /\ Finish(GoalReason(GoalStatus(None)), iterations)
         \/ GoalStatus(None) = "NotYet" /\ OtherEnd'
  <2>1. CASE RunRecovery(g)
    BY <1>3, <2>1, RunRecoveryGoal DEF OtherEnd
  <2>2. CASE Continue
    BY <1>3, <2>2 DEF Continue, OtherEnd
  <2>3. CASE Finish(GoalReason(GoalStatus(None)), iterations)
    BY <1>3, <2>1, <2>2, <2>3 DEF Finish
  <2> QED  BY <1>3, <2>1, <2>2, <2>3
<1>5. Knows(goalCtx', Append(log, Entry("miss", pre)))
  <2>1. goalCtx' = [iterations |-> goalCtx.iterations + 1, lastMatch |-> goalCtx.lastMatch]
    BY <1>2 DEF GoalTick
  <2>2. Entry("miss", pre) \in Entries /\ Entry("miss", pre).ev = "miss"
    BY <1>1, EntryType
  <2> QED  BY <1>1, <2>1, <2>2, KnowsMiss DEF GoalInv
<1>6. /\ goalCtx'.iterations <= iterations
      /\ (\A s \in TimeLimits : now < s) \/ TimeIsUp'
      /\ (pc' = "Done" /\ outcome'.reason = "GoalReached") => IsReached'
  BY <1>1, <1>2, <1>4, EvaluatedGoal
<1> QED  BY <1>1, <1>4, <1>5, <1>6, HandledGoal

\* A watch task and an error are no steps for the goal.
LEMMA UnevaluatedGoal ==
  ASSUME TypeInv, GoalInv, Times,
         \/ StepWatchFired /\ Handled("watch")
         \/ StepError /\ Handled("error")
  PROVE  GoalInv'
<1>1. PICK ev \in {"watch", "error"} : Handled(ev)
  OBVIOUS
<1>2. /\ pc = "Dispatch" /\ UNCHANGED <<iterations, now, goalCtx>>
      /\ log \in Seq(Entries) /\ now \in Nat /\ pre \in Tasks
  BY DEF StepWatchFired, StepError, Dispatching, Times, TypeInv, TypeOK
<1>3. pc' \in {"Sleep", "Recover", "Done"} /\ OtherEnd'
  <2>1. \/ Continue \/ RunRecovery(guard)
        \/ Finish("ExecuteError", iterations - 1) \/ Finish("CaptureError", iterations - 1)
    BY DEF StepWatchFired, StepError
  <2>2. CASE Continue
    BY <2>2 DEF Continue, OtherEnd
  <2>3. CASE RunRecovery(guard)
    BY <2>3, RunRecoveryGoal DEF OtherEnd
  <2>4. CASE Finish("ExecuteError", iterations - 1) \/ Finish("CaptureError", iterations - 1)
    BY <2>4 DEF Finish, Outcome, OtherEnd
  <2> QED  BY <2>1, <2>2, <2>3, <2>4
<1>4. Knows(goalCtx', Append(log, Entry(ev, pre)))
  <2>1. Entry(ev, pre) \in Entries /\ Entry(ev, pre).ev \notin {"match", "miss"}
    BY <1>1, <1>2, EntryType
  <2> QED  BY <1>2, <2>1, KnowsOther DEF GoalInv
<1>5. goalCtx'.iterations <= iterations
  BY <1>2 DEF GoalInv
<1> QED  BY <1>1, <1>2, <1>3, <1>4, <1>5, HandledGoal DEF OtherEnd

LEMMA NextGoal ==
  ASSUME Pursued
  PROVE  TypeInv /\ BudgetInv /\ Times /\ EvidenceInv /\ GoalInv /\ [HNext]_hvars => GoalInv'
<1> SUFFICES ASSUME TypeInv, BudgetInv, Times, EvidenceInv, GoalInv, [HNext]_hvars PROVE GoalInv'
  OBVIOUS
<1>1. CASE UNCHANGED hvars
  BY <1>1 DEF hvars, vars, loopVars, GoalInv, FreshMatch, WithStep, BeforeRecovery, TimeIsUp,
              IsReached
<1>2. CASE /\ \/ LoopInterrupted \/ LoopLimit \/ LoopBegin \/ Wake \/ CaptureFails
              \/ WatchMatches \/ TaskAbsent \/ DetectFails \/ TaskMatches \/ ExecuteFails
              \/ VerifyStillPresent \/ VerifyGone \/ HookFails \/ Cancel \/ Tick
           /\ Quiet
  BY <1>2, QuietGoal DEF Quiet
<1>3. CASE \/ ExecuteOk /\ Note("sent", step.task)
           \/ VerifyCaptureFails /\ Note("unseen", pre)
           \/ HookSucceeds /\ Note("restart", None)
  BY <1>3, NoteGoal
<1>4. CASE StepMatched /\ Handled("match")
  BY <1>4, MatchGoal
<1>5. CASE (StepNoMatch \/ StepFiredUnverified) /\ Handled("miss")
  BY <1>5, MissGoal
<1>6. CASE \/ StepWatchFired /\ Handled("watch")
           \/ StepError /\ Handled("error")
  BY <1>6, UnevaluatedGoal
<1> QED  BY <1>1, <1>2, <1>3, <1>4, <1>5, <1>6 DEF HNext

\* In every run that pursues the goals of a manifest, the context of the goal knows
\* the log: how many of its steps were evaluated and which match was the last; no
\* step was evaluated past a time limit but the last one of the run.
THEOREM GoalInvariant ==
  ASSUME Pursued
  PROVE  HSpec => [](TypeInv /\ RecoveryInv /\ EvidenceInv /\ BudgetInv /\ GoalInv)
<1>1. HInit => BudgetInv /\ GoalInv
  BY InitBudget, InitGoal DEF HInit
<1>2. TypeInv /\ BudgetInv /\ [HNext]_hvars => BudgetInv'
  BY HistoryOnlyWatches, NextBudget
<1>3. TypeInv /\ BudgetInv /\ RecoveryInv /\ EvidenceInv /\ GoalInv /\ [HNext]_hvars => GoalInv'
  BY NextGoal DEF RecoveryInv
<1> QED  BY <1>1, <1>2, <1>3, EvidenceInvariant, PTL DEF HSpec

\* UC-3 of docs/goal-manifest.md (evaluate_goal_reason): the first step evaluated
\* at or past a time limit is the last one, whatever it recognised.
THEOREM TimeLimitCorrect ==
  ASSUME Pursued
  PROVE  HSpec => []TimeLimitNoticed
<1>1. ASSUME TypeInv, RecoveryInv, GoalInv PROVE TimeLimitNoticed
  <2> SUFFICES ASSUME NEW i \in Evaluated, NEW s \in TimeLimits, log[i].at >= s
               PROVE  i = Here /\ pc = "Done" /\ outcome.reason = "GoalTimeout"
    BY DEF TimeLimitNoticed
  <2>0. s \in Nat
    BY LimitsOfGoals
  <2>1. i \in DOMAIN log /\ log[i].ev \in {"match", "miss"} /\ log[i] \in Entries
    BY <1>1 DEF Evaluated, Events, RecoveryInv, Times
  <2>2. log[i].at \in Nat /\ ~(log[i].at < s)
    BY <2>0, <2>1 DEF Entries
  <2>3. ~InTime(log[i])
    BY <2>2 DEF InTime
  <2> QED  BY <1>1, <2>1, <2>3 DEF GoalInv, LimitsKept, EvaluatedInTime, TimeIsUp, Here
<1> QED  BY <1>1, GoalInvariant, PTL

\* step_no_match decides the goal before the recovery: no game is restarted for a
\* miss past a time limit.
THEOREM NoLateHookCorrect ==
  ASSUME Pursued
  PROVE  HSpec => []NoHookAfterTimeLimit
<1>1. ASSUME RecoveryInv, GoalInv PROVE NoHookAfterTimeLimit
  <2> SUFFICES ASSUME NEW i \in Events({"hook"}), log[i - 1].ev = "miss"
               PROVE  \A s \in TimeLimits : log[i].at < s
    BY DEF NoHookAfterTimeLimit
  <2>1. i \in DOMAIN log /\ log[i].ev = "hook"
    BY DEF Events
  <2>2. i > 1 /\ HookInTime(log, i)
    BY <1>1, <2>1 DEF RecoveryInv, HookAt, GoalInv, LimitsKept
  <2> QED  BY <2>1, <2>2 DEF HookInTime, InTime
<1> QED  BY <1>1, GoalInvariant, PTL

\* A leaf that is reached is shown by the log.
LEMMA ReachedLeafShown ==
  ASSUME Knows(goalCtx, log), NEW d \in GoalEval!LeafConditions(Tasks), NEW t,
         GoalEval!LeafStatus(d, goalCtx, t) = "Reached"
  PROVE  Shown(d)
<1>1. Evaluated = EvaluatedIn(log) /\ Events({"match"}) = MatchedIn(log)
  BY DEF Evaluated, EvaluatedIn, MatchedIn, Events
<1>2. CASE d.kind = "LoopCount"
  BY <1>1, <1>2 DEF GoalEval!LeafStatus, Shown, Knows
<1>3. CASE d.kind = "TemplateMatch"
  <2>1. goalCtx.lastMatch # None /\ goalCtx.lastMatch.task = d.task
    BY <1>3 DEF GoalEval!LeafStatus
  <2>2. PICK i : IsLastMatch(i, log) /\ log[i].task = goalCtx.lastMatch.task
    BY <2>1 DEF Knows
  <2>3. i \in LastSeen /\ i \in MatchedIn(log)
    BY <1>1, <2>2 DEF LastSeen, IsLastMatch
  <2>4. ~(i > 1 /\ log[i - 1].ev = "unseen")
    BY <2>3 DEF Knows
  <2> QED  BY <1>3, <2>1, <2>2, <2>3, <2>4 DEF Shown
<1>4. CASE d.kind = "Timeout"
  BY <1>4 DEF GoalEval!LeafStatus
<1>5. d.kind \in {"LoopCount", "TemplateMatch", "Timeout"}
  BY DEF GoalEval!LeafConditions
<1> QED  BY <1>2, <1>3, <1>4, <1>5

\* eval_goal_stop: a goal is reached only when the log meets it, whatever tree it
\* is: a count after as many evaluated steps, a template when the last match of the
\* run is the one that was waited for.
THEOREM GoalSeenCorrect ==
  ASSUME Pursued
  PROVE  HSpec => []GoalReachedIsSeen
<1>1. ASSUME GoalInv PROVE GoalReachedIsSeen
  <2> SUFFICES ASSUME pc = "Done", outcome.reason = "GoalReached"
               PROVE  GoalEval!MetBy(ShownLeaves)[RunGoal]
    BY DEF GoalReachedIsSeen
  <2>1. EvaluateStop(goalCtx, now) = "Reached" /\ Knows(goalCtx, log)
    BY <1>1 DEF GoalInv, IsReached
  <2>2. \A d \in GoalEval!LeafConditions(Tasks) :
          GoalEval!LeafStatus(d, goalCtx, now) = "Reached" => d \in ShownLeaves
    BY <2>1, ReachedLeafShown DEF ShownLeaves
  <2> QED  BY <2>1, <2>2, ReachedByLeaves
<1> QED  BY <1>1, GoalInvariant, PTL
=============================================================================
