-------------------------------- MODULE Goal --------------------------------
(***************************************************************************)
(* Declarative goals (anaden-core): what a stop condition asks of the      *)
(* ticks so far, the last match and the elapsed seconds, and how an All or *)
(* an Any joins what its children say.  A match is [task, confidence];     *)
(* confidences are whole numbers out of FullConfidence, the code's 1.0.    *)
(***************************************************************************)
EXTENDS Integers, Sequences, FiniteSetsExt, Functions

CONSTANTS FullConfidence, NoMatchYet

ASSUME GoalAssumption == FullConfidence \in Nat \ {0}

LoopCount(target) == [kind |-> "LoopCount", target |-> target]
TemplateMatch(task, confidence) ==
  [kind |-> "TemplateMatch", task |-> task, confidence |-> confidence]
Timeout(secs) == [kind |-> "Timeout", secs |-> secs]
All(conditions) == [kind |-> "All", conditions |-> conditions]
Any(conditions) == [kind |-> "Any", conditions |-> conditions]

\* The conditions that have no children.
LeafConditions(tasks) ==
  [kind : {"LoopCount"}, target : Nat]
    \cup [kind : {"TemplateMatch"}, task : tasks, confidence : Nat]
    \cup [kind : {"Timeout"}, secs : Nat]

IsComposition(c) == c.kind \in {"All", "Any"}

-----------------------------------------------------------------------------
(* evaluate *)

\* Slips: one reached child is enough; a reached child hides a failed one; all
\* children are needed.
EvaluateAllAsAny(statuses) == IF "Reached" \in Range(statuses) THEN "Reached" ELSE "NotYet"
EvaluateAnyReachedFirst(statuses) ==
  IF "Reached" \in Range(statuses) THEN "Reached"
  ELSE IF "Failed" \in Range(statuses) THEN "Failed" ELSE "NotYet"
EvaluateAnyAsAll(statuses) ==
  IF "Failed" \in Range(statuses) THEN "Failed"
  ELSE IF Range(statuses) = {"Reached"} THEN "Reached" ELSE "NotYet"

\* Children in order up to the first that is not reached, which decides.
EvaluateAllInOrder(statuses) ==
  LET open == {i \in DOMAIN statuses : statuses[i] # "Reached"}
  IN IF open = {} THEN "Reached" ELSE statuses[Min(open)]

\* Every child is looked at and a failure wins.
EvaluateAny(statuses) ==
  CASE "Failed" \in Range(statuses) -> "Failed"
    [] "Failed" \notin Range(statuses) /\ "Reached" \in Range(statuses) -> "Reached"
    [] OTHER -> "NotYet"

\* Slips: a second early, a second late.
TimedOutEarly(secs, elapsed) == elapsed + 1 >= secs
TimedOutLate(secs, elapsed) == elapsed > secs

TimedOut(secs, elapsed) == elapsed >= secs

LeafStatus(c, ctx, elapsed) ==
  CASE c.kind = "LoopCount" ->
         IF ctx.iterations >= c.target THEN "Reached" ELSE "NotYet"
    [] c.kind = "TemplateMatch" ->
         IF /\ ctx.lastMatch # NoMatchYet
            /\ ctx.lastMatch.task = c.task
            /\ ctx.lastMatch.confidence >= c.confidence
         THEN "Reached" ELSE "NotYet"
    [] c.kind = "Timeout" -> IF TimedOut(c.secs, elapsed) THEN "Failed" ELSE "NotYet"

-----------------------------------------------------------------------------
(* validate, for a condition that is no composition *)

LeafIsValid(c) ==
  CASE c.kind = "LoopCount" -> c.target > 0
    [] c.kind = "TemplateMatch" ->
         c.confidence > 0 /\ c.confidence <= FullConfidence
    [] c.kind = "Timeout" -> c.secs > 0

-----------------------------------------------------------------------------
(* GoalStatusContext *)

NewContext == [iterations |-> 0, lastMatch |-> NoMatchYet]

\* Slip: a step without a match forgets the last one.
TickContextForgetful(ctx, match) == [iterations |-> ctx.iterations + 1, lastMatch |-> match]

\* tick: a step without a match keeps the last one.
TickContext(ctx, match) ==
  [iterations |-> ctx.iterations + 1,
   lastMatch |-> IF match # NoMatchYet THEN match ELSE ctx.lastMatch]
=============================================================================
