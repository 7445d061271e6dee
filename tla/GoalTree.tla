------------------------------ MODULE GoalTree ------------------------------
(***************************************************************************)
(* A goal is a tree of stop conditions: its evaluation goes down into the  *)
(* compositions, its validation bounds their depth.  What goes down a tree *)
(* is a function of the trees that are at most MaxHeight high.             *)
(***************************************************************************)
EXTENDS Goal

CONSTANTS
  TaskNames,            \* the tasks a TemplateMatch can name
  MaxHeight,            \* bound on the trees a user writes
  MaxCompositionDepth

ASSUME TreeAssumption == MaxHeight \in Nat /\ MaxCompositionDepth \in Nat

Compositions(children) == [kind : {"All", "Any"}, conditions : Seq(children)]

\* The trees of a height of at most h.
Trees[h \in 0..MaxHeight] ==
  LeafConditions(TaskNames) \cup (IF h = 0 THEN {} ELSE Compositions(Trees[h - 1]))

StopConditions == Trees[MaxHeight]

\* What evaluate gives for each tree.
Statuses(ctx, elapsed) ==
  LET evaluate[c \in StopConditions] ==
        LET statuses == [i \in DOMAIN c.conditions |-> evaluate[c.conditions[i]]]
        IN CASE ~IsComposition(c) -> LeafStatus(c, ctx, elapsed)
             [] c.kind = "All" -> EvaluateAllInOrder(statuses)
             [] c.kind = "Any" -> EvaluateAny(statuses)
  IN evaluate

EvaluateGoal(c, ctx, elapsed) == Statuses(ctx, elapsed)[c]

\* Slips: a composition of nothing passes; one level more than the limit does.
NodeIsValidWhenEmpty(c, depth) ==
  depth <= MaxCompositionDepth /\ (~IsComposition(c) => LeafIsValid(c))
NodeIsValidTooDeep(c, depth) ==
  /\ depth <= MaxCompositionDepth + 1
  /\ IF IsComposition(c) THEN c.conditions # <<>> ELSE LeafIsValid(c)

NodeIsValid(c, depth) ==
  /\ depth <= MaxCompositionDepth
  /\ IF IsComposition(c) THEN c.conditions # <<>> ELSE LeafIsValid(c)

\* What validate_with_depth says of each tree at each depth.
ValidAtDepth[c \in StopConditions] ==
  [depth \in Nat |->
     /\ NodeIsValid(c, depth)
     /\ IsComposition(c) =>
          \A i \in DOMAIN c.conditions : ValidAtDepth[c.conditions[i]][depth + 1]]

Validate(c) == ValidAtDepth[c][0]

\* manifest_default_goal: several goals of a manifest stop at any of them.
ManifestGoal(goals) == IF Len(goals) = 1 THEN goals[1] ELSE Any(goals)

-----------------------------------------------------------------------------
(* Reading a tree, for the properties *)

\* The conditions in each tree, itself one of them.
Subconditions[c \in StopConditions] ==
  {c} \cup (IF IsComposition(c)
            THEN UNION {Subconditions[c.conditions[i]] : i \in DOMAIN c.conditions}
            ELSE {})

\* The conditions that fail a tree when they fail, whatever the others give: of
\* an Any those of all children, of an All those of its first.
Deciding(c) ==
  IF c.kind = "Any" THEN DOMAIN c.conditions
  ELSE IF c.kind = "All" THEN {1} \cap DOMAIN c.conditions ELSE {}
Decisive[c \in StopConditions] ==
  {c} \cup UNION {Decisive[c.conditions[i]] : i \in Deciding(c)}

\* The trees that are met when these leaves are.
MetBy(leaves) ==
  LET met[c \in StopConditions] ==
        CASE ~IsComposition(c) -> c \in leaves
          [] c.kind = "All" -> \A i \in DOMAIN c.conditions : met[c.conditions[i]]
          [] c.kind = "Any" -> \E i \in DOMAIN c.conditions : met[c.conditions[i]]
  IN met
=============================================================================
