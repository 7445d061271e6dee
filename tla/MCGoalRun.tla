----------------------------- MODULE MCGoalRun ------------------------------
(* Leaves on both sides of every bound, and the compositions of a few.      *)
EXTENDS GoalRun

Leaves ==
  {LoopCount(n) : n \in {0, 1, 3}}
    \cup {TemplateMatch(t, c) : t \in {"clear", "menu"}, c \in {0, 2, 3}}
    \cup {Timeout(s) : s \in {0, 1, 2}}

Chosen == {LoopCount(2), TemplateMatch("clear", 2), TemplateMatch("menu", 1), Timeout(2)}

Pairs == {<<x, y>> : x, y \in Chosen}
Flat == {All(p) : p \in Pairs} \cup {Any(p) : p \in Pairs}
Nested ==
  {Any(<<All(<<x, y>>), Timeout(2)>>) : x, y \in Chosen}
    \cup {All(<<Any(<<x, Timeout(1)>>), y>>) : x, y \in Chosen}
TooDeep == {Any(<<All(<<Any(<<LoopCount(1)>>)>>)>>)}
Empty == {All(<<>>), Any(<<>>), Any(<<LoopCount(2), All(<<>>)>>)}
Manifest == {ManifestGoal(<<x>>) : x \in Chosen} \cup {ManifestGoal(p) : p \in Pairs}

MCCandidates == Leaves \cup Flat \cup Nested \cup TooDeep \cup Empty \cup Manifest
MCStepMatches ==
  {NoMatchYet} \cup [task : {"clear", "menu"}, confidence : {1, 2}]
=============================================================================
