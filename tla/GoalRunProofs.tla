----------------------------- MODULE GoalRunProofs --------------------------
(***************************************************************************)
(* What evaluate decides of a tree of any shape, and of a run whose goal   *)
(* it is.                                                                  *)
(***************************************************************************)
EXTENDS GoalRun, NaturalsInduction, WellFoundedInduction, TLAPS

-----------------------------------------------------------------------------
(* Induction and recursion on trees.  Both are on the height, which grows   *)
(* from 0 to MaxHeight.                                                     *)

Descending == {p \in Nat \X Nat : p[1] < p[2]}

LEMMA SmallestOf ==
  ASSUME NEW S \in SUBSET Nat, S # {}
  PROVE  \E m \in S : \A n \in S : m <= n
<1>1. IsWellFoundedOn(Descending, Nat)
  BY NatLessThanWellFounded DEF Descending, OpToRel
<1>2. PICK m \in S : \A n \in S : <<n, m>> \notin Descending
  BY <1>1, WFMin
<1>3. ASSUME NEW n \in S PROVE m <= n
  <2>1. m \in Nat /\ n \in Nat
    OBVIOUS
  <2>2. ~(n < m)
    BY <1>2, <2>1 DEF Descending
  <2> QED  BY <2>1, <2>2
<1> QED  BY <1>3

\* A set of heights that has 0 and the next one of each has all.
LEMMA HeightInduction ==
  ASSUME NEW S, 0 \in S, \A h \in 1..MaxHeight : h - 1 \in S => h \in S
  PROVE  0..MaxHeight \subseteq S
<1>1. SUFFICES ASSUME (0..MaxHeight) \ S # {} PROVE FALSE
  OBVIOUS
<1>2. (0..MaxHeight) \ S \in SUBSET Nat
  BY TreeAssumption
<1>3. PICK m \in (0..MaxHeight) \ S : \A n \in (0..MaxHeight) \ S : m <= n
  BY <1>1, <1>2, SmallestOf
<1>4. m - 1 \in S /\ m \in 1..MaxHeight
  BY <1>3, TreeAssumption
<1> QED  BY <1>3, <1>4

Level(h, trees) ==
  LeafConditions(TaskNames) \cup (IF h = 0 THEN {} ELSE Compositions(trees[h - 1]))

LEMMA TreesEquation ==
  \A h \in 0..MaxHeight : Trees[h] = Level(h, Trees)
<1> DEFINE Upto(h) == \E f : /\ DOMAIN f = 0..MaxHeight
                             /\ \A k \in 0..h : f[k] = Level(k, f)
           Good == {h \in 0..MaxHeight : Upto(h)}
<1>1. 0 \in Good
  <2> DEFINE g == [k \in 0..MaxHeight |-> LeafConditions(TaskNames)]
  <2>1. DOMAIN g = 0..MaxHeight /\ \A k \in 0..0 : g[k] = Level(k, g)
    BY TreeAssumption DEF Level
  <2> QED  BY <2>1, TreeAssumption
<1>2. ASSUME NEW h \in 1..MaxHeight, h - 1 \in Good PROVE h \in Good
  <2>1. PICK f : DOMAIN f = 0..MaxHeight /\ \A k \in 0..(h - 1) : f[k] = Level(k, f)
    BY <1>2
  <2> DEFINE g == [k \in 0..MaxHeight |-> Level(k, f)]
  <2>2. ASSUME NEW k \in 0..h PROVE g[k] = Level(k, g)
    <3>1. g[k] = Level(k, f) /\ (k # 0 => k - 1 \in 0..(h - 1) /\ k - 1 \in 0..MaxHeight)
      BY TreeAssumption
    <3>2. k # 0 => g[k - 1] = f[k - 1]
      BY <2>1, <3>1
    <3> HIDE DEF g
    <3> QED  BY <3>1, <3>2 DEF Level
  <2>3. DOMAIN g = 0..MaxHeight
    OBVIOUS
  <2> HIDE DEF g
  <2>4. Upto(h)
    BY <2>2, <2>3
  <2> QED  BY <2>4, TreeAssumption
<1>3. MaxHeight \in Good
  <2> HIDE DEF Good
  <2> QED  BY <1>1, <1>2, HeightInduction, TreeAssumption
<1>4. PICK f : DOMAIN f = 0..MaxHeight /\ \A k \in 0..MaxHeight : f[k] = Level(k, f)
  BY <1>3
<1>5. \E t : t = [h \in 0..MaxHeight |->
          LeafConditions(TaskNames) \cup (IF h = 0 THEN {} ELSE Compositions(t[h - 1]))]
  <2> DEFINE g == [h \in 0..MaxHeight |-> f[h]]
  <2>1. g = [h \in 0..MaxHeight |->
          LeafConditions(TaskNames) \cup (IF h = 0 THEN {} ELSE Compositions(g[h - 1]))]
    BY <1>4, TreeAssumption DEF Level
  <2> QED  BY <2>1
<1>6. Trees = [h \in 0..MaxHeight |->
          LeafConditions(TaskNames) \cup (IF h = 0 THEN {} ELSE Compositions(Trees[h - 1]))]
  BY <1>5 DEF Trees
<1> QED  BY <1>6 DEF Level

Children(c) == IF IsComposition(c) THEN Range(c.conditions) ELSE {}

\* A tree that is higher than 0 is a composition of lower ones, or a leaf.
LEMMA TreeShape ==
  /\ \A h \in 0..MaxHeight : Trees[h] \subseteq StopConditions
  /\ \A h \in 0..MaxHeight : \A c \in Trees[h] :
       \/ c \in LeafConditions(TaskNames)
       \/ h > 0 /\ c \in Compositions(Trees[h - 1])
  /\ LeafConditions(TaskNames) \subseteq Trees[0]
<1> DEFINE Kept == {h \in 0..MaxHeight : \A k \in 0..h : Trees[k] \subseteq Trees[h]}
<1>1. ASSUME NEW h \in 0..MaxHeight, NEW c \in Trees[h]
      PROVE  c \in LeafConditions(TaskNames) \/ (h > 0 /\ c \in Compositions(Trees[h - 1]))
  BY TreesEquation, TreeAssumption DEF Level
<1>2. LeafConditions(TaskNames) \subseteq Trees[0]
  BY TreesEquation, TreeAssumption DEF Level
<1>3. ASSUME NEW h \in 1..MaxHeight PROVE Trees[h - 1] \subseteq Trees[h]
  <2> DEFINE Step == {k \in 0..MaxHeight : k > 0 => Trees[k - 1] \subseteq Trees[k]}
  <2>1. 0 \in Step
    BY TreeAssumption
  <2>2. ASSUME NEW k \in 1..MaxHeight, k - 1 \in Step PROVE k \in Step
    <3>1. /\ Trees[k] = LeafConditions(TaskNames) \cup Compositions(Trees[k - 1])
          /\ Trees[k - 1] = LeafConditions(TaskNames)
                 \cup (IF k = 1 THEN {} ELSE Compositions(Trees[(k - 1) - 1]))
      BY TreesEquation, TreeAssumption DEF Level
    <3>2. k # 1 => Trees[(k - 1) - 1] \subseteq Trees[k - 1]
      BY <2>2, TreeAssumption
    <3>3. k # 1 => Compositions(Trees[(k - 1) - 1]) \subseteq Compositions(Trees[k - 1])
      BY <3>2 DEF Compositions
    <3>4. Trees[k - 1] \subseteq Trees[k]
      BY <3>1, <3>3
    <3> QED  BY <3>4, TreeAssumption
  <2>3. h \in Step
    <3> HIDE DEF Step
    <3> QED  BY <2>1, <2>2, HeightInduction, TreeAssumption
  <2> QED  BY <2>3, TreeAssumption
<1>4. 0 \in Kept
  BY TreeAssumption
<1>5. ASSUME NEW h \in 1..MaxHeight, h - 1 \in Kept PROVE h \in Kept
  <2>1. ASSUME NEW k \in 0..h PROVE Trees[k] \subseteq Trees[h]
    <3>1. CASE k = h
      BY <3>1
    <3>2. CASE k # h
      <4>1. k \in 0..(h - 1)
        BY <3>2, TreeAssumption
      <4> QED  BY <1>3, <1>5, <4>1
    <3> QED  BY <3>1, <3>2
  <2> QED  BY <2>1, TreeAssumption
<1>6. MaxHeight \in Kept
  <2> HIDE DEF Kept
  <2> QED  BY <1>4, <1>5, HeightInduction, TreeAssumption
<1> QED  BY <1>1, <1>2, <1>6 DEF StopConditions

LEMMA ChildrenOf ==
  ASSUME NEW c \in StopConditions
  PROVE  /\ c.kind \in {"LoopCount", "TemplateMatch", "Timeout", "All", "Any"}
         /\ IsComposition(c) => \A i \in DOMAIN c.conditions : c.conditions[i] \in StopConditions
         /\ Children(c) \subseteq StopConditions
<1>1. PICK h \in 0..MaxHeight : c \in Trees[h] /\ h = MaxHeight
  BY TreeAssumption DEF StopConditions
<1>2. CASE c \in LeafConditions(TaskNames)
  BY <1>2 DEF LeafConditions, IsComposition, Children
<1>3. CASE h > 0 /\ c \in Compositions(Trees[h - 1])
  <2>1. c.kind \in {"All", "Any"} /\ c.conditions \in Seq(Trees[h - 1])
    BY <1>3 DEF Compositions
  <2>2. Trees[h - 1] \subseteq StopConditions
    BY <1>3, TreeShape, TreeAssumption
  <2>3. \A i \in DOMAIN c.conditions : c.conditions[i] \in StopConditions
    BY <2>1, <2>2
  <2> QED  BY <2>1, <2>3 DEF Children, Range
<1> QED  BY <1>1, <1>2, <1>3, TreeShape

\* A set that has a tree whenever it has its children has every tree.
LEMMA TreeInduction ==
  ASSUME NEW P, \A c \in StopConditions : Children(c) \subseteq P => c \in P
  PROVE  StopConditions \subseteq P
<1> DEFINE Good == {h \in 0..MaxHeight : Trees[h] \subseteq P}
<1>1. ASSUME NEW h \in 0..MaxHeight, h > 0 => Trees[h - 1] \subseteq P PROVE h \in Good
  <2>1. ASSUME NEW c \in Trees[h] PROVE c \in P
    <3>1. c \in StopConditions
      BY TreeShape
    <3>2. CASE c \in LeafConditions(TaskNames)
      <4>1. Children(c) = {}
        BY <3>2 DEF LeafConditions, IsComposition, Children
      <4> QED  BY <3>1, <4>1
    <3>3. CASE h > 0 /\ c \in Compositions(Trees[h - 1])
      <4>1. IsComposition(c) /\ c.conditions \in Seq(Trees[h - 1])
        BY <3>3 DEF Compositions, IsComposition
      <4>2. Children(c) \subseteq Trees[h - 1]
        BY <4>1 DEF Children, Range
      <4> QED  BY <1>1, <3>1, <3>3, <4>2
    <3> QED  BY <3>2, <3>3, TreeShape
  <2> QED  BY <2>1
<1>2. 0 \in Good
  BY <1>1, TreeAssumption
<1>3. \A h \in 1..MaxHeight : h - 1 \in Good => h \in Good
  BY <1>1, TreeAssumption
<1>4. MaxHeight \in Good
  <2> HIDE DEF Good
  <2> QED  BY <1>2, <1>3, HeightInduction, TreeAssumption
<1> QED  BY <1>4 DEF StopConditions

\* A function of a tree may be given by what it is for the children.
DependsOnChildren(S, Body) ==
  /\ Body \in [StopConditions \X [StopConditions -> S] -> S]
  /\ \A c \in StopConditions : \A f, g \in [StopConditions -> S] :
       (\A d \in Children(c) : f[d] = g[d]) => Body[<<c, f>>] = Body[<<c, g>>]

Solution(S, Body, f) ==
  f \in [StopConditions -> S] /\ \A c \in StopConditions : f[c] = Body[<<c, f>>]

LEMMA TreeRecursion ==
  ASSUME NEW S, S # {}, NEW Body, DependsOnChildren(S, Body)
  PROVE  \E f : Solution(S, Body, f)
<1> USE DEF DependsOnChildren
<1> DEFINE Solves(h) == \E f \in [StopConditions -> S] :
                          \A c \in Trees[h] : f[c] = Body[<<c, f>>]
           Good == {h \in 0..MaxHeight : Solves(h)}
<1>1. ASSUME NEW h \in 0..MaxHeight, NEW f \in [StopConditions -> S],
             h > 0 => \A c \in Trees[h - 1] : f[c] = Body[<<c, f>>]
      PROVE  h \in Good
  <2> DEFINE g == [c \in StopConditions |-> Body[<<c, f>>]]
  <2>1. g \in [StopConditions -> S]
    OBVIOUS
  <2>2. ASSUME NEW c \in Trees[h] PROVE g[c] = Body[<<c, g>>]
    <3>1. c \in StopConditions /\ g[c] = Body[<<c, f>>]
      BY TreeShape
    <3>2. \A d \in Children(c) : f[d] = g[d]
      <4>1. CASE c \in LeafConditions(TaskNames)
        BY <4>1 DEF LeafConditions, IsComposition, Children
      <4>2. CASE h > 0 /\ c \in Compositions(Trees[h - 1])
        <5>1. Children(c) \subseteq Trees[h - 1]
          <6>1. IsComposition(c) /\ c.conditions \in Seq(Trees[h - 1])
            BY <4>2 DEF Compositions, IsComposition
          <6> QED  BY <6>1 DEF Children, Range
        <5>2. h - 1 \in 0..MaxHeight
          BY <4>2, TreeAssumption
        <5>3. Trees[h - 1] \subseteq StopConditions
          BY <5>2, TreeShape
        <5>4. \A d \in Trees[h - 1] : f[d] = Body[<<d, f>>]
          BY <1>1, <4>2
        <5> QED  BY <5>1, <5>3, <5>4
      <4> QED  BY <4>1, <4>2, TreeShape
    <3> HIDE DEF g
    <3> QED  BY <2>1, <3>1, <3>2
  <2> HIDE DEF g
  <2>3. Solves(h)
    BY <2>1, <2>2
  <2> QED  BY <2>3
<1>2. 0 \in Good
  <2>1. PICK s \in S : TRUE
    OBVIOUS
  <2> DEFINE any == [c \in StopConditions |-> s]
  <2>2. any \in [StopConditions -> S] /\ 0 \in 0..MaxHeight /\ ~(0 > 0)
    BY TreeAssumption
  <2> HIDE DEF Good, any
  <2> QED  BY <1>1, <2>2
<1>3. ASSUME NEW h \in 1..MaxHeight, h - 1 \in Good PROVE h \in Good
  <2>1. PICK f \in [StopConditions -> S] : \A c \in Trees[h - 1] : f[c] = Body[<<c, f>>]
    BY <1>3
  <2>2. h \in 0..MaxHeight
    BY TreeAssumption
  <2> HIDE DEF Good
  <2> QED  BY <1>1, <2>1, <2>2
<1>4. MaxHeight \in Good
  <2> HIDE DEF Good
  <2> QED  BY <1>2, <1>3, HeightInduction, TreeAssumption
<1> QED  BY <1>4 DEF StopConditions, Solution

-----------------------------------------------------------------------------
(* What evaluate gives for a tree, from what it gives for the children *)

GoalStatuses == {"NotYet", "Reached", "Failed"}

LEMMA AllDecides ==
  ASSUME NEW D \in SUBSET Nat, NEW s \in [D -> GoalStatuses]
  PROVE  /\ EvaluateAllInOrder(s) \in GoalStatuses
         /\ EvaluateAllInOrder(s) = "Reached" <=> \A i \in D : s[i] = "Reached"
         /\ EvaluateAllInOrder(s) # "Reached" => \E i \in D : s[i] = EvaluateAllInOrder(s)
<1> DEFINE open == {i \in DOMAIN s : s[i] # "Reached"}
<1>1. CASE open = {}
  <2>1. EvaluateAllInOrder(s) = "Reached"
    BY <1>1 DEF EvaluateAllInOrder
  <2> QED  BY <1>1, <2>1 DEF GoalStatuses
<1>2. CASE open # {}
  <2>1. EvaluateAllInOrder(s) = s[Min(open)]
    BY <1>2 DEF EvaluateAllInOrder
  <2>2. Min(open) \in open
    <3>1. \E m \in open : \A n \in open : m <= n
      BY <1>2, SmallestOf
    <3> HIDE DEF open
    <3> QED  BY <3>1 DEF Min
  <2> QED  BY <2>1, <2>2 DEF GoalStatuses
<1> QED  BY <1>1, <1>2

\* The first child that is not reached decides an All.
LEMMA FirstDecides ==
  ASSUME NEW D \in SUBSET Nat, 0 \notin D, 1 \in D, NEW s \in [D -> GoalStatuses],
         s[1] = "Failed"
  PROVE  EvaluateAllInOrder(s) = "Failed"
<1> DEFINE open == {i \in DOMAIN s : s[i] # "Reached"}
<1>1. 1 \in open /\ open \in SUBSET Nat /\ \A n \in open : 1 <= n
  <2>1. \A n \in D : n \in Nat /\ 1 <= n
    OBVIOUS
  <2>2. DOMAIN s = D /\ s[1] # "Reached"
    OBVIOUS
  <2> QED  BY <2>1, <2>2
<1>2. EvaluateAllInOrder(s) = s[Min(open)]
  BY <1>1 DEF EvaluateAllInOrder
<1>3. Min(open) = 1
  <2> HIDE DEF open
  <2>1. Min(open) \in open /\ \A n \in open : Min(open) <= n
    BY <1>1 DEF Min
  <2>2. Min(open) \in Nat /\ Min(open) <= 1 /\ 1 <= Min(open)
    BY <1>1, <2>1
  <2> QED  BY <2>2
<1> QED  BY <1>2, <1>3

LEMMA AnyDecides ==
  ASSUME NEW D, NEW s \in [D -> GoalStatuses]
  PROVE  /\ EvaluateAny(s) \in GoalStatuses
         /\ EvaluateAny(s) = "Failed" <=> \E i \in D : s[i] = "Failed"
         /\ EvaluateAny(s) = "Reached" <=> /\ \A i \in D : s[i] # "Failed"
                                           /\ \E i \in D : s[i] = "Reached"
<1>1. \A x : x \in Range(s) <=> \E i \in D : s[i] = x
  BY DEF Range
<1> QED  BY <1>1 DEF EvaluateAny, GoalStatuses

LEMMA LeafDecides ==
  ASSUME NEW c \in StopConditions, ~IsComposition(c), NEW x, NEW e
  PROVE  LeafStatus(c, x, e) \in GoalStatuses
BY ChildrenOf DEF LeafStatus, GoalStatuses, IsComposition

ChildStatuses(c, f) == [i \in DOMAIN c.conditions |-> f[c.conditions[i]]]

NodeStatus(c, f, x, e) ==
  CASE ~IsComposition(c) -> LeafStatus(c, x, e)
    [] c.kind = "All" -> EvaluateAllInOrder(ChildStatuses(c, f))
    [] c.kind = "Any" -> EvaluateAny(ChildStatuses(c, f))

LEMMA LeafShape ==
  ASSUME NEW c \in StopConditions
  PROVE  ~IsComposition(c) <=> c \in LeafConditions(TaskNames)
<1>1. c \in LeafConditions(TaskNames) \/ \E h : c \in Compositions(Trees[h])
  BY TreeShape, TreeAssumption DEF StopConditions
<1> QED  BY <1>1 DEF LeafConditions, Compositions, IsComposition

\* A composition has a sequence of children, each a tree.
LEMMA ChildSequence ==
  ASSUME NEW c \in StopConditions, IsComposition(c)
  PROVE  /\ c.conditions \in Seq(StopConditions)
         /\ DOMAIN c.conditions \in SUBSET Nat
         /\ \A i \in DOMAIN c.conditions : c.conditions[i] \in Children(c)
<1>1. c \notin LeafConditions(TaskNames)
  BY DEF IsComposition, LeafConditions
<1>2. MaxHeight > 0 /\ c \in Compositions(Trees[MaxHeight - 1])
  BY <1>1, TreeShape, TreeAssumption DEF StopConditions
<1>3. Trees[MaxHeight - 1] \subseteq StopConditions
  BY <1>2, TreeShape, TreeAssumption
<1>4. c.conditions \in Seq(Trees[MaxHeight - 1])
  BY <1>2 DEF Compositions
<1>5. c.conditions \in Seq(StopConditions)
  BY <1>3, <1>4
<1> QED  BY <1>5 DEF Children, Range

LEMMA NodeDecides ==
  ASSUME NEW c \in StopConditions, NEW f, NEW x, NEW e,
         \A d \in Children(c) : f[d] \in GoalStatuses
  PROVE  /\ NodeStatus(c, f, x, e) \in GoalStatuses
         /\ IsComposition(c) => ChildStatuses(c, f) \in [DOMAIN c.conditions -> GoalStatuses]
<1>1. CASE ~IsComposition(c)
  BY <1>1, LeafDecides DEF NodeStatus, IsComposition
<1>2. CASE IsComposition(c)
  <2>1. ChildStatuses(c, f) \in [DOMAIN c.conditions -> GoalStatuses]
    BY <1>2, ChildSequence DEF ChildStatuses
  <2>2. /\ EvaluateAllInOrder(ChildStatuses(c, f)) \in GoalStatuses
        /\ EvaluateAny(ChildStatuses(c, f)) \in GoalStatuses
    BY <1>2, <2>1, ChildSequence, AllDecides, AnyDecides
  <2> QED  BY <1>2, <2>1, <2>2 DEF NodeStatus, IsComposition
<1> QED  BY <1>1, <1>2

LEMMA StatusesEquation ==
  ASSUME NEW x, NEW e
  PROVE  \A c \in StopConditions :
           /\ Statuses(x, e)[c] = NodeStatus(c, Statuses(x, e), x, e)
           /\ Statuses(x, e)[c] \in GoalStatuses
<1> DEFINE Body == [p \in StopConditions \X [StopConditions -> GoalStatuses] |->
                      NodeStatus(p[1], p[2], x, e)]
<1>1. ASSUME NEW c \in StopConditions, NEW f \in [StopConditions -> GoalStatuses]
      PROVE  Body[<<c, f>>] = NodeStatus(c, f, x, e) /\ NodeStatus(c, f, x, e) \in GoalStatuses
  BY ChildrenOf, NodeDecides
<1>2. Body \in [StopConditions \X [StopConditions -> GoalStatuses] -> GoalStatuses]
  BY <1>1
<1>3. ASSUME NEW c \in StopConditions, NEW f, NEW g, \A d \in Children(c) : f[d] = g[d]
      PROVE  NodeStatus(c, f, x, e) = NodeStatus(c, g, x, e)
  <2>1. CASE ~IsComposition(c)
    BY <2>1 DEF NodeStatus
  <2>2. CASE IsComposition(c)
    <3>1. ChildStatuses(c, f) = ChildStatuses(c, g)
      BY <1>3, <2>2, ChildSequence DEF ChildStatuses
    <3> QED  BY <2>2, <3>1 DEF NodeStatus
  <2> QED  BY <2>1, <2>2
<1>4. GoalStatuses # {}
  BY DEF GoalStatuses
<1>5. PICK f \in [StopConditions -> GoalStatuses] :
        \A c \in StopConditions : f[c] = NodeStatus(c, f, x, e)
  <2>1. \A c \in StopConditions : \A f, g \in [StopConditions -> GoalStatuses] :
          (\A d \in Children(c) : f[d] = g[d]) => Body[<<c, f>>] = Body[<<c, g>>]
    BY <1>1, <1>3
  <2> HIDE DEF Body
  <2>2. DependsOnChildren(GoalStatuses, Body)
    BY <1>2, <2>1 DEF DependsOnChildren
  <2>3. PICK f : Solution(GoalStatuses, Body, f)
    BY <1>4, <2>2, TreeRecursion
  <2> QED  BY <1>1, <2>3 DEF Solution
<1>6. f = [c \in StopConditions |->
        LET statuses == [i \in DOMAIN c.conditions |-> f[c.conditions[i]]]
        IN CASE ~IsComposition(c) -> LeafStatus(c, x, e)
             [] c.kind = "All" -> EvaluateAllInOrder(statuses)
             [] c.kind = "Any" -> EvaluateAny(statuses)]
  BY <1>5 DEF NodeStatus, ChildStatuses
<1>7. Statuses(x, e) = [c \in StopConditions |->
        LET statuses == [i \in DOMAIN c.conditions |-> Statuses(x, e)[c.conditions[i]]]
        IN CASE ~IsComposition(c) -> LeafStatus(c, x, e)
             [] c.kind = "All" -> EvaluateAllInOrder(statuses)
             [] c.kind = "Any" -> EvaluateAny(statuses)]
  BY <1>6 DEF Statuses
<1>8. \A c \in StopConditions : Statuses(x, e)[c] = NodeStatus(c, Statuses(x, e), x, e)
  BY <1>7 DEF NodeStatus, ChildStatuses
<1>9. StopConditions \subseteq {c \in StopConditions : Statuses(x, e)[c] \in GoalStatuses}
  <2> DEFINE P == {c \in StopConditions : Statuses(x, e)[c] \in GoalStatuses}
  <2>1. ASSUME NEW c \in StopConditions, Children(c) \subseteq P PROVE c \in P
    BY <1>8, <2>1, NodeDecides
  <2> HIDE DEF P
  <2>2. StopConditions \subseteq P
    BY <2>1, TreeInduction
  <2> QED  BY <2>2 DEF P
<1> QED  BY <1>8, <1>9

-----------------------------------------------------------------------------
(* The reference: the subconditions of a tree, and when a history meets it *)

LEMMA SubconditionsEquation ==
  \A c \in StopConditions :
    /\ c \in Subconditions[c]
    /\ \A d \in Children(c) : Subconditions[d] \subseteq Subconditions[c]
<1> DEFINE Under(c, f) == {c} \cup (IF IsComposition(c)
                                     THEN UNION {f[c.conditions[i]] : i \in DOMAIN c.conditions}
                                     ELSE {})
           Sets == SUBSET StopConditions
           Body == [p \in StopConditions \X [StopConditions -> Sets] |-> Under(p[1], p[2])]
<1>1. ASSUME NEW c \in StopConditions, NEW f \in [StopConditions -> Sets]
      PROVE  Body[<<c, f>>] = Under(c, f) /\ Under(c, f) \in Sets
  <2>1. IsComposition(c) => \A i \in DOMAIN c.conditions : f[c.conditions[i]] \in Sets
    BY ChildrenOf
  <2>2. Under(c, f) \in Sets
    BY <2>1
  <2> QED  BY <2>2
<1>2. Body \in [StopConditions \X [StopConditions -> Sets] -> Sets]
  BY <1>1
<1>3. ASSUME NEW c \in StopConditions, NEW f, NEW g, \A d \in Children(c) : f[d] = g[d]
      PROVE  Under(c, f) = Under(c, g)
  <2>1. IsComposition(c) =>
          \A i \in DOMAIN c.conditions : f[c.conditions[i]] = g[c.conditions[i]]
    BY <1>3, ChildSequence
  <2> QED  BY <2>1
<1>4. DependsOnChildren(Sets, Body)
  <2> HIDE DEF Body, Sets, Under
  <2>1. \A c \in StopConditions : \A f, g \in [StopConditions -> Sets] :
          (\A d \in Children(c) : f[d] = g[d]) => Body[<<c, f>>] = Body[<<c, g>>]
    BY <1>1, <1>3
  <2> QED  BY <1>2, <2>1 DEF DependsOnChildren
<1>5. PICK f : f \in [StopConditions -> Sets] /\ \A c \in StopConditions : f[c] = Under(c, f)
  <2>1. Sets # {}
    OBVIOUS
  <2> HIDE DEF Body, Sets
  <2>2. PICK f : Solution(Sets, Body, f)
    BY <1>4, <2>1, TreeRecursion
  <2> QED  BY <1>1, <2>2 DEF Solution
<1>6. f = [c \in StopConditions |-> Under(c, f)]
  BY <1>5
<1>7. Subconditions = [c \in StopConditions |-> Under(c, Subconditions)]
  BY <1>6 DEF Subconditions
<1>8. ASSUME NEW c \in StopConditions
      PROVE  /\ c \in Subconditions[c]
             /\ \A d \in Children(c) : Subconditions[d] \subseteq Subconditions[c]
  <2>1. Subconditions[c] = Under(c, Subconditions)
    BY <1>7
  <2>2. ASSUME NEW d \in Children(c) PROVE Subconditions[d] \subseteq Subconditions[c]
    <3>1. IsComposition(c) /\ \E i \in DOMAIN c.conditions : d = c.conditions[i]
      BY <2>2 DEF Children, Range
    <3> QED  BY <2>1, <3>1
  <2> QED  BY <2>1, <2>2
<1> QED  BY <1>8

\* A condition that decides a tree is that tree, or decides a child that does.
LEMMA DecisiveEquation ==
  \A c \in StopConditions :
    /\ Decisive[c] \subseteq StopConditions
    /\ \A d \in Decisive[c] : d = c \/ \E i \in Deciding(c) : d \in Decisive[c.conditions[i]]
<1> DEFINE Under(c, f) == {c} \cup UNION {f[c.conditions[i]] : i \in Deciding(c)}
           Sets == SUBSET StopConditions
           Body == [p \in StopConditions \X [StopConditions -> Sets] |-> Under(p[1], p[2])]
<1>0. ASSUME NEW c \in StopConditions, NEW i \in Deciding(c)
      PROVE  IsComposition(c) /\ i \in DOMAIN c.conditions /\ c.conditions[i] \in Children(c)
  <2>1. IsComposition(c) /\ i \in DOMAIN c.conditions
    BY <1>0 DEF Deciding, IsComposition
  <2> QED  BY <2>1, ChildSequence
<1>1. ASSUME NEW c \in StopConditions, NEW f \in [StopConditions -> Sets]
      PROVE  Body[<<c, f>>] = Under(c, f) /\ Under(c, f) \in Sets
  <2>1. \A i \in Deciding(c) : f[c.conditions[i]] \in Sets
    BY <1>0, ChildrenOf
  <2>2. Under(c, f) \in Sets
    BY <2>1
  <2> QED  BY <2>2
<1>2. Body \in [StopConditions \X [StopConditions -> Sets] -> Sets]
  BY <1>1
<1>3. ASSUME NEW c \in StopConditions, NEW f, NEW g, \A d \in Children(c) : f[d] = g[d]
      PROVE  Under(c, f) = Under(c, g)
  <2>1. \A i \in Deciding(c) : f[c.conditions[i]] = g[c.conditions[i]]
    BY <1>0, <1>3
  <2> QED  BY <2>1
<1>4. DependsOnChildren(Sets, Body)
  <2> HIDE DEF Body, Sets, Under
  <2>1. \A c \in StopConditions : \A f, g \in [StopConditions -> Sets] :
          (\A d \in Children(c) : f[d] = g[d]) => Body[<<c, f>>] = Body[<<c, g>>]
    BY <1>1, <1>3
  <2> QED  BY <1>2, <2>1 DEF DependsOnChildren
<1>5. PICK f : f \in [StopConditions -> Sets] /\ \A c \in StopConditions : f[c] = Under(c, f)
  <2>1. Sets # {}
    OBVIOUS
  <2> HIDE DEF Body, Sets, Under
  <2>2. PICK f : Solution(Sets, Body, f)
    BY <1>4, <2>1, TreeRecursion
  <2> QED  BY <1>1, <2>2 DEF Solution
<1>6. f = [c \in StopConditions |-> Under(c, f)]
  BY <1>5
<1>7. Decisive = [c \in StopConditions |-> Under(c, Decisive)]
  BY <1>6 DEF Decisive
<1>8. \A c \in StopConditions : Decisive[c] = Under(c, Decisive)
  BY <1>7
<1>9. StopConditions \subseteq {c \in StopConditions : Decisive[c] \subseteq StopConditions}
  <2> DEFINE P == {c \in StopConditions : Decisive[c] \subseteq StopConditions}
  <2>1. ASSUME NEW c \in StopConditions, Children(c) \subseteq P PROVE c \in P
    <3>1. \A i \in Deciding(c) : Decisive[c.conditions[i]] \subseteq StopConditions
      BY <1>0, <2>1
    <3> QED  BY <1>8, <3>1
  <2> HIDE DEF P
  <2>2. StopConditions \subseteq P
    BY <2>1, TreeInduction
  <2> QED  BY <2>2 DEF P
<1> QED  BY <1>8, <1>9

LEMMA MetEquation ==
  ASSUME NEW leaves
  PROVE  \A c \in StopConditions :
           /\ ~IsComposition(c) => (MetBy(leaves)[c] <=> c \in leaves)
           /\ c.kind = "All" => (MetBy(leaves)[c] <=> \A d \in Children(c) : MetBy(leaves)[d])
           /\ c.kind = "Any" => (MetBy(leaves)[c] <=> \E d \in Children(c) : MetBy(leaves)[d])
<1> DEFINE met == MetBy(leaves)
           Here(c, f) == CASE ~IsComposition(c) -> c \in leaves
                          [] c.kind = "All" -> \A i \in DOMAIN c.conditions : f[c.conditions[i]]
                          [] c.kind = "Any" -> \E i \in DOMAIN c.conditions : f[c.conditions[i]]
           Body == [p \in StopConditions \X [StopConditions -> BOOLEAN] |-> Here(p[1], p[2])]
<1>1. ASSUME NEW c \in StopConditions, NEW f \in [StopConditions -> BOOLEAN]
      PROVE  Body[<<c, f>>] = Here(c, f) /\ Here(c, f) \in BOOLEAN
  <2>1. Here(c, f) \in BOOLEAN
    <3>1. CASE ~IsComposition(c)
      <4>1. Here(c, f) = (c \in leaves)
        BY <3>1 DEF IsComposition
      <4> HIDE DEF Here
      <4> QED  BY <4>1
    <3>2. CASE c.kind = "All"
      BY <3>2 DEF IsComposition
    <3>3. CASE c.kind = "Any"
      BY <3>3 DEF IsComposition
    <3> HIDE DEF Here
    <3> QED  BY <3>1, <3>2, <3>3 DEF IsComposition
  <2> HIDE DEF Here
  <2> QED  BY <2>1
<1>2. Body \in [StopConditions \X [StopConditions -> BOOLEAN] -> BOOLEAN]
  <2> HIDE DEF Here
  <2> QED  BY <1>1
<1>3. ASSUME NEW c \in StopConditions, NEW f, NEW g, \A d \in Children(c) : f[d] = g[d]
      PROVE  Here(c, f) = Here(c, g)
  <2>1. CASE ~IsComposition(c)
    BY <2>1
  <2>2. CASE IsComposition(c)
    <3>1. \A i \in DOMAIN c.conditions : f[c.conditions[i]] = g[c.conditions[i]]
      BY <1>3, <2>2, ChildSequence
    <3> QED  BY <2>2, <3>1 DEF IsComposition
  <2> QED  BY <2>1, <2>2
<1>4. DependsOnChildren(BOOLEAN, Body)
  <2> HIDE DEF Body, Here
  <2>1. \A c \in StopConditions : \A f, g \in [StopConditions -> BOOLEAN] :
          (\A d \in Children(c) : f[d] = g[d]) => Body[<<c, f>>] = Body[<<c, g>>]
    BY <1>1, <1>3
  <2> QED  BY <1>2, <2>1 DEF DependsOnChildren
<1>5. PICK f : f \in [StopConditions -> BOOLEAN] /\ \A c \in StopConditions : f[c] = Here(c, f)
  <2> HIDE DEF Body, Here
  <2>1. PICK f : Solution(BOOLEAN, Body, f)
    BY <1>4, TreeRecursion
  <2> QED  BY <1>1, <2>1 DEF Solution
<1>6. f = [c \in StopConditions |-> Here(c, f)]
  <2> HIDE DEF Here
  <2> QED  BY <1>5
<1>7. met = [c \in StopConditions |-> Here(c, met)]
  BY <1>6 DEF MetBy
<1>8. \A c \in StopConditions : met[c] = Here(c, met)
  <2> HIDE DEF Here
  <2> QED  BY <1>7
<1>9. ASSUME NEW c \in StopConditions
      PROVE  /\ ~IsComposition(c) => (met[c] <=> c \in leaves)
             /\ c.kind = "All" => (met[c] <=> \A d \in Children(c) : met[d])
             /\ c.kind = "Any" => (met[c] <=> \E d \in Children(c) : met[d])
  <2>1. CASE ~IsComposition(c)
    BY <1>8, <2>1 DEF IsComposition
  <2>2. CASE IsComposition(c)
    <3>1. \A d : d \in Children(c) <=> \E i \in DOMAIN c.conditions : d = c.conditions[i]
      BY <2>2 DEF Children, Range
    <3>2. CASE c.kind = "All"
      <4>1. met[c] = \A i \in DOMAIN c.conditions : met[c.conditions[i]]
        BY <1>8, <3>2 DEF IsComposition
      <4>2. met[c] <=> \A d \in Children(c) : met[d]
        BY <3>1, <4>1
      <4> QED  BY <2>2, <3>2, <4>2
    <3>3. CASE c.kind = "Any"
      <4>1. met[c] = \E i \in DOMAIN c.conditions : met[c.conditions[i]]
        BY <1>8, <3>3 DEF IsComposition
      <4>2. met[c] <=> \E d \in Children(c) : met[d]
        BY <3>1, <4>1
      <4> QED  BY <2>2, <3>3, <4>2
    <3> QED  BY <2>2, <3>2, <3>3 DEF IsComposition
  <2> QED  BY <2>1, <2>2 DEF IsComposition
<1> QED  BY <1>9

-----------------------------------------------------------------------------
(* What a tree decides against what the history says of it *)

\* The context holds the number of steps and the latest match of the history.
Recorded(context) ==
  context.iterations = Len(seen) /\ context.lastMatch = LatestMatch

Limit(c) == \E d \in Subconditions[c] : Expired(d)

JustifiedBy(c, st) ==
  /\ st = "Reached" => Met[c]
  /\ st = "Failed" => Limit(c)
  /\ Met[c] => st # "NotYet"

LEMMA LeafJustified ==
  ASSUME Recorded(ctx), NEW c \in StopConditions, ~IsComposition(c)
  PROVE  /\ JustifiedBy(c, LeafStatus(c, ctx, evaluatedAt))
         /\ Expired(c) => LeafStatus(c, ctx, evaluatedAt) = "Failed"
<1>1. c.kind \in {"LoopCount", "TemplateMatch", "Timeout"} /\ (Met[c] <=> MetLeaf(c))
  <2>1. Met[c] <=> c \in {d \in LeafConditions(TaskNames) : MetLeaf(d)}
    BY MetEquation DEF Met
  <2> QED  BY <2>1, ChildrenOf, LeafShape DEF IsComposition
<1>2. Expired(c) => Limit(c)
  BY SubconditionsEquation DEF Limit
<1>3. CASE c.kind = "LoopCount"
  BY <1>1, <1>3 DEF Recorded, JustifiedBy, LeafStatus, MetLeaf, Expired
<1>4. CASE c.kind = "TemplateMatch"
  BY <1>1, <1>4 DEF Recorded, JustifiedBy, LeafStatus, MetLeaf, Expired
<1>5. CASE c.kind = "Timeout"
  BY <1>1, <1>2, <1>5 DEF JustifiedBy, LeafStatus, MetLeaf, Expired, TimedOut
<1> QED  BY <1>1, <1>3, <1>4, <1>5

LEMMA TreeJustified ==
  ASSUME Recorded(ctx)
  PROVE  \A c \in StopConditions : JustifiedBy(c, EvaluateGoal(c, ctx, evaluatedAt))
<1> DEFINE st == Statuses(ctx, evaluatedAt)
           P == {c \in StopConditions : JustifiedBy(c, st[c])}
<1>1. ASSUME NEW c \in StopConditions, Children(c) \subseteq P PROVE c \in P
  <2>1. st[c] = NodeStatus(c, st, ctx, evaluatedAt)
    BY StatusesEquation
  <2>2. CASE ~IsComposition(c)
    <3>1. st[c] = LeafStatus(c, ctx, evaluatedAt)
      BY <2>1, <2>2 DEF NodeStatus, IsComposition
    <3> QED  BY <2>2, <3>1, LeafJustified
  <2>3. CASE IsComposition(c)
    <3> HIDE DEF st
    <3> DEFINE statuses == ChildStatuses(c, st)
    <3>1. /\ \A d \in Children(c) : st[d] \in GoalStatuses /\ JustifiedBy(d, st[d])
          /\ \A d \in Children(c) : Limit(d) => Limit(c)
      <4>1. Children(c) \subseteq StopConditions
        BY ChildrenOf
      <4>2. \A d \in Children(c) : st[d] \in GoalStatuses
        BY <4>1, StatusesEquation DEF st
      <4>3. \A d \in Children(c) : Limit(d) => Limit(c)
        BY SubconditionsEquation DEF Limit
      <4> QED  BY <1>1, <4>2, <4>3
    <3>2. /\ DOMAIN c.conditions \in SUBSET Nat
          /\ statuses \in [DOMAIN c.conditions -> GoalStatuses]
          /\ \A i \in DOMAIN c.conditions :
               statuses[i] = st[c.conditions[i]] /\ c.conditions[i] \in Children(c)
          /\ \A d \in Children(c) : \E i \in DOMAIN c.conditions : statuses[i] = st[d]
      <4>1. statuses \in [DOMAIN c.conditions -> GoalStatuses]
        BY <2>3, <3>1, NodeDecides
      <4>2. \A i \in DOMAIN c.conditions : statuses[i] = st[c.conditions[i]]
        BY DEF ChildStatuses
      <4>3. \A d \in Children(c) : \E i \in DOMAIN c.conditions : d = c.conditions[i]
        BY <2>3 DEF Children, Range
      <4> HIDE DEF statuses
      <4> QED  BY <2>3, <4>1, <4>2, <4>3, ChildSequence
    <3>3. CASE c.kind = "All"
      <4>1. st[c] = EvaluateAllInOrder(statuses)
        BY <2>1, <3>3 DEF NodeStatus, IsComposition
      <4>2. Met[c] <=> \A d \in Children(c) : Met[d]
        BY <3>3, MetEquation DEF Met
      <4> HIDE DEF statuses
      <4>3. st[c] = "Reached" <=> \A d \in Children(c) : st[d] = "Reached"
        BY <3>2, <4>1, AllDecides
      <4>4. ASSUME st[c] # "Reached" PROVE \E d \in Children(c) : st[d] = st[c]
        <5>1. PICK i \in DOMAIN c.conditions : statuses[i] = st[c]
          BY <3>2, <4>1, <4>4, AllDecides
        <5> QED  BY <3>2, <5>1
      <4> QED  BY <3>1, <4>2, <4>3, <4>4 DEF JustifiedBy
    <3>4. CASE c.kind = "Any"
      <4>1. st[c] = EvaluateAny(statuses)
        BY <2>1, <3>4 DEF NodeStatus, IsComposition
      <4>2. Met[c] <=> \E d \in Children(c) : Met[d]
        BY <3>4, MetEquation DEF Met
      <4> HIDE DEF statuses
      <4>3. st[c] = "Failed" <=> \E d \in Children(c) : st[d] = "Failed"
        BY <3>2, <4>1, AnyDecides
      <4>4. st[c] = "Reached" <=> /\ \A d \in Children(c) : st[d] # "Failed"
                                 /\ \E d \in Children(c) : st[d] = "Reached"
        BY <3>2, <4>1, AnyDecides
      <4>5. ASSUME NEW d \in Children(c), st[d] # "NotYet" PROVE st[c] # "NotYet"
        BY <3>1, <4>3, <4>4, <4>5 DEF GoalStatuses
      <4> QED  BY <3>1, <4>2, <4>3, <4>4, <4>5 DEF JustifiedBy
    <3> QED  BY <2>3, <3>3, <3>4 DEF IsComposition
  <2> QED  BY <2>2, <2>3
<1>2. StopConditions \subseteq P
  <2> HIDE DEF P
  <2> QED  BY <1>1, TreeInduction
<1> QED  BY <1>2 DEF EvaluateGoal

\* A condition that decides a tree fails it, however deep it is nested.
LEMMA DecisiveFails ==
  ASSUME NEW x, NEW e
  PROVE  \A c \in StopConditions : \A d \in Decisive[c] :
           EvaluateGoal(d, x, e) = "Failed" => EvaluateGoal(c, x, e) = "Failed"
<1> DEFINE st == Statuses(x, e)
           P == {c \in StopConditions : \A d \in Decisive[c] : st[d] = "Failed" => st[c] = "Failed"}
<1>1. ASSUME NEW c \in StopConditions, Children(c) \subseteq P PROVE c \in P
  <2> SUFFICES ASSUME NEW d \in Decisive[c], st[d] = "Failed", d # c PROVE st[c] = "Failed"
    OBVIOUS
  <2>1. PICK i \in Deciding(c) : d \in Decisive[c.conditions[i]]
    BY DecisiveEquation
  <2>2. IsComposition(c) /\ i \in DOMAIN c.conditions /\ (c.kind = "All" => i = 1)
    BY <2>1 DEF Deciding, IsComposition
  <2>3. c.conditions[i] \in Children(c)
    BY <2>2, ChildSequence
  <2>4. st[c.conditions[i]] = "Failed"
    BY <1>1, <2>1, <2>3
  <2> DEFINE statuses == ChildStatuses(c, st)
  <2>5. /\ DOMAIN c.conditions \in SUBSET Nat /\ 0 \notin DOMAIN c.conditions
        /\ statuses \in [DOMAIN c.conditions -> GoalStatuses] /\ statuses[i] = "Failed"
    <3>1. \A y \in Children(c) : st[y] \in GoalStatuses
      BY ChildrenOf, StatusesEquation
    <3>2. ChildStatuses(c, st) \in [DOMAIN c.conditions -> GoalStatuses]
      BY <2>2, <3>1, NodeDecides
    <3>3. ChildStatuses(c, st)[i] = "Failed"
      BY <2>2, <2>4 DEF ChildStatuses
    <3>4. DOMAIN c.conditions \in SUBSET Nat /\ 0 \notin DOMAIN c.conditions
      BY <2>2, ChildSequence
    <3> QED  BY <3>2, <3>3, <3>4
  <2>6. st[c] = NodeStatus(c, st, x, e)
    BY StatusesEquation
  <2> HIDE DEF st, statuses
  <2>7. CASE c.kind = "Any"
    <3>1. st[c] = EvaluateAny(statuses)
      BY <2>6, <2>7 DEF NodeStatus, IsComposition, statuses
    <3> QED  BY <2>2, <2>5, <3>1, AnyDecides
  <2>8. CASE c.kind = "All"
    <3>1. st[c] = EvaluateAllInOrder(statuses)
      BY <2>6, <2>8 DEF NodeStatus, IsComposition, statuses
    <3> QED  BY <2>2, <2>5, <2>8, <3>1, FirstDecides
  <2> QED  BY <2>2, <2>7, <2>8 DEF IsComposition
<1>2. StopConditions \subseteq P
  <2> HIDE DEF P
  <2> QED  BY <1>1, TreeInduction
<1> QED  BY <1>2, DecisiveEquation DEF EvaluateGoal

\* A limit that decides a tree and has run out fails it.
LEMMA LimitFails ==
  ASSUME NEW x, NEW e, NEW c \in StopConditions,
         NEW d \in Decisive[c], d.kind = "Timeout", TimedOut(d.secs, e)
  PROVE  EvaluateGoal(c, x, e) = "Failed"
<1>1. d \in StopConditions /\ ~IsComposition(d)
  BY DecisiveEquation DEF IsComposition
<1>2. LeafStatus(d, x, e) = "Failed"
  BY DEF LeafStatus
<1>3. EvaluateGoal(d, x, e) = "Failed"
  BY <1>1, <1>2, StatusesEquation DEF NodeStatus, EvaluateGoal, IsComposition
<1> QED  BY <1>3, DecisiveFails

\* A goal is reached only when the leaves that are reached meet it.
LEMMA ReachedIsMet ==
  ASSUME NEW x, NEW e, NEW leaves,
         \A c \in LeafConditions(TaskNames) : LeafStatus(c, x, e) = "Reached" => c \in leaves
  PROVE  \A c \in StopConditions : EvaluateGoal(c, x, e) = "Reached" => MetBy(leaves)[c]
<1> DEFINE st == Statuses(x, e)
           P == {c \in StopConditions : st[c] = "Reached" => MetBy(leaves)[c]}
<1>1. ASSUME NEW c \in StopConditions, Children(c) \subseteq P PROVE c \in P
  <2>1. st[c] = NodeStatus(c, st, x, e)
    BY StatusesEquation
  <2>2. CASE ~IsComposition(c)
    <3>1. st[c] = LeafStatus(c, x, e) /\ c \in LeafConditions(TaskNames)
      BY <2>1, <2>2, LeafShape DEF NodeStatus, IsComposition
    <3> QED  BY <2>2, <3>1, MetEquation
  <2>3. CASE IsComposition(c)
    <3> HIDE DEF st
    <3> DEFINE statuses == ChildStatuses(c, st)
    <3>1. /\ DOMAIN c.conditions \in SUBSET Nat
          /\ statuses \in [DOMAIN c.conditions -> GoalStatuses]
          /\ \A i \in DOMAIN c.conditions :
               statuses[i] = st[c.conditions[i]] /\ c.conditions[i] \in Children(c)
          /\ \A d \in Children(c) : \E i \in DOMAIN c.conditions : statuses[i] = st[d]
      <4>1. \A d \in Children(c) : st[d] \in GoalStatuses
        BY ChildrenOf, StatusesEquation DEF st
      <4>2. statuses \in [DOMAIN c.conditions -> GoalStatuses]
        BY <2>3, <4>1, NodeDecides
      <4>3. \A i \in DOMAIN c.conditions : statuses[i] = st[c.conditions[i]]
        BY DEF ChildStatuses
      <4>4. \A d \in Children(c) : \E i \in DOMAIN c.conditions : d = c.conditions[i]
        BY <2>3 DEF Children, Range
      <4> HIDE DEF statuses
      <4> QED  BY <2>3, <4>2, <4>3, <4>4, ChildSequence
    <3>2. CASE c.kind = "All"
      <4>1. st[c] = EvaluateAllInOrder(statuses)
        BY <2>1, <3>2 DEF NodeStatus, IsComposition
      <4> HIDE DEF statuses
      <4>2. st[c] = "Reached" => \A i \in DOMAIN c.conditions : statuses[i] = "Reached"
        BY <3>1, <4>1, AllDecides
      <4> QED  BY <1>1, <3>1, <3>2, <4>2, MetEquation
    <3>3. CASE c.kind = "Any"
      <4>1. st[c] = EvaluateAny(statuses)
        BY <2>1, <3>3 DEF NodeStatus, IsComposition
      <4> HIDE DEF statuses
      <4>2. st[c] = "Reached" => \E i \in DOMAIN c.conditions : statuses[i] = "Reached"
        BY <3>1, <4>1, AnyDecides
      <4> QED  BY <1>1, <3>1, <3>3, <4>2, MetEquation
    <3> QED  BY <2>3, <3>2, <3>3 DEF IsComposition
  <2> QED  BY <2>2, <2>3
<1>2. StopConditions \subseteq P
  <2> HIDE DEF P
  <2> QED  BY <1>1, TreeInduction
<1> QED  BY <1>2 DEF EvaluateGoal

-----------------------------------------------------------------------------
(* What validate accepts *)

LEMMA ValidEquation ==
  \A c \in StopConditions, depth \in Nat :
    ValidAtDepth[c][depth] <=>
      NodeIsValid(c, depth) /\ \A d \in Children(c) : ValidAtDepth[d][depth + 1]
<1> DEFINE Depths == [Nat -> BOOLEAN]
           Here(c, f) == [depth \in Nat |->
              NodeIsValid(c, depth) /\ \A d \in Children(c) : f[d][depth + 1]]
           Body == [p \in StopConditions \X [StopConditions -> Depths] |-> Here(p[1], p[2])]
<1>1. ASSUME NEW c \in StopConditions, NEW f \in [StopConditions -> Depths]
      PROVE  Body[<<c, f>>] = Here(c, f) /\ Here(c, f) \in Depths
  <2>1. Here(c, f) \in Depths
    OBVIOUS
  <2> HIDE DEF Here, Depths
  <2> QED  BY <2>1
<1>2. Body \in [StopConditions \X [StopConditions -> Depths] -> Depths]
  <2> HIDE DEF Here, Depths
  <2> QED  BY <1>1
<1>3. ASSUME NEW c \in StopConditions, NEW f, NEW g, \A d \in Children(c) : f[d] = g[d]
      PROVE  Here(c, f) = Here(c, g)
  BY <1>3
<1>4. DependsOnChildren(Depths, Body)
  <2> HIDE DEF Body, Here, Depths
  <2>1. \A c \in StopConditions : \A f, g \in [StopConditions -> Depths] :
          (\A d \in Children(c) : f[d] = g[d]) => Body[<<c, f>>] = Body[<<c, g>>]
    BY <1>1, <1>3
  <2> QED  BY <1>2, <2>1 DEF DependsOnChildren
<1>5. PICK f : f \in [StopConditions -> Depths] /\ \A c \in StopConditions : f[c] = Here(c, f)
  <2>1. Depths # {}
    <3>1. [depth \in Nat |-> TRUE] \in Depths
      OBVIOUS
    <3> QED  BY <3>1
  <2> HIDE DEF Body, Here, Depths
  <2>2. PICK f : Solution(Depths, Body, f)
    BY <1>4, <2>1, TreeRecursion
  <2> QED  BY <1>1, <2>2 DEF Solution
<1>6. ASSUME NEW c \in StopConditions, NEW v
      PROVE  Here(c, v) = [depth \in Nat |->
               /\ NodeIsValid(c, depth)
               /\ IsComposition(c) =>
                    \A i \in DOMAIN c.conditions : v[c.conditions[i]][depth + 1]]
  <2>1. CASE IsComposition(c)
    <3>1. \A d : d \in Children(c) <=> \E i \in DOMAIN c.conditions : d = c.conditions[i]
      BY <2>1 DEF Children, Range
    <3> QED  BY <2>1, <3>1
  <2>2. CASE ~IsComposition(c)
    BY <2>2 DEF Children
  <2> QED  BY <2>1, <2>2
<1>7. f = [c \in StopConditions |-> [depth \in Nat |->
             /\ NodeIsValid(c, depth)
             /\ IsComposition(c) =>
                  \A i \in DOMAIN c.conditions : f[c.conditions[i]][depth + 1]]]
  <2> HIDE DEF Here
  <2> QED  BY <1>5, <1>6
<1>8. ValidAtDepth = [c \in StopConditions |-> [depth \in Nat |->
             /\ NodeIsValid(c, depth)
             /\ IsComposition(c) =>
                  \A i \in DOMAIN c.conditions : ValidAtDepth[c.conditions[i]][depth + 1]]]
  BY <1>7 DEF ValidAtDepth
<1>9. ASSUME NEW c \in StopConditions PROVE ValidAtDepth[c] = Here(c, ValidAtDepth)
  <2> HIDE DEF Here
  <2> DEFINE valid == ValidAtDepth
             said == [depth \in Nat |->
               /\ NodeIsValid(c, depth)
               /\ IsComposition(c) =>
                    \A i \in DOMAIN c.conditions : valid[c.conditions[i]][depth + 1]]
  <2>1. Here(c, valid) = said
    <3> HIDE DEF valid
    <3> QED  BY <1>6
  <2>2. valid[c] = said
    BY <1>8
  <2> QED  BY <2>1, <2>2
<1>10. ASSUME NEW c \in StopConditions, NEW depth \in Nat
       PROVE  ValidAtDepth[c][depth] =
                (NodeIsValid(c, depth) /\ \A d \in Children(c) : ValidAtDepth[d][depth + 1])
  BY <1>9
<1> QED  BY <1>10

\* What validate accepts at a depth is no higher than what is left of the limit.
LEMMA ValidIsBounded ==
  ASSUME MaxCompositionDepth <= MaxHeight
  PROVE  \A c \in StopConditions : \A depth \in Nat : ValidAtDepth[c][depth] =>
           depth <= MaxCompositionDepth /\ c \in Trees[MaxCompositionDepth - depth]
<1> DEFINE Fits(c) == \A depth \in Nat : ValidAtDepth[c][depth] =>
             depth <= MaxCompositionDepth /\ c \in Trees[MaxCompositionDepth - depth]
           P == {c \in StopConditions : Fits(c)}
<1>1. ASSUME NEW c \in StopConditions, Children(c) \subseteq P PROVE c \in P
  <2>1. SUFFICES ASSUME NEW depth \in Nat, ValidAtDepth[c][depth]
                 PROVE  /\ depth <= MaxCompositionDepth
                        /\ c \in Trees[MaxCompositionDepth - depth]
    BY Zenon
  <2>2. NodeIsValid(c, depth) /\ \A d \in Children(c) : ValidAtDepth[d][depth + 1]
    BY <2>1, ValidEquation
  <2>3. depth <= MaxCompositionDepth
    BY <2>2 DEF NodeIsValid
  <2> DEFINE h == MaxCompositionDepth - depth
  <2>4. h \in 0..MaxHeight
    BY <2>3, TreeAssumption
  <2>5. Trees[h] = LeafConditions(TaskNames)
           \cup (IF h = 0 THEN {} ELSE Compositions(Trees[h - 1]))
    BY <2>4, TreesEquation DEF Level
  <2>6. CASE c \in LeafConditions(TaskNames)
    BY <2>3, <2>5, <2>6
  <2>7. CASE c \notin LeafConditions(TaskNames)
    <3>1. c \in Compositions(Trees[MaxHeight - 1])
      BY <2>7, TreeShape, TreeAssumption DEF StopConditions
    <3>2. c.kind \in {"All", "Any"} /\ c.conditions \in Seq(Trees[MaxHeight - 1])
          /\ c = [kind |-> c.kind, conditions |-> c.conditions]
      BY <3>1 DEF Compositions
    <3>3. IsComposition(c) /\ c.conditions # <<>>
      BY <2>2, <3>2 DEF NodeIsValid, IsComposition
    <3>4. \A d \in Children(c) : depth + 1 <= MaxCompositionDepth
                                 /\ d \in Trees[MaxCompositionDepth - (depth + 1)]
      BY <1>1, <2>2
    <3>5. \A i \in DOMAIN c.conditions : c.conditions[i] \in Children(c)
      BY <3>3, ChildSequence
    <3>6. 1 \in DOMAIN c.conditions
      BY <3>2, <3>3
    <3>7. h > 0 /\ MaxCompositionDepth - (depth + 1) = h - 1
      BY <3>4, <3>5, <3>6, TreeAssumption
    <3>8. c.conditions \in Seq(Trees[h - 1])
      BY <3>2, <3>4, <3>5, <3>7
    <3>9. c \in Compositions(Trees[h - 1])
      BY <3>2, <3>8 DEF Compositions
    <3> QED  BY <2>3, <2>5, <3>7, <3>9
  <2> QED  BY <2>6, <2>7
<1>2. StopConditions \subseteq P
  <2> HIDE DEF P
  <2> QED  BY <1>1, TreeInduction
<1> QED  BY <1>2

\* What validate accepts is pending while nothing has happened.
LEMMA ValidIsPending ==
  \A c \in StopConditions : \A depth \in Nat : ValidAtDepth[c][depth] =>
    EvaluateGoal(c, NewContext, 0) = "NotYet"
<1> DEFINE st == Statuses(NewContext, 0)
           Pends(c) == \A depth \in Nat : ValidAtDepth[c][depth] => st[c] = "NotYet"
           P == {c \in StopConditions : Pends(c)}
<1>1. ASSUME NEW c \in StopConditions, Children(c) \subseteq P PROVE c \in P
  <2> HIDE DEF st
  <2>1. SUFFICES ASSUME NEW depth \in Nat, ValidAtDepth[c][depth] PROVE st[c] = "NotYet"
    BY Zenon
  <2>2. NodeIsValid(c, depth) /\ \A d \in Children(c) : ValidAtDepth[d][depth + 1]
    BY <2>1, ValidEquation
  <2>3. st[c] = NodeStatus(c, st, NewContext, 0)
    BY StatusesEquation DEF st
  <2>4. CASE ~IsComposition(c)
    <3>1. st[c] = LeafStatus(c, NewContext, 0)
      BY <2>3, <2>4 DEF NodeStatus, IsComposition
    <3>2. LeafIsValid(c) /\ c \in LeafConditions(TaskNames)
      <4>1. c \in LeafConditions(TaskNames)
        BY <2>4, TreeShape, TreeAssumption DEF StopConditions, Compositions, IsComposition
      <4> QED  BY <2>2, <2>4, <4>1 DEF NodeIsValid
    <3>3. CASE c.kind = "LoopCount"
      <4>1. c.target \in Nat /\ c.target > 0
        BY <3>2, <3>3 DEF LeafIsValid, LeafConditions
      <4> QED  BY <3>1, <3>3, <4>1 DEF LeafStatus, NewContext
    <3>4. CASE c.kind = "TemplateMatch"
      BY <3>1, <3>4 DEF LeafStatus, NewContext
    <3>5. CASE c.kind = "Timeout"
      <4>1. c.secs \in Nat /\ c.secs > 0
        BY <3>2, <3>5 DEF LeafIsValid, LeafConditions
      <4> QED  BY <3>1, <3>5, <4>1 DEF LeafStatus, TimedOut
    <3> QED  BY <2>4, <3>3, <3>4, <3>5, ChildrenOf DEF IsComposition
  <2>5. CASE IsComposition(c)
    <3> DEFINE statuses == ChildStatuses(c, st)
    <3>1. \A d \in Children(c) : st[d] = "NotYet"
      BY <1>1, <2>2
    <3>2. /\ DOMAIN c.conditions \in SUBSET Nat
          /\ statuses \in [DOMAIN c.conditions -> GoalStatuses]
          /\ \A i \in DOMAIN c.conditions : statuses[i] = "NotYet"
      <4>1. \A d \in Children(c) : st[d] \in GoalStatuses
        BY <3>1 DEF GoalStatuses
      <4>2. statuses \in [DOMAIN c.conditions -> GoalStatuses]
        BY <2>5, <4>1, NodeDecides
      <4>3. \A i \in DOMAIN c.conditions : statuses[i] = st[c.conditions[i]]
        BY DEF ChildStatuses
      <4> HIDE DEF statuses
      <4> QED  BY <2>5, <3>1, <4>2, <4>3, ChildSequence
    <3>3. 1 \in DOMAIN c.conditions
      BY <2>2, <2>5, ChildSequence DEF NodeIsValid
    <3> HIDE DEF statuses
    <3>4. EvaluateAllInOrder(statuses) = "NotYet"
      BY <3>2, <3>3, AllDecides DEF GoalStatuses
    <3>5. EvaluateAny(statuses) = "NotYet"
      BY <3>2, AnyDecides DEF GoalStatuses
    <3> QED  BY <2>3, <2>5, <3>4, <3>5 DEF NodeStatus, IsComposition, statuses
  <2> QED  BY <2>4, <2>5
<1>2. StopConditions \subseteq P
  <2> HIDE DEF P
  <2> QED  BY <1>1, TreeInduction
<1> QED  BY <1>2 DEF EvaluateGoal

-----------------------------------------------------------------------------
(* The run *)

Hits == {i \in DOMAIN seen : seen[i] # NoMatchYet}

\* A nonempty set of steps has a latest one.
LEMMA LatestOf ==
  ASSUME NEW n \in Nat, NEW H \in SUBSET (1..n), H # {}
  PROVE  /\ Max(H) \in H
         /\ \A i \in H : i <= Max(H)
<1> DEFINE Back == {k \in Nat : n - k \in H}
<1>1. Back # {}
  <2>1. PICK i \in H : TRUE
    OBVIOUS
  <2>2. n - i \in Back
    BY <2>1
  <2> QED  BY <2>2
<1>2. PICK k \in Back : \A j \in Back : k <= j
  <2>1. Back \in SUBSET Nat
    OBVIOUS
  <2> HIDE DEF Back
  <2> QED  BY <1>1, <2>1, SmallestOf
<1>3. n - k \in H /\ \A i \in H : i <= n - k
  <2>1. \A i \in H : n - i \in Back
    OBVIOUS
  <2> QED  BY <1>2, <2>1
<1>4. \E m \in H : \A i \in H : m >= i
  BY <1>3
<1> QED  BY <1>4 DEF Max

\* The latest match of a history that is one step longer.
LEMMA LatestMatchNext ==
  ASSUME NEW M, seen \in Seq(M), NEW m \in M, seen' = Append(seen, m)
  PROVE  LatestMatch' = IF m # NoMatchYet THEN m ELSE LatestMatch
<1>1. /\ Hits \in SUBSET (1..Len(seen)) /\ Len(seen) \in Nat
      /\ \A i \in 1..Len(seen) : seen'[i] = seen[i]
      /\ seen'[Len(seen) + 1] = m
      /\ DOMAIN seen' = 1..(Len(seen) + 1)
  BY DEF Hits
<1>2. LatestMatch = IF Hits = {} THEN NoMatchYet ELSE seen[Max(Hits)]
  BY DEF LatestMatch, Hits
<1>3. LatestMatch' = IF Hits' = {} THEN NoMatchYet ELSE seen'[Max(Hits')]
  BY DEF LatestMatch, Hits
<1>4. CASE m = NoMatchYet
  <2>1. Hits' = Hits
    BY <1>1, <1>4 DEF Hits
  <2>2. Hits # {} => Max(Hits) \in Hits
    BY <1>1, LatestOf
  <2> QED  BY <1>1, <1>2, <1>3, <1>4, <2>1, <2>2
<1>5. CASE m # NoMatchYet
  <2>1. Len(seen) + 1 \in Hits' /\ Hits' \in SUBSET (1..(Len(seen) + 1))
    BY <1>1, <1>5 DEF Hits
  <2> DEFINE n == Len(seen) + 1
             H == Hits'
  <2>2. n \in Nat /\ n \in H /\ H \in SUBSET (1..n)
    BY <1>1, <2>1
  <2>3. Max(H) = n
    <3> HIDE DEF n, H
    <3>1. Max(H) \in H /\ \A i \in H : i <= Max(H)
      BY <2>2, LatestOf
    <3>2. Max(H) \in 1..n /\ n <= Max(H)
      BY <2>2, <3>1
    <3> QED  BY <2>2, <3>2
  <2> QED  BY <1>1, <1>3, <1>5, <2>1, <2>3
<1> QED  BY <1>4, <1>5

\* Of the run: its goal is a tree, its context the record of its history, and
\* its status what evaluate gave for both at the last step, if there was one.
RunInv ==
  /\ goal \in StopConditions
  /\ seen \in Seq(StepMatches)
  /\ Recorded(ctx)
  /\ status = IF seen = <<>> THEN "NotYet" ELSE EvaluateGoal(goal, ctx, evaluatedAt)

LEMMA RunInit == Init => RunInv
<1> SUFFICES ASSUME Init PROVE RunInv
  OBVIOUS
<1>1. goal \in StopConditions
  BY CandidatesAssumption DEF Init
<1>2. seen = <<>> /\ status = "NotYet" /\ ctx.iterations = 0 /\ ctx.lastMatch = NoMatchYet
  BY DEF Init, NewContext
<1>3. LatestMatch = NoMatchYet
  BY <1>2 DEF LatestMatch
<1> QED  BY <1>1, <1>2, <1>3 DEF RunInv, Recorded

LEMMA RunKeeps == RunInv /\ [Next]_vars => RunInv'
<1> SUFFICES ASSUME RunInv, [Next]_vars PROVE RunInv'
  OBVIOUS
<1>1. CASE DriverStep
  <2>1. PICK m \in StepMatches : ctx' = TickContext(ctx, m) /\ seen' = Append(seen, m)
    BY <1>1 DEF DriverStep
  <2>2. seen' \in Seq(StepMatches) /\ seen' # <<>> /\ Len(seen') = Len(seen) + 1
    BY <2>1 DEF RunInv
  <2>3. Recorded(ctx)'
    <3>1. LatestMatch' = IF m # NoMatchYet THEN m ELSE LatestMatch
      BY <2>1, LatestMatchNext DEF RunInv
    <3> QED  BY <2>1, <2>2, <3>1 DEF RunInv, Recorded, TickContext
  <2>4. status' = EvaluateGoal(goal', ctx', evaluatedAt')
    BY <1>1 DEF DriverStep
  <2> QED  BY <1>1, <2>2, <2>3, <2>4 DEF RunInv, DriverStep
<1>2. CASE TimePasses
  BY <1>2 DEF TimePasses, RunInv, Recorded, LatestMatch
<1>3. CASE UNCHANGED vars
  BY <1>3 DEF vars, RunInv, Recorded, LatestMatch
<1> QED  BY <1>1, <1>2, <1>3 DEF Next

LEMMA RunDecides ==
  ASSUME RunInv
  PROVE  /\ status # "NotYet" \/ seen # <<>> => JustifiedBy(goal, status)
         /\ DecisionIsJustified /\ AnyFailurePriority /\ MetIsNoticed
<1>1. JustifiedBy(goal, EvaluateGoal(goal, ctx, evaluatedAt))
  BY TreeJustified DEF RunInv
<1>2. DecisionIsJustified
  BY <1>1 DEF RunInv, DecisionIsJustified, JustifiedBy, Limit
<1>3. MetIsNoticed
  BY <1>1 DEF RunInv, MetIsNoticed, JustifiedBy, Limit
<1>4. AnyFailurePriority
  BY LimitFails DEF RunInv, AnyFailurePriority, Expired, TimedOut
<1> QED  BY <1>1, <1>2, <1>3, <1>4 DEF RunInv

\* Over every run of an accepted goal, of whatever shape, the context records the
\* history and the status is what evaluation gave for it at the last step.
THEOREM RunInvariant == Spec => []RunInv
BY RunInit, RunKeeps, PTL DEF Spec

\* For every set of trees a user may write, every nesting and every history of
\* a run: a goal is reached only when the history meets it, and failed only by a
\* limit that has run out.
THEOREM DecisionJustified == Spec => []DecisionIsJustified
<1>1. RunInv => DecisionIsJustified
  BY RunDecides
<1> QED  BY <1>1, RunInvariant, PTL

\* Below an Any, however deep, a limit that has run out is never masked by a child
\* that is met.
THEOREM AnyFailureFirst == Spec => []AnyFailurePriority
<1>1. RunInv => AnyFailurePriority
  BY RunDecides
<1> QED  BY <1>1, RunInvariant, PTL

\* A step leaves no goal pending that is met, however its counts, templates and
\* limits are nested.
THEOREM MetNoticed == Spec => []MetIsNoticed
<1>1. RunInv => MetIsNoticed
  BY RunDecides
<1> QED  BY <1>1, RunInvariant, PTL

\* What holds of the goal of a run from its start, as validate accepted it.
THEOREM BoundedGoal == Spec => []DepthIsBounded
<1>1. Init => DepthIsBounded
  <2>1. ASSUME Init, MaxCompositionDepth <= MaxHeight PROVE goal \in Trees[MaxCompositionDepth]
    <3>1. goal \in StopConditions /\ ValidAtDepth[goal][0] /\ 0 \in Nat
      BY <2>1, CandidatesAssumption DEF Init, Validate
    <3>2. goal \in Trees[MaxCompositionDepth - 0]
      BY <2>1, <3>1, ValidIsBounded
    <3> QED  BY <3>2, TreeAssumption
  <2> QED  BY <2>1 DEF DepthIsBounded
<1>2. DepthIsBounded /\ [Next]_vars => DepthIsBounded'
  BY DEF DepthIsBounded, Next, DriverStep, TimePasses, vars
<1> QED  BY <1>1, <1>2, PTL DEF Spec

StartInv ==
  /\ seen = <<>> => ctx = NewContext
  /\ EvaluateGoal(goal, NewContext, 0) = "NotYet"
  /\ seen \in Seq(StepMatches)

\* An accepted goal is pending while nothing has happened.
THEOREM StartPending == Spec => []PendingAtStart
<1>1. Init => StartInv
  <2> SUFFICES ASSUME Init PROVE StartInv
    OBVIOUS
  <2>1. goal \in StopConditions /\ ValidAtDepth[goal][0] /\ 0 \in Nat
    BY CandidatesAssumption DEF Init, Validate
  <2>2. EvaluateGoal(goal, NewContext, 0) = "NotYet"
    BY <2>1, ValidIsPending
  <2> QED  BY <2>2 DEF Init, StartInv
<1>2. StartInv /\ [Next]_vars => StartInv'
  <2> SUFFICES ASSUME StartInv, [Next]_vars PROVE StartInv'
    OBVIOUS
  <2>1. CASE DriverStep
    <3>1. PICK m \in StepMatches : seen' = Append(seen, m) /\ goal' = goal
      BY <2>1 DEF DriverStep
    <3>2. seen' # <<>> /\ seen' \in Seq(StepMatches)
      BY <3>1 DEF StartInv
    <3> QED  BY <3>1, <3>2 DEF StartInv
  <2>2. CASE TimePasses
    BY <2>2 DEF StartInv, TimePasses
  <2>3. CASE UNCHANGED vars
    BY <2>3 DEF StartInv, vars
  <2> QED  BY <2>1, <2>2, <2>3 DEF Next
<1>3. StartInv => PendingAtStart
  BY DEF StartInv, PendingAtStart
<1> QED  BY <1>1, <1>2, <1>3, PTL DEF Spec

\* For every tree that validation accepts, of any height and width, and every
\* depth limit.
THEOREM AcceptedSound == Spec => []AcceptedIsSound
BY BoundedGoal, StartPending, PTL DEF AcceptedIsSound
=============================================================================
