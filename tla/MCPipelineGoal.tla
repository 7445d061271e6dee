--------------------------- MODULE MCPipelineGoal ---------------------------
(* Three steps and the clear button, or the popup if that counted; or four  *)
(* steps, within three seconds: over a chain of two tasks and a popup.      *)
EXTENDS PipelineGoal

MCTasks == {"farm", "clear", "popup"}
MCActionOf == [farm |-> "DoNothing", clear |-> "Input", popup |-> "DoNothing"]
MCNextOf == [farm |-> "clear", clear |-> None, popup |-> None]
MCWatch == <<"popup">>
MCNoWatch == <<>>
Cleared == GoalEval!Any(<<GoalEval!TemplateMatch("clear", 2), GoalEval!TemplateMatch("popup", 1)>>)
MCGoals ==
  <<GoalEval!All(<<GoalEval!LoopCount(3), Cleared>>),
    GoalEval!Any(<<GoalEval!LoopCount(4), GoalEval!Timeout(3)>>)>>
MCLoopCount == <<GoalEval!LoopCount(3)>>

ASSUME PursuedAssumption == Pursued
=============================================================================
