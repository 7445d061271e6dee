------------------------- MODULE MCPipelineRecovery -------------------------
(* A chain with a popup on watch: login sends a command, notice only moves  *)
(* on, and home names no next task, so a command of it ends the run.  The   *)
(* verification of effects is on and the game may die at any capture, and   *)
(* again after each of two recoveries.                                     *)
EXTENDS PipelineHistory

MCTasks == {"login", "notice", "home", "popup"}
MCDefined == MCTasks
MCActionOf == [login |-> "Input", notice |-> "DoNothing", home |-> "Input",
               popup |-> "Input"]
MCNextOf == [login |-> "notice", notice |-> "home", home |-> None, popup |-> "login"]
MCWatch == <<"popup">>
MCNoGoal(ctx, elapsed) == "NotYet"
=============================================================================
