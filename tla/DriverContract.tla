--------------------------- MODULE DriverContract ---------------------------
(***************************************************************************)
(* What a caller of the pipeline driver may rely on, and all that a        *)
(* routine knows of it: the driver goes round and sends commands, asks for *)
(* recoveries within a budget that a round may give back, and ends for a   *)
(* reason that tells what it has done.                                     *)
(***************************************************************************)
EXTENDS Integers

CONSTANTS
  Recovers,    \* it has a hook and a threshold
  HasGoal,
  Cancellable, \* it has a cancellation token
  MaxAttempts

VARIABLES
  phase, \* Driving, Hook, or the reason of its end
  used,  \* attempts since the budget was given back
  fired  \* a command was sent

vars == <<phase, used, fired>>

\* Only a driver that cannot recover reports that it could not capture.
Reasons ==
  {"Stop", "TerminalTask", "MaxIterations", "ExecuteError"}
    \cup (IF Recovers THEN {"RecoveryExhausted"} ELSE {"CaptureError"})
    \cup (IF HasGoal THEN {"GoalReached", "GoalTimeout"} ELSE {})
    \cup (IF Cancellable THEN {"Interrupted"} ELSE {})

Init == phase = "Driving" /\ used = 0 /\ fired = FALSE

Round ==
  /\ phase = "Driving"
  /\ used' \in {0, used}
  /\ fired' \in {fired, TRUE}
  /\ UNCHANGED phase

Recover ==
  /\ phase = "Driving"
  /\ Recovers
  /\ used < MaxAttempts
  /\ used' = used + 1
  /\ phase' = "Hook"
  /\ UNCHANGED fired

HookSucceeds == phase = "Hook" /\ phase' = "Driving" /\ UNCHANGED <<used, fired>>

\* A terminal task is one whose command was sent, an exhausted budget is spent,
\* and a hook that failed ends the run.
MayEnd(reason) ==
  \/ /\ phase = "Driving"
     /\ reason = "TerminalTask" => fired
     /\ reason = "RecoveryExhausted" => used = MaxAttempts
  \/ phase = "Hook" /\ reason = "ExecuteError"

End ==
  \E reason \in Reasons :
    MayEnd(reason) /\ phase' = reason /\ UNCHANGED <<used, fired>>

Next == Round \/ Recover \/ HookSucceeds \/ End

Spec == Init /\ [][Next]_vars
=============================================================================
