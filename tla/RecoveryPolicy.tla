--------------------------- MODULE RecoveryPolicy ---------------------------
(***************************************************************************)
(* What a run promises about recovery, whatever its pipeline, goal, clock  *)
(* and errors are (README: recovery; US-CLI-10): the game is restarted at  *)
(* most MaxAttempts times with no healthy step in between, a healthy step  *)
(* and nothing else gives the attempts back, the run gives up only when    *)
(* they are spent, and its report tells the attempts that were made.       *)
(***************************************************************************)
EXTENDS Integers

CONSTANTS MaxAttempts, None

VARIABLES
  phase,    \* running, recovering, ended or exhausted
  healthy,  \* the step at hand saw a task or a popup that it knows
  used,     \* attempts since the last healthy step
  total,    \* attempts of the run
  longest,  \* the longest series of them without a healthy step
  report    \* total and longest as they are reported, or None

vars == <<phase, healthy, used, total, longest, report>>

Init ==
  /\ phase = "running"
  /\ healthy = FALSE
  /\ used = 0 /\ total = 0 /\ longest = 0
  /\ report = None

Ends(how) == phase' = how /\ report' = [total |-> total', longest |-> longest']

Observe ==
  /\ phase = "running"
  /\ healthy' \in BOOLEAN
  /\ UNCHANGED <<phase, used, total, longest, report>>

\* A healthy step may be the last one.
GiveBack ==
  /\ phase = "running" /\ healthy
  /\ healthy' = FALSE
  /\ used' = 0
  /\ UNCHANGED <<total, longest>>
  /\ UNCHANGED <<phase, report>> \/ Ends("ended")

Recover ==
  /\ phase = "running" /\ ~healthy
  /\ used < MaxAttempts
  /\ phase' = "recovering"
  /\ used' = used + 1
  /\ total' = total + 1
  /\ longest' = IF used' > longest THEN used' ELSE longest
  /\ UNCHANGED <<healthy, report>>

Recovered ==
  /\ phase = "recovering"
  /\ phase' = "running"
  /\ UNCHANGED <<healthy, used, total, longest, report>>

GiveUp ==
  /\ phase = "running" /\ ~healthy
  /\ used = MaxAttempts
  /\ Ends("exhausted")
  /\ UNCHANGED <<healthy, used, total, longest>>

\* For any other reason, a hook that failed among them.
End ==
  /\ phase \in {"running", "recovering"} /\ ~healthy
  /\ Ends("ended")
  /\ UNCHANGED <<healthy, used, total, longest>>

Next == Observe \/ GiveBack \/ Recover \/ Recovered \/ GiveUp \/ End

Spec == Init /\ [][Next]_vars
=============================================================================
