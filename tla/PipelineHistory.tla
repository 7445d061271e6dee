--------------------------- MODULE PipelineHistory --------------------------
(***************************************************************************)
(* The pipeline driver with a history: a log of what happened to the game, *)
(* written beside the driver and never read by it.  The properties compare *)
(* what the driver decides and reports, from its counters and flags, with  *)
(* what the log says took place.                                           *)
(***************************************************************************)
EXTENDS PipelineDriver, SequencesExt

VARIABLE log

hvars == <<vars, log>>

Entry(ev, task) == [ev |-> ev, task |-> task, at |-> now]

Quiet == UNCHANGED log
Note(ev, task) == log' = Append(log, Entry(ev, task))

\* The step outcome ev is handled, and the hook started if the loop awaits it.
Handled(ev) ==
  LET told == Append(log, Entry(ev, pre))
  IN log' = IF pc' = "Recover" THEN Append(told, Entry("hook", None)) ELSE told

HInit == Init /\ log = <<>>

HNext ==
  \/ (LoopInterrupted \/ LoopLimit \/ LoopBegin \/ Wake) /\ Quiet
  \/ (CaptureFails \/ WatchMatches \/ TaskAbsent \/ DetectFails \/ TaskMatches)
     /\ Quiet
  \/ ExecuteOk /\ Note("sent", step.task)
  \/ ExecuteFails /\ Quiet
  \/ VerifyCaptureFails /\ Note("unseen", pre)
  \/ (VerifyStillPresent \/ VerifyGone) /\ Quiet
  \/ StepMatched /\ Handled("match")
  \/ StepWatchFired /\ Handled("watch")
  \/ (StepNoMatch \/ StepFiredUnverified) /\ Handled("miss")
  \/ StepError /\ Handled("error")
  \/ HookSucceeds /\ Note("restart", None)
  \/ HookFails /\ Quiet
  \/ (Cancel \/ Tick) /\ Quiet

HSpec == HInit /\ [][HNext]_hvars /\ Fairness

-----------------------------------------------------------------------------
(* Reading the log *)

Events(evs) == {i \in DOMAIN log : log[i].ev \in evs}

\* The entries after the last healthy step before i: the current outage.
OutageSince(i) == {j \in 1..i : ~\E h \in Events({"match", "watch"}) : j <= h /\ h <= i}

\* Restarts of the same outage before i.
RestartsBefore(i) == {j \in OutageSince(i) : j < i /\ log[j].ev = "restart"}

Booting(i) == \E j \in RestartsBefore(i) : log[i].at - log[j].at < Grace

\* The misses that count at i: those of the outage since its last restart,
\* without those during the boot grace.
Counted(i) == {j \in OutageSince(i) : /\ log[j].ev = "miss"
                                     /\ ~Booting(j)
                                     /\ \A r \in RestartsBefore(i) : r < j}

HooksIn(S) == Cardinality({j \in S : log[j].ev = "hook"})

Here == Len(log)

-----------------------------------------------------------------------------
(* Properties *)

\* US-CLI-11: after a relaunch the game is left alone for the grace period
\* unless a task matched in between, whatever errors and misses it shows.
NoHookWhileBooting == \A i \in Events({"hook"}) : ~Booting(i)

\* A hook is never called on a hunch: it follows an I/O error, or the miss
\* that completes Threshold counted ones.
HookHasCause ==
  \A i \in Events({"hook"}) :
    \/ log[i - 1].ev = "error"
    \/ log[i - 1].ev = "miss" /\ Cardinality(Counted(i)) >= Threshold

\* And it is not withheld: with recovery on, no outage outside the grace
\* reaches Threshold misses without the hook, a decided goal or the budget.
MissesNotIgnored ==
  \A i \in Events({"miss"}) :
    (RecoveryEnabled /\ Cardinality(Counted(i)) >= Threshold)
      => \/ i < Here /\ log[i + 1].ev = "hook"
         \/ i = Here /\ pc = "Done"

\* The report's recovery telemetry tells the hooks that were really called
\* and the longest series of them in one outage.
TelemetryIsExact ==
  pc = "Done" =>
    /\ outcome.attempts = HooksIn(DOMAIN log)
    /\ \A i \in DOMAIN log : HooksIn(OutageSince(i)) <= outcome.maxConsecutive
    /\ \/ outcome.maxConsecutive = 0
       \/ \E i \in DOMAIN log : HooksIn(OutageSince(i)) = outcome.maxConsecutive

\* The commands whose effect could be looked at, or was not to be.
Told == {i \in Events({"sent"}) : ~(i < Here /\ log[i + 1].ev = "unseen")}

\* The commands of the report are those that reached the game, in order,
\* except the ones whose effect could not be looked at.
ReportTellsCommands ==
  pc = "Done" =>
    \E pos \in [DOMAIN outcome.fired -> Told] :
      /\ Told = {pos[k] : k \in DOMAIN pos}
      /\ \A k \in DOMAIN pos : /\ outcome.fired[k] = log[pos[k]].task
                              /\ \A m \in DOMAIN pos : m < k => pos[m] < pos[k]

Handlings == Events({"match", "watch", "miss", "error"})

\* US-CLI-12: the pipeline stays at a task whose template is still there, and
\* at one that a watch task interrupted.  It moves on only after a match, or
\* when the effect of its command could not be looked at.
PositionFollowsEvidence ==
  (pc \in {"Sleep", "Top"} /\ Handlings # {}) =>
    LET last == log[Max(Handlings)]
        unseen == Max(Handlings) > 1 /\ log[Max(Handlings) - 1].ev = "unseen"
    IN current = IF last.ev = "match" \/ unseen
                 THEN (IF AdvanceNext(last.task) = None THEN last.task
                       ELSE AdvanceNext(last.task))
                 ELSE last.task
=============================================================================
