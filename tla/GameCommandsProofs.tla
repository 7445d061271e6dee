------------------------- MODULE GameCommandsProofs -------------------------
(***************************************************************************)
(* A restart replaces the game, and an exit code tells what happened, for  *)
(* every number of games, launchers, steps and attempts, and however       *)
(* processes come and go meanwhile.                                        *)
(***************************************************************************)
EXTENDS GameCommands, FiniteSetTheorems, SequenceTheorems, TLAPS

-----------------------------------------------------------------------------
(* Processes are numbered as they start, so one that starts later is none of
   those that ran when an operation was asked for. *)

Numbered ==
  /\ born \in Nat
  /\ games \subseteq 1..born
  /\ asked.games \subseteq 1..born
  /\ attempt \in Nat

Restarting == phase = "Hook" /\ attempt > 1

\* Where a restart may be, and what holds there: no launcher is started before
\* the old games are gone.
RestartStages ==
  Restarting =>
    /\ op \in {"Close", "Closing", "Force", "Launch", "Idle"}
    /\ op # "Idle" => spawned = asked.spawned
    /\ op = "Launch" => games \cap asked.games = {}
    /\ op = "Idle" =>
         \/ /\ result = "Ok"
            /\ games \cap asked.games = {}
            /\ spawned = asked.spawned + 1
         \/ result = "Error" /\ spawned = asked.spawned

RestartInv == Numbered /\ RestartStages

LEMMA InitRestart == Init => RestartInv
<1> SUFFICES ASSUME Init PROVE RestartInv
  OBVIOUS
<1>1. asked.games = {} /\ phase = "Start" /\ attempt = 0
  BY DEF Init, InitLife
<1>2. CASE games = {}
  <2>1. born \in Nat
    BY <1>2, FS_EmptySet DEF Init, InitLife
  <2> QED  BY <1>1, <1>2, <2>1 DEF RestartInv, Numbered, RestartStages, Restarting
<1>3. CASE games = {1}
  <2>1. born = 1
    BY <1>3, FS_Singleton DEF Init, InitLife
  <2> QED  BY <1>1, <1>3, <2>1 DEF RestartInv, Numbered, RestartStages, Restarting
<1> QED  BY <1>2, <1>3 DEF Init, InitLife

-----------------------------------------------------------------------------
(* The system may start a numbered game, end one, or let a deadline pass. *)

LEMMA SystemRestart ==
  ASSUME RestartInv, System, UNCHANGED cmdVars
  PROVE  RestartInv'
<1>1. UNCHANGED <<phase, attempt>> /\ UNCHANGED <<op, result, spawned, asked>>
  BY DEF System, LauncherStartsGame, LauncherQuits, GameExits, DeadlinePasses,
         cmdVars, opVars
<1>2. CASE LauncherStartsGame
  <2>1. born' = born + 1 /\ games' = games \cup {born'} /\ born \in Nat
    BY <1>2 DEF LauncherStartsGame, RestartInv, Numbered
  <2>2. games' \cap asked.games = games \cap asked.games
    BY <2>1 DEF RestartInv, Numbered
  <2>3. Numbered'
    BY <1>1, <2>1 DEF RestartInv, Numbered
  <2>4. RestartStages'
    BY <1>1, <2>2 DEF RestartInv, RestartStages, Restarting
  <2> QED  BY <2>3, <2>4 DEF RestartInv
<1>3. CASE LauncherQuits \/ GameExits \/ DeadlinePasses
  <2>1. born' = born /\ games' \subseteq games
    BY <1>3 DEF LauncherQuits, GameExits, DeadlinePasses, systemVars
  <2>2. Numbered'
    BY <1>1, <2>1 DEF RestartInv, Numbered
  <2>3. games \cap asked.games = {} => games' \cap asked.games = {}
    BY <2>1
  <2>4. RestartStages'
    BY <1>1, <2>3 DEF RestartInv, RestartStages, Restarting
  <2> QED  BY <2>2, <2>4 DEF RestartInv
<1> QED  BY <1>2, <1>3 DEF System

-----------------------------------------------------------------------------
(* The steps of an operation.  Those of ensure_open are not of a restart. *)

LEMMA OperationKeepsNumbers ==
  ASSUME Numbered, Operation, UNCHANGED cmdVars
  PROVE  Numbered' /\ UNCHANGED <<phase, attempt, asked>> /\ games' \subseteq games
<1>1. UNCHANGED <<phase, attempt>>
  BY DEF cmdVars
<1>2. born' = born /\ asked' = asked /\ games' \subseteq games
  BY DEF Operation, SnapshotFails, SpawnFails, LaunchApp, EnsureOpen, Terminate,
         PrecheckChildRunning, EnsureSpawns, ChildSeen, ChildNotAppeared, QueryAlive,
         QueryExited, QueryFails, ChildSurvives, PostClose, WaitUntilGone,
         ForceTerminate, ForcedGone, Go, Returns, SpawnLauncher, systemVars
<1> QED  BY <1>1, <1>2 DEF Numbered

LEMMA OperationStages ==
  ASSUME RestartInv, Operation, UNCHANGED cmdVars
  PROVE  RestartStages'
<1>1. Numbered' /\ UNCHANGED <<phase, attempt, asked>> /\ games' \subseteq games
  BY OperationKeepsNumbers DEF RestartInv
<1> SUFFICES ASSUME Restarting'
             PROVE  RestartStages'
  BY DEF RestartStages
<1>2. Restarting /\ RestartStages
  BY <1>1 DEF Restarting, RestartInv
<1>3. CASE SnapshotFails \/ SpawnFails
  BY <1>1, <1>2, <1>3 DEF SnapshotFails, SpawnFails, Returns, RestartStages
<1>4. CASE EnsureOpen
  BY <1>2, <1>4 DEF EnsureOpen, PrecheckChildRunning, EnsureSpawns, ChildSeen,
         ChildNotAppeared, QueryAlive, QueryExited, QueryFails, ChildSurvives,
         RestartStages
<1>5. CASE LaunchApp
  <2>1. op = "Launch" /\ op' = "Idle" /\ result' = "Ok" /\ spawned' = spawned + 1
    BY <1>5 DEF LaunchApp, SpawnLauncher
  <2>2. spawned = asked.spawned /\ games \cap asked.games = {}
    BY <1>2, <2>1 DEF RestartStages
  <2> QED  BY <1>1, <2>1, <2>2 DEF RestartStages
<1>6. CASE Terminate
  <2>1. op \in {"Close", "Closing", "Force"} /\ spawned' = spawned
    BY <1>6 DEF Terminate, PostClose, WaitUntilGone, ForceTerminate, ForcedGone, Go,
         Returns
  <2>2. \/ op' \in {"Closing", "Force"}
        \/ op' = "Launch" /\ games' = {}
        \/ op' = "Idle" /\ result' = "Error"
    BY <1>6 DEF Terminate, PostClose, WaitUntilGone, ForceTerminate, ForcedGone, Go,
         Returns, systemVars
  <2> QED  BY <1>1, <1>2, <2>1, <2>2 DEF RestartStages
<1> QED  BY <1>3, <1>4, <1>5, <1>6 DEF Operation

-----------------------------------------------------------------------------
(* The command.  Only a hook with a second attempt begins a restart. *)

LEMMA BeginKeepsNumbers ==
  ASSUME Numbered, NEW first, Begin(first)
  PROVE  /\ born' = born /\ games' = games /\ asked'.games = games
         /\ spawned' = spawned /\ asked'.spawned = spawned /\ op' = first
  BY DEF Begin, systemVars

LEMMA HookRestart ==
  ASSUME RestartInv, DriverRecovers
  PROVE  RestartInv'
<1> DEFINE first == IF attempt = 0 THEN "Launch" ELSE "Close"
<1>1. /\ born' = born /\ games' = games /\ asked'.games = games
      /\ spawned' = spawned /\ asked'.spawned = spawned /\ op' = first
  BY BeginKeepsNumbers DEF DriverRecovers, RestartInv
<1>2. attempt \in Nat /\ attempt' = attempt + 1
  BY DEF DriverRecovers, Driver!Recover, RestartInv, Numbered
<1>3. Numbered'
  BY <1>1, <1>2 DEF RestartInv, Numbered
<1>4. Restarting' => op' = "Close"
  BY <1>1, <1>2 DEF Restarting
<1>5. RestartStages'
  BY <1>1, <1>4 DEF RestartStages
<1> QED  BY <1>3, <1>5 DEF RestartInv

\* Every other step of a command leaves the hook behind or is not in it.
LEMMA CommandRestart ==
  ASSUME RestartInv, Standalone \/ Routine, ~DriverRecovers
  PROVE  RestartInv'
<1>1. CASE Standalone
  <2>1. phase' # "Hook" /\ attempt' = attempt
    BY <1>1 DEF Standalone, StartCommand, AfterForcedLaunch, AfterEnsure, ProbeFails,
         ProbeSample, ProbeEnds, Call, Exits, Goes, Back
  <2>2. UNCHANGED <<born, games>> /\ (asked' = asked \/ asked'.games = games)
    BY <1>1 DEF Standalone, StartCommand, AfterForcedLaunch, AfterEnsure, ProbeFails,
         ProbeSample, ProbeEnds, Call, Exits, Goes, Begin, lifeVars, systemVars, opVars
  <2> QED  BY <2>1, <2>2 DEF RestartInv, Numbered, RestartStages, Restarting
<1>2. CASE Routine
  <2>1. phase' # "Hook"
    BY <1>2 DEF Routine, InvokeFails, InvokeDriver, DriverStep, HookSucceeds, HookFails,
         DriverEnds, RoutineSummarized, RoutineInterrupted, DriverEnded, RecordStep,
         Goes, FinishWith, Driver!Round
  <2>2. attempt' \in Nat
    <3>1. attempt \in Nat
      BY DEF RestartInv, Numbered
    <3>2. CASE InvokeDriver \/ DriverStep
      <4>1. attempt' = 0 \/ attempt' = attempt
        BY <3>2 DEF InvokeDriver, DriverStep, Driver!Round
      <4> QED  BY <3>1, <4>1
    <3>3. CASE InvokeFails \/ HookFails \/ DriverEnds
      BY <3>1, <3>3 DEF InvokeFails, HookFails, DriverEnds, DriverEnded
    <3>4. CASE HookSucceeds \/ RoutineSummarized \/ RoutineInterrupted
      BY <3>1, <3>4 DEF HookSucceeds, RoutineSummarized, RoutineInterrupted, Goes
    <3> QED  BY <1>2, <3>2, <3>3, <3>4 DEF Routine
  <2>3. UNCHANGED <<born, games, asked>>
    BY <1>2 DEF Routine, InvokeFails, InvokeDriver, DriverStep, HookSucceeds, HookFails,
         DriverEnds, RoutineSummarized, RoutineInterrupted, DriverEnded, Goes,
         lifeVars, systemVars, opVars
  <2> QED  BY <2>1, <2>2, <2>3 DEF RestartInv, Numbered, RestartStages, Restarting
<1> QED  BY <1>1, <1>2

LEMMA NextRestart == RestartInv /\ [Next]_vars => RestartInv'
<1> SUFFICES ASSUME RestartInv, [Next]_vars PROVE RestartInv'
  OBVIOUS
<1>1. CASE DriverRecovers
  BY <1>1, HookRestart
<1>2. CASE (Standalone \/ Routine) /\ ~DriverRecovers
  BY <1>2, CommandRestart
<1>3. CASE Operation /\ UNCHANGED cmdVars
  BY <1>3, OperationKeepsNumbers, OperationStages DEF RestartInv
<1>4. CASE System /\ phase # "Exited" /\ UNCHANGED cmdVars
  BY <1>4, SystemRestart
<1>5. CASE UNCHANGED vars
  BY <1>5 DEF vars, lifeVars, systemVars, opVars, cmdVars, RestartInv, Numbered,
       RestartStages, Restarting
<1> QED  BY <1>1, <1>2, <1>3, <1>4, <1>5 DEF Next

\* A restart that succeeded has replaced the game and started one launcher; one
\* that failed has started none, so it never adds a game to one that runs.
THEOREM RestartCorrect == Spec => []RestartReplacesGame
<1>1. RestartInv => RestartReplacesGame
  BY DEF RestartInv, RestartStages, Restarting, RestartReplacesGame
<1> QED
  BY <1>1, InitRestart, NextRestart, PTL DEF Spec

-----------------------------------------------------------------------------
(* What ensure-open knows when it returns, and the exit code made of it *)

Up == {"AlreadyOpen", "Launched"}

\* ensure_open, at its stages.
EnsureStages ==
  phase = "Ensuring" =>
    /\ op \in {"Precheck", "Spawn", "Discover", "Monitor", "Idle"}
    /\ op \in {"Discover", "Monitor"} => spawned > 0
    /\ op = "Monitor" => born > 0
    /\ op = "Idle" => /\ result \in Up \cup {"Error", "Timeout"}
                      /\ result \in Up => born > 0
                      /\ result = "Timeout" => spawned > 0

ProbeStages ==
  phase = "Probing" =>
    op = "Idle" /\ command # "Routine" /\ readiness /\ result \in Up /\ born > 0

ExitTells ==
  /\ exit # None => phase = "Exited"
  /\ StandaloneExitTells

ExitInv ==
  /\ born \in Nat /\ spawned \in Nat /\ games \subseteq 1..born
  /\ phase \in {"Step", "Driving", "Hook", "Summary"} => command = "Routine"
  /\ EnsureStages /\ ProbeStages /\ ExitTells

-----------------------------------------------------------------------------
(* What a routine remembers of its steps *)

Statuses == Failures \cup {"Completed", "Skipped"}

Endings == [step : Nat, reason : Driver!Reasons \cup {"NotRun"}, fired : BOOLEAN]

\* A failure whose policy is to stop is the last thing that happens.
Fatal(k) == ~Good(k) /\ policy[k] = "Stop"

RoutineInv ==
  /\ policy \in [1..Steps -> Policies]
  /\ trail \in Seq(Endings)
  /\ results \in Seq(Statuses)
  /\ fired \in BOOLEAN
  /\ Len(trail) <= Len(results) /\ Len(results) <= Steps
  /\ \A k \in 1..Len(trail) : /\ trail[k].step = k
                              /\ Good(k) => results[k] = "Completed"
                              /\ ~Good(k) => results[k] \in Failures
                              /\ Fatal(k) => k = Len(trail) /\ Len(results) = Steps
  /\ \A k \in 1..Len(results) : k > Len(trail) => results[k] = "Skipped"
  /\ Len(trail) < Len(results) => \E k \in 1..Len(trail) : Fatal(k)
  /\ phase \notin {"Summary", "Exited"} => Len(results) < Steps
  /\ summary # None => phase = "Exited"
  /\ (summary # None /\ Len(results) = Steps) =>
       summary = Summarize /\ (exit = 0 => AllOk(summary))

-----------------------------------------------------------------------------
(* The exit code *)

\* The unprimed counters never go back: what was once started stays started.
Grown == /\ born \in Nat /\ spawned \in Nat /\ games \subseteq 1..born
         /\ born' \in Nat /\ spawned' \in Nat /\ games' \subseteq 1..born'
         /\ born <= born' /\ spawned <= spawned'

LEMMA InitExit == Init => ExitInv
<1> SUFFICES ASSUME Init PROVE ExitInv
  OBVIOUS
<1>1. born \in Nat /\ games \subseteq 1..born
  BY InitRestart DEF RestartInv, Numbered
<1>2. exit = None /\ phase = "Start" /\ spawned = 0 /\ None \notin Nat
  BY LifecycleAssumption DEF Init, InitLife
<1> QED
  BY <1>1, <1>2 DEF ExitInv, EnsureStages, ProbeStages, ExitTells, StandaloneExitTells

LEMMA LifeGrows ==
  ASSUME ExitInv, (Operation \/ System) /\ UNCHANGED cmdVars
  PROVE  Grown
<1>1. born \in Nat /\ spawned \in Nat /\ games \subseteq 1..born
  BY DEF ExitInv
<1>2. CASE System
  <2>1. spawned' = spawned /\ (born' = born \/ born' = born + 1) /\ games' \subseteq games \cup {born'}
        /\ (born' = born => games' \subseteq games)
    BY <1>1, <1>2 DEF System, LauncherStartsGame, LauncherQuits, GameExits, DeadlinePasses,
         systemVars, opVars
  <2> QED  BY <1>1, <2>1 DEF Grown
<1>3. CASE Operation
  <2>1. born' = born /\ games' \subseteq games /\ (spawned' = spawned \/ spawned' = spawned + 1)
    BY <1>3 DEF Operation, SnapshotFails, SpawnFails, LaunchApp, EnsureOpen, Terminate,
         PrecheckChildRunning, EnsureSpawns, ChildSeen, ChildNotAppeared, QueryAlive,
         QueryExited, QueryFails, ChildSurvives, PostClose, WaitUntilGone,
         ForceTerminate, ForcedGone, Go, Returns, SpawnLauncher, systemVars
  <2> QED  BY <1>1, <2>1 DEF Grown
<1> QED  BY <1>2, <1>3

\* While an operation or the system moves, the command keeps what it was told.
LEMMA LifeExit ==
  ASSUME ExitInv, (Operation \/ System) /\ UNCHANGED cmdVars
  PROVE  ExitInv'
<1>1. Grown /\ UNCHANGED <<phase, command, readiness, probe, exit>>
  BY LifeGrows DEF cmdVars
<1>2. EnsureStages'
  <2> SUFFICES ASSUME phase = "Ensuring" PROVE EnsureStages'
    BY <1>1 DEF EnsureStages
  <2>1. /\ op \in {"Precheck", "Spawn", "Discover", "Monitor", "Idle"}
        /\ op \in {"Discover", "Monitor"} => spawned > 0
        /\ op = "Monitor" => born > 0
        /\ op = "Idle" => /\ result \in Up \cup {"Error", "Timeout"}
                          /\ result \in Up => born > 0
                          /\ result = "Timeout" => spawned > 0
    BY DEF ExitInv, EnsureStages
  <2>2. (born > 0 => born' > 0) /\ (spawned > 0 => spawned' > 0)
    BY <1>1 DEF Grown
  <2>3. CASE System
    <3>1. UNCHANGED <<op, result>>
      BY <2>3 DEF System, LauncherStartsGame, LauncherQuits, GameExits, DeadlinePasses, opVars
    <3> QED  BY <2>1, <2>2, <3>1 DEF EnsureStages
  <2>4. CASE SnapshotFails \/ SpawnFails
    BY <2>4 DEF SnapshotFails, SpawnFails, Returns, EnsureStages, Up
  <2>5. CASE PrecheckChildRunning
    <3>1. games # {} => born > 0
      <4>1. ASSUME NEW g \in games PROVE born > 0
        <5>1. g \in 1..born /\ born \in Nat
          BY <1>1 DEF Grown
        <5> QED  BY <5>1
      <4> QED  BY <4>1
    <3> QED
      BY <2>2, <2>5, <3>1 DEF PrecheckChildRunning, Returns, Go, EnsureStages, Up
  <2>6. CASE EnsureSpawns
    BY <1>1, <2>6 DEF EnsureSpawns, SpawnLauncher, EnsureStages, Grown
  <2>7. CASE ChildSeen
    <3>1. born > 0 /\ op' = "Monitor" /\ spawned > 0
      BY <1>1, <2>1, <2>7 DEF ChildSeen, Grown
    <3> QED  BY <2>2, <3>1 DEF EnsureStages
  <2>8. CASE ChildNotAppeared \/ QueryExited \/ QueryFails \/ ChildSurvives
    <3>1. op \in {"Discover", "Monitor"} /\ op' = "Idle" /\ result' \in {"Timeout", "Error", "Launched"}
          /\ (result' = "Launched" => op = "Monitor")
      BY <2>8 DEF ChildNotAppeared, QueryExited, QueryFails, ChildSurvives, Returns
    <3> QED  BY <2>1, <2>2, <3>1 DEF EnsureStages, Up
  <2>9. CASE QueryAlive
    BY <2>1, <2>2, <2>9 DEF QueryAlive, EnsureStages
  <2>10. CASE LaunchApp \/ Terminate
    BY <2>1, <2>10 DEF LaunchApp, Terminate, PostClose, WaitUntilGone, ForceTerminate, ForcedGone
  <2> QED
    BY <2>3, <2>4, <2>5, <2>6, <2>7, <2>8, <2>9, <2>10 DEF Operation, EnsureOpen
<1>3. ProbeStages'
  <2> SUFFICES ASSUME phase = "Probing" PROVE ProbeStages'
    BY <1>1 DEF ProbeStages
  <2>1. op = "Idle" /\ command # "Routine" /\ readiness /\ result \in Up /\ born > 0
    BY DEF ExitInv, ProbeStages
  <2>2. ~Operation
    BY <2>1 DEF Operation, SnapshotFails, SpawnFails, LaunchApp, EnsureOpen, Terminate,
         PrecheckChildRunning, EnsureSpawns, ChildSeen, ChildNotAppeared, QueryAlive,
         QueryExited, QueryFails, ChildSurvives, PostClose, WaitUntilGone,
         ForceTerminate, ForcedGone
  <2>3. UNCHANGED <<op, result>>
    BY <2>2 DEF System, LauncherStartsGame, LauncherQuits, GameExits, DeadlinePasses, opVars
  <2> QED  BY <1>1, <2>1, <2>3 DEF ProbeStages, Grown
<1>4. ExitTells'
  BY <1>1 DEF ExitInv, ExitTells, StandaloneExitTells, Grown
<1> QED  BY <1>1, <1>2, <1>3, <1>4 DEF ExitInv, Grown

\* A command exits with 1, or with the code of what it was told.
LEMMA ExitsTell ==
  ASSUME ExitInv, NEW code, Exits(code),
         command # "Routine" =>
           /\ code = 0 => born > 0 /\ (readiness => ~(probe.frozen /\ probe.offline))
           /\ code = 2 => spawned > 0
           /\ code = 3 => probe.taken = Samples /\ readiness
  PROVE  ExitInv'
<1>1. /\ UNCHANGED <<command, readiness, probe, born, spawned, games>>
      /\ phase' = "Exited" /\ exit' = code
  BY DEF Exits, lifeVars, systemVars, opVars
<1> QED
  BY <1>1 DEF ExitInv, EnsureStages, ProbeStages, ExitTells, StandaloneExitTells

LEMMA CodesTell ==
  /\ \A r \in Up : StandaloneExitCode(r) = 0
  /\ StandaloneExitCode("Error") = 1
  /\ StandaloneExitCode("Timeout") = 2
  /\ StandaloneExitCode("NotReady") = 3
  BY DEF StandaloneExitCode, Up

LEMMA StandaloneExit == ASSUME ExitInv, Standalone PROVE ExitInv'
<1>0. /\ born \in Nat /\ spawned \in Nat /\ games \subseteq 1..born
      /\ phase # "Exited" => exit = None /\ None \notin Nat
  BY LifecycleAssumption DEF ExitInv, ExitTells
<1>1. ASSUME NEW first \in {"Precheck", "Launch"}, NEW next \in {"Forced", "Ensuring"},
             phase # "Exited", Call(first, next), next = "Ensuring" => first = "Precheck"
      PROVE  ExitInv'
  <2>1. /\ UNCHANGED <<command, readiness, probe, exit, born, spawned, games>>
        /\ phase' = next /\ op' = first
    BY <1>1 DEF Call, Begin, systemVars
  <2>2. exit' = None
    BY <1>0, <1>1, <2>1
  <2> QED
    BY <1>0, <1>1, <2>1, <2>2
       DEF ExitInv, EnsureStages, ProbeStages, ExitTells, StandaloneExitTells
<1>2. CASE StartCommand
  BY <1>1, <1>2 DEF StartCommand
<1>3. CASE AfterForcedLaunch
  BY <1>1, <1>3, ExitsTell DEF AfterForcedLaunch, Back
<1>4. CASE AfterEnsure
  <2>1. /\ phase = "Ensuring" /\ op = "Idle" /\ result \in Up \cup {"Error", "Timeout"}
        /\ (result \in Up => born > 0) /\ (result = "Timeout" => spawned > 0)
    BY <1>4 DEF AfterEnsure, Back, ExitInv, EnsureStages
  <2>2. ASSUME NEW next \in {"Step", "Probing"}, Goes(next),
               next = "Step" => command = "Routine",
               next = "Probing" => command # "Routine" /\ readiness /\ result \in Up
        PROVE  ExitInv'
    <3>1. /\ UNCHANGED <<command, readiness, probe, exit, born, spawned, games, op, result>>
          /\ phase' = next
      BY <2>2 DEF Goes, lifeVars, systemVars, opVars
    <3>2. exit' = None
      BY <1>0, <2>1, <3>1
    <3> QED
      BY <1>0, <2>1, <2>2, <3>1, <3>2
         DEF ExitInv, EnsureStages, ProbeStages, ExitTells, StandaloneExitTells
  <2>3. CASE command = "Routine"
    BY <1>4, <2>2, <2>3 DEF AfterEnsure
  <2>4. CASE command # "Routine" /\ readiness /\ result \in Up
    BY <1>4, <2>2, <2>4 DEF AfterEnsure, Up
  <2>5. CASE command # "Routine" /\ ~(readiness /\ result \in Up)
    <3>1. Exits(StandaloneExitCode(result))
      BY <1>4, <2>5 DEF AfterEnsure, Up
    <3>2. CASE result \in Up
      BY <2>1, <2>5, <3>1, <3>2, CodesTell, ExitsTell
    <3>3. CASE result = "Error"
      BY <3>1, <3>3, CodesTell, ExitsTell
    <3>4. CASE result = "Timeout"
      BY <2>1, <3>1, <3>4, CodesTell, ExitsTell
    <3> QED  BY <2>1, <3>2, <3>3, <3>4
  <2> QED  BY <2>3, <2>4, <2>5
<1>5. CASE ProbeFails
  BY <1>5, ExitsTell DEF ProbeFails
<1>6. CASE ProbeSample
  <2>1. /\ UNCHANGED <<command, readiness, exit, born, spawned, games, op, result, phase>>
        /\ phase = "Probing"
    BY <1>6 DEF ProbeSample, Back, lifeVars, systemVars, opVars
  <2>2. exit' = None
    BY <1>0, <2>1
  <2> QED
    BY <1>0, <2>1, <2>2 DEF ExitInv, EnsureStages, ProbeStages, ExitTells, StandaloneExitTells
<1>7. CASE ProbeEnds
  <2>1. /\ phase = "Probing" /\ readiness /\ result \in Up /\ born > 0
        /\ ~probe.frozen \/ probe.taken = Samples
    BY <1>7 DEF ProbeEnds, Back, ExitInv, ProbeStages
  <2>2. CASE probe.frozen /\ probe.offline
    <3>1. Exits(3)
      BY <1>7, <2>2, CodesTell DEF ProbeEnds
    <3> QED  BY <2>1, <2>2, <3>1, ExitsTell
  <2>3. CASE ~(probe.frozen /\ probe.offline)
    <3>1. Exits(0)
      BY <1>7, <2>1, <2>3, CodesTell DEF ProbeEnds
    <3> QED  BY <2>1, <2>3, <3>1, ExitsTell
  <2> QED  BY <2>2, <2>3
<1> QED
  BY <1>2, <1>3, <1>4, <1>5, <1>6, <1>7 DEF Standalone

LEMMA RoutineExit == ASSUME ExitInv, Routine PROVE ExitInv'
<1>1. /\ phase \in {"Step", "Driving", "Hook", "Summary"}
      /\ phase' \in {"Step", "Driving", "Hook", "Summary", "Exited"}
  BY DEF Routine, InvokeFails, InvokeDriver, DriverStep, DriverRecovers, HookSucceeds, HookFails,
     DriverEnds, RoutineSummarized, RoutineInterrupted, DriverEnded, RecordStep, Back, Goes,
     FinishWith, Driver!Round, Driver!Recover
<1>2. UNCHANGED <<command, born, spawned, games>>
  BY DEF Routine, InvokeFails, InvokeDriver, DriverStep, DriverRecovers, HookSucceeds, HookFails,
     DriverEnds, RoutineSummarized, RoutineInterrupted, DriverEnded, Begin, Goes,
     lifeVars, systemVars, opVars
<1>3. exit' = exit \/ phase' = "Exited"
  BY DEF Routine, InvokeFails, InvokeDriver, DriverStep, DriverRecovers, HookSucceeds, HookFails,
     DriverEnds, RoutineSummarized, RoutineInterrupted, DriverEnded, Goes, FinishWith
<1>4. command = "Routine"
  BY <1>1 DEF ExitInv
<1>5. ExitTells'
  BY <1>1, <1>2, <1>3, <1>4 DEF ExitInv, ExitTells, StandaloneExitTells
<1> QED
  BY <1>1, <1>2, <1>4, <1>5 DEF ExitInv, EnsureStages, ProbeStages

LEMMA NextExit == ExitInv /\ [Next]_vars => ExitInv'
<1> SUFFICES ASSUME ExitInv, [Next]_vars PROVE ExitInv'
  OBVIOUS
<1>1. CASE UNCHANGED vars
  BY <1>1 DEF vars, lifeVars, systemVars, opVars, cmdVars, ExitInv, EnsureStages, ProbeStages,
       ExitTells, StandaloneExitTells
<1>2. CASE Next
  BY <1>2, LifeExit, StandaloneExit, RoutineExit DEF Next
<1> QED  BY <1>1, <1>2

\* However late, short-lived or absent the game is, and whatever the probe sees,
\* ensure-open and launch exit with 0 only for a game, with 2 only after a launcher
\* and with 3 only after a whole probe (standalone_exit_code).
THEOREM ExitCorrect == Spec => []StandaloneExitTells
<1>1. ExitInv => StandaloneExitTells
  BY DEF ExitInv, ExitTells
<1> QED  BY <1>1, InitExit, NextExit, PTL DEF Spec

-----------------------------------------------------------------------------
(* The summary of a routine *)

LEMMA InitRoutine == Init => RoutineInv
<1> SUFFICES ASSUME Init PROVE RoutineInv
  OBVIOUS
<1>1. trail = <<>> /\ results = <<>> /\ Len(trail) = 0 /\ Len(results) = 0
  BY DEF Init
<1>2. trail \in Seq(Endings) /\ results \in Seq(Statuses)
  BY <1>1
<1>3. Steps \in Nat /\ 0 < Steps
  BY CommandsAssumption
<1>4. /\ 1..Len(trail) = {} /\ 1..Len(results) = {}
      /\ Len(trail) <= Len(results) /\ Len(results) < Steps /\ Len(results) <= Steps
      /\ ~(Len(trail) < Len(results))
  BY <1>1, <1>3
<1>5. fired \in BOOLEAN /\ summary = None /\ policy \in [1..Steps -> Policies]
  BY DEF Init
<1> QED
  BY <1>2, <1>4, <1>5 DEF RoutineInv

\* A step that changes none of what the summary is about.
LEMMA RoutineSame ==
  ASSUME RoutineInv, UNCHANGED <<policy, trail, results, summary>>, fired' \in BOOLEAN,
         phase' \notin {"Summary", "Exited"} => phase \notin {"Summary", "Exited"},
         summary # None => phase' = "Exited" /\ exit' = exit
  PROVE  RoutineInv'
<1>1. \A k : (Good(k)' <=> Good(k)) /\ (Fatal(k)' <=> Fatal(k))
  BY DEF Good, Fatal
<1>2. summary # None => Summarize' = Summarize
  BY DEF Summarize, Count
<1>3. (summary # None /\ Len(results) = Steps =>
         summary = Summarize /\ (exit = 0 => AllOk(summary)))'
  BY <1>2 DEF RoutineInv
<1> QED
  BY <1>1, <1>3 DEF RoutineInv

\* The step that ends becomes an entry of the trail and a result, and with the
\* policy to stop the steps after it become skipped ones.
LEMMA RecordKeeps ==
  ASSUME RoutineInv, phase \notin {"Summary", "Exited"}, NEW status \in Statuses \ {"Skipped"},
         NEW reason \in Driver!Reasons \cup {"NotRun"}, NEW f \in BOOLEAN, RecordStep(status),
         trail' = Append(trail, [step |-> Step, reason |-> reason, fired |-> f]),
         UNCHANGED <<policy, fired, summary>>,
         status = "Completed" <=> \/ reason \in {"Stop", "TerminalTask"}
                                  \/ reason = "MaxIterations" /\ f
  PROVE  RoutineInv'
<1> DEFINE e == [step |-> Step, reason |-> reason, fired |-> f]
<1>1. PICK n \in Nat : n = Len(results)
  BY DEF RoutineInv
<1>2. /\ Len(trail) = n /\ n < Steps /\ Steps \in Nat /\ Step = n + 1
      /\ trail \in Seq(Endings) /\ results \in Seq(Statuses) /\ summary = None
      /\ policy \in [1..Steps -> Policies]
  <2>1. \A k \in 1..Len(trail) : ~Fatal(k)
    BY DEF RoutineInv
  <2>2. Len(trail) \in Nat /\ Len(trail) <= n /\ ~(Len(trail) < n)
    BY <1>1, <2>1 DEF RoutineInv
  <2> QED  BY <1>1, <2>2, CommandsAssumption DEF RoutineInv, Step
<1>3. /\ e \in Endings /\ e.step = n + 1 /\ trail' = Append(trail, e)
      /\ (e.reason = reason /\ e.fired = f)
  BY <1>2 DEF Endings
<1> HIDE DEF e
<1>4. /\ trail' \in Seq(Endings) /\ Len(trail') = n + 1 /\ trail'[n + 1] = e
      /\ \A k \in 1..n : trail'[k] = trail[k]
  BY <1>2, <1>3
<1>5. /\ \A k \in 1..n : (Good(k)' <=> Good(k)) /\ (Fatal(k)' <=> Fatal(k))
      /\ (Good(n + 1))' <=> status = "Completed"
      /\ (Fatal(n + 1))' <=> status # "Completed" /\ policy[n + 1] = "Stop"
  <2>1. \A k \in 1..n : Good(k)' <=> Good(k)
    BY <1>4 DEF Good
  <2>2. (Good(n + 1))' <=> status = "Completed"
    BY <1>3, <1>4 DEF Good
  <2> QED  BY <2>1, <2>2 DEF Fatal
<1>6. status # "Completed" <=> status \in Failures
  BY DEF Statuses, Failures
<1> DEFINE once == Append(results, status)
<1>7. /\ once \in Seq(Statuses) /\ Len(once) = n + 1 /\ once[n + 1] = status
      /\ \A k \in 1..n : once[k] = results[k]
  BY <1>1, <1>2
<1> HIDE DEF once
<1>8. \A k \in 1..n : /\ trail[k].step = k
                      /\ Good(k) => results[k] = "Completed"
                      /\ ~Good(k) => results[k] \in Failures
                      /\ ~Fatal(k)
  BY <1>1, <1>2 DEF RoutineInv
<1>9. \A k \in 1..(n + 1) : k \in 1..n \/ k = n + 1
  OBVIOUS
<1>10. CASE (Fatal(n + 1))'
  <2>1. results' = once \o SkippedAfter(n + 1)
    BY <1>2, <1>5, <1>6, <1>10 DEF RecordStep, once
  <2>2. PICK d \in Nat : d = Steps - (n + 1)
    BY <1>2
  <2>3. /\ SkippedAfter(n + 1) \in Seq(Statuses) /\ Len(SkippedAfter(n + 1)) = d
        /\ \A k \in 1..d : SkippedAfter(n + 1)[k] = "Skipped"
    BY <2>2 DEF SkippedAfter, Statuses
  <2>4. /\ results' \in Seq(Statuses) /\ Len(results') = n + 1 + d
        /\ \A k \in 1..(n + 1 + d) :
             results'[k] = IF k <= n + 1 THEN once[k] ELSE SkippedAfter(n + 1)[k - (n + 1)]
    <3> DEFINE rest == SkippedAfter(n + 1)
    <3>1. once \in Seq(Statuses) /\ rest \in Seq(Statuses) /\ results' = once \o rest
      BY <1>7, <2>1, <2>3
    <3> HIDE DEF rest
    <3>2. /\ results' \in Seq(Statuses) /\ Len(results') = Len(once) + Len(rest)
          /\ \A k \in 1..Len(once) + Len(rest) :
               results'[k] = IF k <= Len(once) THEN once[k] ELSE rest[k - Len(once)]
      BY <3>1, ConcatProperties, Zenon
    <3> QED  BY <1>7, <2>3, <3>2 DEF rest
  <2>5. /\ \A k \in 1..(n + 1) : results'[k] = once[k]
        /\ \A k \in 1..Steps : k > n + 1 => results'[k] = "Skipped"
        /\ Len(results') = Steps
    <3>1. \A k \in 1..(n + 1) : k \in 1..(n + 1 + d) /\ k <= n + 1
      BY <2>2
    <3>2. \A k \in 1..Steps : k > n + 1 => k \in 1..(n + 1 + d) /\ ~(k <= n + 1) /\ k - (n + 1) \in 1..d
      BY <1>2, <2>2
    <3>3. n + 1 + d = Steps
      BY <1>2, <2>2
    <3> QED  BY <2>3, <2>4, <3>1, <3>2, <3>3
  <2>6. \A k \in 1..(n + 1) : /\ trail'[k].step = k
                              /\ Good(k)' => results'[k] = "Completed"
                              /\ ~Good(k)' => results'[k] \in Failures
                              /\ Fatal(k)' => k = n + 1
    BY <1>3, <1>4, <1>5, <1>6, <1>7, <1>8, <1>9, <2>5
  <2>7. phase' = "Summary" /\ n + 1 \in 1..(n + 1)
    BY <2>5 DEF RecordStep
  <2> QED
    BY <1>2, <1>4, <1>10, <2>4, <2>5, <2>6, <2>7 DEF RoutineInv
<1>11. CASE ~(Fatal(n + 1))'
  <2>1. results' = once
    BY <1>2, <1>5, <1>6, <1>11 DEF RecordStep, once
  <2>2. \A k \in 1..(n + 1) : /\ trail'[k].step = k
                              /\ Good(k)' => results'[k] = "Completed"
                              /\ ~Good(k)' => results'[k] \in Failures
                              /\ ~Fatal(k)'
    BY <1>3, <1>4, <1>5, <1>6, <1>7, <1>8, <1>9, <1>11, <2>1
  <2>3. phase' = IF n + 1 = Steps THEN "Summary" ELSE "Step"
    BY <1>7, <2>1 DEF RecordStep
  <2>4. n + 1 <= Steps /\ (n + 1 # Steps => n + 1 < Steps)
    BY <1>2
  <2>5. \A k \in 1..(n + 1) : ~(k > n + 1)
    OBVIOUS
  <2> QED
    BY <1>2, <1>4, <1>7, <2>1, <2>2, <2>3, <2>4, <2>5 DEF RoutineInv
<1> QED  BY <1>10, <1>11

LEMMA StepsKeep ==
  ASSUME RoutineInv, InvokeFails \/ HookFails \/ DriverEnds
  PROVE  RoutineInv'
<1>0. fired \in BOOLEAN
  BY DEF RoutineInv
<1>1. CASE InvokeFails
  <2>1. /\ phase = "Step" /\ RecordStep("InvokerError")
        /\ trail' = Append(trail, [step |-> Step, reason |-> "NotRun", fired |-> FALSE])
        /\ UNCHANGED <<policy, fired, summary>>
    BY <1>1 DEF InvokeFails
  <2>2. "InvokerError" \in Statuses \ {"Skipped"}
    BY DEF Statuses, Failures
  <2> QED  BY <2>1, <2>2, RecordKeeps
<1>2. ASSUME NEW reason \in Driver!Reasons, DriverEnded(reason), phase \in {"Driving", "Hook"}
      PROVE  RoutineInv'
  <2>1. /\ RecordStep(StepResult(reason))
        /\ trail' = Append(trail, [step |-> Step, reason |-> reason, fired |-> fired])
        /\ UNCHANGED <<policy, fired, summary>>
    BY <1>2 DEF DriverEnded
  <2>2. StepResult(reason) \in Statuses \ {"Skipped"}
    BY DEF StepResult, ClassifyReason, Statuses, Failures
  <2>3. StepResult(reason) = "Completed" <=> \/ reason \in {"Stop", "TerminalTask"}
                                             \/ reason = "MaxIterations" /\ fired
    BY DEF StepResult, ClassifyReason
  <2> DEFINE status == StepResult(reason)
  <2>4. status \in Statuses \ {"Skipped"} /\ RecordStep(status)
    BY <2>1, <2>2
  <2>5. status = "Completed" <=> \/ reason \in {"Stop", "TerminalTask"}
                                 \/ reason = "MaxIterations" /\ fired
    BY <2>3
  <2> HIDE DEF status
  <2> QED  BY <1>0, <1>2, <2>1, <2>4, <2>5, RecordKeeps
<1>3. CASE HookFails
  BY <1>2, <1>3 DEF HookFails, Back, Driver!Reasons
<1>4. CASE DriverEnds
  BY <1>2, <1>4 DEF DriverEnds
<1> QED  BY <1>1, <1>3, <1>4

LEMMA SummaryKeeps ==
  ASSUME RoutineInv, RoutineSummarized \/ RoutineInterrupted
  PROVE  RoutineInv'
<1>1. /\ UNCHANGED <<policy, trail, results, fired>> /\ phase' = "Exited"
  BY DEF RoutineSummarized, RoutineInterrupted, FinishWith
<1>2. \A k : (Good(k)' <=> Good(k)) /\ (Fatal(k)' <=> Fatal(k))
  BY <1>1 DEF Good, Fatal
<1>3. Summarize' = Summarize
  BY <1>1 DEF Summarize, Count
<1>4. Len(results) = Steps => summary' = Summarize /\ (exit' = 0 => AllOk(summary'))
  <2>1. CASE RoutineSummarized
    BY <2>1 DEF RoutineSummarized, FinishWith
  <2>2. CASE RoutineInterrupted
    BY <2>2, CommandsAssumption DEF RoutineInterrupted, RoutineInv
  <2> QED  BY <2>1, <2>2
<1> QED
  BY <1>1, <1>2, <1>3, <1>4 DEF RoutineInv

LEMMA NextRoutine == RoutineInv /\ [Next]_vars => RoutineInv'
<1> SUFFICES ASSUME RoutineInv, [Next]_vars PROVE RoutineInv'
  OBVIOUS
<1>0. fired \in BOOLEAN /\ (summary # None => phase = "Exited")
  BY DEF RoutineInv
<1>1. CASE ((Operation \/ System) /\ UNCHANGED cmdVars) \/ UNCHANGED vars
  <2>1. UNCHANGED <<policy, trail, results, summary, fired, phase, exit>>
    BY <1>1 DEF cmdVars, vars
  <2> QED  BY <1>0, <2>1, RoutineSame
<1>2. CASE Standalone
  <2>1. /\ UNCHANGED <<policy, trail, results, summary, fired>>
        /\ phase \in {"Start", "Forced", "Ensuring", "Probing"}
    BY <1>2 DEF Standalone, StartCommand, AfterForcedLaunch, AfterEnsure, ProbeFails,
         ProbeSample, ProbeEnds, Call, Exits, Goes, Back
  <2> QED  BY <1>0, <2>1, RoutineSame
<1>3. CASE InvokeDriver \/ DriverStep \/ DriverRecovers \/ HookSucceeds
  <2>1. /\ UNCHANGED <<policy, trail, results, summary>> /\ fired' \in {fired, TRUE, FALSE}
        /\ phase \in {"Step", "Driving", "Hook"}
    BY <1>3 DEF InvokeDriver, DriverStep, DriverRecovers, HookSucceeds, Goes, Back,
         Driver!Round, Driver!Recover
  <2> QED  BY <1>0, <2>1, RoutineSame
<1>4. CASE InvokeFails \/ HookFails \/ DriverEnds
  BY <1>4, StepsKeep
<1>5. CASE RoutineSummarized \/ RoutineInterrupted
  BY <1>5, SummaryKeeps
<1> QED  BY <1>1, <1>2, <1>3, <1>4, <1>5 DEF Next, Routine

\* US-CLI-21 and US-CLI-24: the summary and the exit code of a routine that nobody
\* interrupted tell what happened to each step, for every number of steps and every
\* policy (run_routine, summarize).
THEOREM SummaryCorrect == Spec => []SummaryTellsRun
<1> DEFINE bad == {k \in DOMAIN trail : ~Good(k)}
<1>1. ASSUME RoutineInv PROVE SummaryTellsRun
  <2>1. PICK n \in Nat : n = Len(trail) /\ DOMAIN trail = 1..n
    BY <1>1 DEF RoutineInv
  <2>2. bad \subseteq 1..n /\ IsFiniteSet(1..n) /\ Cardinality(1..n) = n
    <3>1. /\ IsFiniteSet(1..n) /\ Cardinality(1..n) = IF 1 > n THEN 0 ELSE n - 1 + 1
      BY FS_Interval
    <3> QED  BY <2>1, <3>1
  <2>3. IsFiniteSet(bad) /\ Cardinality(bad) \in Nat /\ (Cardinality(bad) = 0 => bad = {})
    BY <2>2, FS_Subset, FS_CardinalityType, FS_EmptySet
  <2>4. \A k \in 1..n : (k \in bad <=> ~Good(k)) /\ (Fatal(k) <=> k \in bad /\ policy[k] = "Stop")
    BY <2>1 DEF Fatal
  <2> HIDE DEF bad
  <2>5. \A k \in 1..n : trail[k].step = k /\ (k \in bad => (policy[k] = "Stop" => k = n))
    BY <1>1, <2>1, <2>4 DEF RoutineInv
  <2>6. ASSUME summary # None, Len(results) = Steps
        PROVE  /\ summary.completed = n - Cardinality(bad)
               /\ summary.failed = Cardinality(bad)
               /\ summary.skipped = Steps - n
               /\ n < Steps => \E k \in bad : policy[k] = "Stop"
               /\ exit = 0 => bad = {} /\ n = Steps
    <3>1. /\ Steps \in Nat /\ n <= Steps /\ DOMAIN results = 1..Steps
          /\ \A k \in 1..n : k \in 1..Steps
          /\ \A k \in 1..Steps : k > n \/ k \in 1..n
      BY <1>1, <2>1, <2>6, CommandsAssumption DEF RoutineInv
    <3>2. /\ \A k \in 1..n : (k \in bad => results[k] \in Failures)
                             /\ (k \notin bad => results[k] = "Completed")
          /\ \A k \in 1..Steps : k > n => results[k] = "Skipped"
      BY <1>1, <2>1, <2>4, <2>6 DEF RoutineInv
    <3>3. Count({"Completed"}) = n - Cardinality(bad)
      <4>1. {k \in DOMAIN results : results[k] \in {"Completed"}} = (1..n) \ bad
        BY <3>1, <3>2 DEF Failures
      <4>2. (1..n) \cap bad = bad
        BY <2>2
      <4> QED  BY <2>2, <4>1, <4>2, FS_Difference DEF Count
    <3>4. Count(Failures) = Cardinality(bad)
      <4>1. {k \in DOMAIN results : results[k] \in Failures} = bad
        BY <2>2, <3>1, <3>2 DEF Failures
      <4> QED  BY <4>1 DEF Count
    <3>5. Count({"Skipped"}) = Steps - n
      <4>1. {k \in DOMAIN results : results[k] \in {"Skipped"}} = (n + 1)..Steps
        <5>1. \A k \in (n + 1)..Steps : k \in 1..Steps /\ k > n
          BY <3>1
        <5>2. \A k \in 1..Steps : k > n => k \in (n + 1)..Steps
          BY <3>1
        <5> QED  BY <3>1, <3>2, <5>1, <5>2 DEF Failures
      <4>2. Cardinality((n + 1)..Steps) = Steps - n
        <5>1. Cardinality((n + 1)..Steps) = IF n + 1 > Steps THEN 0 ELSE Steps - (n + 1) + 1
          BY <3>1, FS_Interval
        <5> QED  BY <3>1, <5>1
      <4> QED  BY <4>1, <4>2 DEF Count
    <3>6. /\ summary.completed = Count({"Completed"}) /\ summary.failed = Count(Failures)
          /\ summary.skipped = Count({"Skipped"}) /\ (exit = 0 => AllOk(summary))
      BY <1>1, <2>6 DEF RoutineInv, Summarize
    <3>7. n < Steps => \E k \in bad : policy[k] = "Stop"
      BY <1>1, <2>1, <2>4, <2>6 DEF RoutineInv
    <3>8. exit = 0 => Cardinality(bad) = 0 /\ Steps - n = 0
      BY <3>4, <3>5, <3>6 DEF AllOk
    <3> QED  BY <2>1, <2>3, <3>1, <3>3, <3>4, <3>5, <3>6, <3>7, <3>8
  <2>7. \A k \in bad : k \in 1..n
    BY <2>2
  <2> QED  BY <2>1, <2>5, <2>6, <2>7 DEF SummaryTellsRun, bad
<1> QED  BY <1>1, InitRoutine, NextRoutine, PTL DEF Spec
=============================================================================
