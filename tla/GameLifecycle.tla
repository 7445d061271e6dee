---------------------------- MODULE GameLifecycle ---------------------------
(***************************************************************************)
(* Starting and restarting the game on Windows (win32_launch.rs,           *)
(* win32_terminate.rs).  Every operation is a blocking thread that looks   *)
(* at the process list now and then, and meanwhile the system goes on: a   *)
(* launcher starts its game late or never, a game exits by itself, asked   *)
(* or killed.  The game is found by its name, never by whose child it is.  *)
(*                                                                         *)
(* Polls are not counted: a deadline may pass between any two steps.       *)
(***************************************************************************)
EXTENDS Integers, FiniteSets

CONSTANTS
  MaxGames,     \* bound on the game processes ever started
  MaxLaunchers, \* bound on the launchers an operation may have spawned
  None

ASSUME LifecycleAssumption ==
  MaxGames \in Nat /\ MaxLaunchers \in Nat /\ None \notin Nat

VARIABLES
  games,     \* processes with the name of the game, numbered as they start
  born,      \* how many there have been
  launchers, \* launchers that have not started a game yet
  op,        \* where the operation is: Idle when there is none, Precheck, Spawn,
             \* Discover, Monitor, Launch, Close, Closing or Force
  due,       \* the deadline of the operation has passed
  child,     \* the process ensure_open watches
  queried,   \* ever_queried_ok
  result,    \* what the last operation returned
  spawned,   \* launchers spawned so far (history)
  asked      \* games and launchers spawned when the operation began (history)

systemVars == <<games, born, launchers>>
opVars == <<op, due, child, queried, result, spawned, asked>>
lifeVars == <<systemVars, opVars>>

InitLife ==
  /\ games \in {{}, {1}}
  /\ born = Cardinality(games)
  /\ launchers = 0
  /\ op = "Idle"
  /\ due = FALSE
  /\ child = None
  /\ queried = FALSE
  /\ result = None
  /\ spawned = 0
  /\ asked = [games |-> {}, spawned |-> 0]

-----------------------------------------------------------------------------
(* The system *)

LauncherStartsGame ==
  /\ launchers > 0
  /\ born < MaxGames
  /\ launchers' = launchers - 1
  /\ born' = born + 1
  /\ games' = games \cup {born'}
  /\ UNCHANGED opVars

LauncherQuits ==
  /\ launchers > 0
  /\ launchers' = launchers - 1
  /\ UNCHANGED <<games, born, opVars>>

GameExits ==
  /\ \E g \in games : games' = games \ {g}
  /\ UNCHANGED <<born, launchers, opVars>>

DeadlinePasses ==
  /\ op \in {"Discover", "Monitor", "Closing", "Force"}
  /\ ~due
  /\ due' = TRUE
  /\ UNCHANGED <<systemVars, op, child, queried, result, spawned, asked>>

System == LauncherStartsGame \/ LauncherQuits \/ GameExits \/ DeadlinePasses

-----------------------------------------------------------------------------
(* Operations: how they begin, go on and return. *)

Begin(first) ==
  /\ op' = first
  /\ due' = FALSE
  /\ child' = None
  /\ queried' = FALSE
  /\ result' = None
  /\ asked' = [games |-> games, spawned |-> spawned]
  /\ UNCHANGED <<systemVars, spawned>>

Go(next) ==
  /\ op' = next
  /\ UNCHANGED <<child, queried, result, spawned, asked>>

Returns(r) ==
  /\ op' = "Idle"
  /\ result' = r
  /\ UNCHANGED <<due, child, queried, spawned, asked>>

\* A launcher is a process of its own: nothing waits for it.
SpawnLauncher ==
  /\ spawned < MaxLaunchers
  /\ spawned' = spawned + 1
  /\ launchers' = launchers + 1
  /\ UNCHANGED <<games, born>>

\* snapshot_processes may fail wherever it is called.
SnapshotFails ==
  /\ op \in {"Precheck", "Close", "Closing", "Force"} \/ (op = "Discover" /\ ~due)
  /\ Returns("Error")
  /\ UNCHANGED systemVars

-----------------------------------------------------------------------------
(* ensure_open *)

PrecheckChildRunning ==
  /\ op = "Precheck"
  /\ IF games # {} THEN Returns("AlreadyOpen") ELSE Go("Spawn") /\ UNCHANGED due
  /\ UNCHANGED systemVars

EnsureSpawns ==
  /\ op = "Spawn"
  /\ SpawnLauncher
  /\ op' = "Discover"
  /\ due' = FALSE
  /\ UNCHANGED <<child, queried, result, asked>>

\* The launcher is looked for and not there.
SpawnFails ==
  /\ op \in {"Spawn", "Launch"}
  /\ Returns("Error")
  /\ UNCHANGED systemVars

ChildSeen ==
  /\ op = "Discover"
  /\ ~due
  /\ child' \in games
  /\ op' = "Monitor"
  /\ UNCHANGED <<due, queried, result, spawned, asked, systemVars>>

ChildNotAppeared ==
  /\ op = "Discover"
  /\ due
  /\ Returns("Timeout")
  /\ UNCHANGED systemVars

QueryAlive ==
  /\ op = "Monitor"
  /\ ~due
  /\ child \in games
  /\ queried' = TRUE
  /\ UNCHANGED <<systemVars, op, due, child, result, spawned, asked>>

\* An exit code while somebody still holds the process.
QueryExited ==
  /\ op = "Monitor"
  /\ ~due
  /\ child \notin games
  /\ Returns("Timeout")
  /\ UNCHANGED systemVars

\* The process cannot be opened: gone if it could be before, else an error.
QueryFails ==
  /\ op = "Monitor"
  /\ ~due
  /\ Returns(IF queried THEN "Timeout" ELSE "Error")
  /\ UNCHANGED systemVars

ChildSurvives ==
  /\ op = "Monitor"
  /\ due
  /\ Returns("Launched")
  /\ UNCHANGED systemVars

EnsureOpen ==
  \/ PrecheckChildRunning \/ EnsureSpawns \/ ChildSeen \/ ChildNotAppeared
  \/ QueryAlive \/ QueryExited \/ QueryFails \/ ChildSurvives

-----------------------------------------------------------------------------
(* launch_app, alone or at the end of restart_app *)

LaunchApp ==
  /\ op = "Launch"
  /\ SpawnLauncher
  /\ op' = "Idle"
  /\ result' = "Ok"
  /\ UNCHANGED <<due, child, queried, asked>>

-----------------------------------------------------------------------------
(* terminate_child_staged *)

\* WM_CLOSE is posted to the windows found; without one the force comes next.
PostClose ==
  /\ op = "Close"
  /\ IF games = {} THEN Go("Launch") ELSE Go("Closing") \/ Go("Force")
  /\ due' = FALSE
  /\ UNCHANGED systemVars

\* Slip: a game that was asked to close is taken for closed.
WaitUntilGoneOnce ==
  /\ op = "Closing"
  /\ Go("Launch")
  /\ UNCHANGED <<due, systemVars>>

\* wait_until_gone: looked at once at least, and again until the deadline.
WaitUntilGone ==
  /\ op = "Closing"
  /\ \/ games = {} /\ Go("Launch") /\ UNCHANGED due
     \/ games # {} /\ due /\ Go("Force") /\ due' = FALSE
  /\ UNCHANGED systemVars

\* Each game found is killed, if the system lets it; a failure is left to the
\* next look.  The deadline is looked at after the kill.
ForceTerminate ==
  /\ op = "Force"
  /\ games # {}
  /\ games' \in SUBSET games
  /\ IF due THEN Returns("Error") ELSE Go("Force") /\ UNCHANGED due
  /\ UNCHANGED <<born, launchers>>

ForcedGone ==
  /\ op = "Force"
  /\ games = {}
  /\ Go("Launch")
  /\ UNCHANGED <<due, systemVars>>

Terminate == PostClose \/ WaitUntilGone \/ ForceTerminate \/ ForcedGone

Operation == SnapshotFails \/ EnsureOpen \/ SpawnFails \/ LaunchApp \/ Terminate
=============================================================================
