------------------------- MODULE StudioRunnerProofs -------------------------
(***************************************************************************)
(* The history of the run tool and the end of its children, for every      *)
(* capacity of the channel, number of lines and number of runs.            *)
(***************************************************************************)
EXTENDS StudioRunner, FiniteSetTheorems, NaturalsInduction, WellFoundedInduction, TLAPS

-----------------------------------------------------------------------------
(* What holds of a child of the studio, its readers and their channel at   *)
(* every step, whatever page starts, stops and drains it: the same for the *)
(* children of the queue and of the run tool.                              *)

Events == {Line} \cup {Exit(r, c) : r \in Runs, c \in ExitCodes}

\* The thread that reports the exit has not done so yet.
Reporting == reader["stdout"] \in {"reading", "waiting"}

ChildTypes ==
  /\ run \in 0..MaxRuns
  /\ codes \in [Runs -> ExitCodes \cup {"Running"}]
  /\ held \in BOOLEAN
  /\ reader \in [Pipes -> {"none", "reading", "waiting", "done"}]
  /\ chan \in Seq(Events)
  /\ lost \subseteq 1..run

\* An exit in the channel is that of a run that is over, and the only one of
\* that run; and the reader of a run reports after that run is over, once.
ExitsAreTrue ==
  /\ \A i \in Exits : /\ chan[i].run \in 1..run
                       /\ chan[i].run \notin lost
                       /\ chan[i].code = codes[chan[i].run]
  /\ \A i, j \in Exits : chan[i].run = chan[j].run => i = j
  /\ reader["stdout"] = "waiting" => codes[run] # "Running"
  /\ Reporting => run > 0 /\ run \notin lost /\ \A i \in Exits : chan[i].run # run

ChildInv == ChildTypes /\ ExitsAreTrue /\ (Alive => held)

LEMMA EventTypes ==
  /\ Line \in Events /\ Line.kind = "Line"
  /\ \A r \in Runs, c \in ExitCodes : /\ Exit(r, c) \in Events
                                       /\ Exit(r, c).kind = "Exit"
                                       /\ Exit(r, c).run = r
                                       /\ Exit(r, c).code = c
                                       /\ Exit(r, c) # None
<1>1. Line \in Events /\ Line.kind = "Line"
  BY DEF Events, Line
<1>2. ASSUME NEW r \in Runs, NEW c \in ExitCodes
      PROVE  /\ Exit(r, c).kind = "Exit" /\ Exit(r, c).run = r /\ Exit(r, c).code = c
  BY DEF Exit
<1>3. \A r \in Runs, c \in ExitCodes : Exit(r, c) \in Events
  BY DEF Events
<1> QED  BY <1>1, <1>2, <1>3, NoneAssumption

LEMMA ExitEvents ==
  ASSUME ChildInv, NEW i \in Exits
  PROVE  /\ i \in 1..Len(chan)
         /\ chan[i].run \in Runs /\ chan[i].code \in ExitCodes /\ chan[i] # None
<1>1. i \in 1..Len(chan) /\ chan[i] \in Events /\ chan[i].kind = "Exit"
  BY DEF ChildInv, ChildTypes, Exits
<1>2. chan[i] # Line
  BY <1>1, EventTypes
<1>3. PICK r \in Runs, c \in ExitCodes : chan[i] = Exit(r, c)
  BY <1>1, <1>2 DEF Events
<1> QED  BY <1>1, <1>3, EventTypes

\* What is sent is thrown away or comes last.
LEMMA Sending ==
  ASSUME ChildTypes, NEW e \in Events, chan' = TrySend(e)
  PROVE  /\ chan' \in Seq(Events)
         /\ \A i \in Exits' :
              \/ i \in Exits /\ chan'[i] = chan[i]
              \/ i = Len(chan) + 1 /\ i \notin Exits /\ chan'[i] = e
                 /\ e.kind = "Exit" /\ HasRoom
<1>1. CASE ~HasRoom
  BY <1>1 DEF TrySend, ChildTypes, Exits
<1>2. CASE HasRoom
  <2>1. chan' = Append(chan, e)
    BY <1>2 DEF TrySend
  <2> QED  BY <1>2, <2>1 DEF ChildTypes, Exits
<1> QED  BY <1>1, <1>2

\* What a step of the child or of its readers does to the exits in the channel:
\* one is added at most, by the reader of the run in hand.
ExitsMove ==
  \A i \in Exits' :
    \/ i \in Exits /\ chan'[i] = chan[i]
    \/ /\ Reporting /\ ~Reporting' /\ run' = run
       /\ i = Len(chan) + 1 /\ i \notin Exits
       /\ chan'[i] = Exit(run, codes[run]) /\ codes[run] # "Running"
       /\ codes' = codes /\ lost' = lost

LEMMA ChildTypesKept ==
  ASSUME ChildInv,
         ReaderStep \/ ProcessExits \/ Spawn \/ SpawnFails \/ StopChild \/ DrainChannel
           \/ UNCHANGED childVars
  PROVE  ChildTypes' /\ ExitsMove
<1>1. ASSUME NEW p \in Pipes, ReadLine(p) PROVE ChildTypes' /\ ExitsMove
  <2>1. chan' = TrySend(Line) /\ UNCHANGED <<run, codes, held, reader, lost>>
    BY <1>1 DEF ReadLine
  <2> QED  BY <2>1, Sending, EventTypes DEF ChildInv, ChildTypes, ExitsMove
<1>2. ASSUME NEW p \in Pipes, PipeEnds(p) PROVE ChildTypes' /\ ExitsMove
  BY <1>2 DEF PipeEnds, ChildInv, ChildTypes, ExitsMove, Exits
<1>3. CASE ReportExit
  <2>1. chan' = TrySend(Exit(run, codes[run])) /\ UNCHANGED <<run, codes, held>>
    BY <1>3 DEF ReportExit
  <2>2. Reporting /\ run \in 1..run /\ run \in Runs /\ codes[run] \in ExitCodes
    BY <1>3 DEF ReportExit, Reporting, ChildInv, ChildTypes, ExitsAreTrue, Runs
  <2>3. reader' \in [Pipes -> {"none", "reading", "waiting", "done"}] /\ ~Reporting'
    BY <1>3 DEF ReportExit, Reporting, ChildInv, ChildTypes, Pipes
  <2>4. lost' \subseteq 1..run' /\ (HasRoom => lost' = lost)
    BY <1>3, <2>1, <2>2 DEF ReportExit, ChildInv, ChildTypes
  <2>5. codes[run] # "Running"
    BY <2>2 DEF ExitCodes
  <2>6. Exit(run, codes[run]) \in Events
    BY <2>2, EventTypes
  <2> QED
    BY <2>1, <2>2, <2>3, <2>4, <2>5, <2>6, Sending DEF ChildInv, ChildTypes, ExitsMove
<1>4. CASE ProcessExits
  BY <1>4 DEF ProcessExits, ChildInv, ChildTypes, ExitsMove, Exits
<1>5. CASE Spawn
  BY <1>5, ChildLogAssumption DEF Spawn, ChildInv, ChildTypes, ExitsMove, Exits
<1>6. CASE SpawnFails
  BY <1>6 DEF SpawnFails, ChildInv, ChildTypes, ExitsMove, Exits
<1>7. CASE StopChild
  BY <1>7 DEF StopChild, ChildInv, ChildTypes, ExitsMove, Exits, KillCodes, ExitCodes
<1>8. CASE DrainChannel
  BY <1>8 DEF DrainChannel, ChildInv, ChildTypes, ExitsMove, Exits
<1>9. CASE UNCHANGED childVars
  BY <1>9 DEF childVars, ChildInv, ChildTypes, ExitsMove, Exits
<1> QED  BY <1>1, <1>2, <1>3, <1>4, <1>5, <1>6, <1>7, <1>8, <1>9 DEF ReaderStep

LEMMA ChildKeeps ==
  ASSUME ChildInv,
         ReaderStep \/ ProcessExits \/ Spawn \/ SpawnFails \/ StopChild \/ DrainChannel
           \/ UNCHANGED childVars
  PROVE  ChildInv' /\ ExitsMove
<1>1. ChildTypes /\ ChildTypes' /\ ExitsMove /\ (Alive => held) /\ ExitsAreTrue
  BY ChildTypesKept DEF ChildInv
<1>2. (Alive => held)'
  BY <1>1 DEF ReaderStep, ReadLine, PipeEnds, ReportExit, ProcessExits, Spawn,
         SpawnFails, StopChild, DrainChannel, childVars, Alive, ChildTypes, IsRunning,
         ExitCodes, KillCodes, Runs
<1>3. ExitsAreTrue'
  <2> DEFINE Own(i) == /\ chan[i].run \in 1..run
                       /\ chan[i].run \notin lost
                       /\ chan[i].code = codes[chan[i].run]
             Same == \A i, j \in Exits : chan[i].run = chan[j].run => i = j
             Waits == reader["stdout"] = "waiting" => codes[run] # "Running"
             Due == Reporting => run > 0 /\ run \notin lost /\ \A i \in Exits : chan[i].run # run
  <2>1. \A i \in Exits : Own(i) /\ chan[i].code # "Running" /\ chan[i].run \in Runs
    BY <1>1, ExitEvents DEF ExitsAreTrue, ExitCodes
  <2>2. Same /\ Waits /\ Due
    BY <1>1 DEF ExitsAreTrue
  <2>3. run <= run' /\ \A r \in 1..run : codes[r] # "Running" => codes'[r] = codes[r]
    <3>1. CASE codes' = codes
      BY <1>1, <3>1 DEF ReaderStep, ReadLine, PipeEnds, ReportExit, ProcessExits, Spawn,
             SpawnFails, StopChild, DrainChannel, childVars, ChildTypes
    <3>2. CASE ProcessExits \/ StopChild
      <4>1. \A r \in 1..run : r \in Runs
        BY <1>1, ChildLogAssumption DEF ChildTypes, Runs
      <4>2. run' = run /\ (codes' = codes \/ \E c : Alive /\ codes' = [codes EXCEPT ![run] = c])
        BY <3>2 DEF ProcessExits, StopChild
      <4> QED  BY <1>1, <4>1, <4>2 DEF Alive, ChildTypes
    <3> QED
      BY <3>1, <3>2 DEF ReaderStep, ReadLine, PipeEnds, ReportExit, Spawn, SpawnFails,
             DrainChannel, childVars
  <2>4. lost' = lost \/ (lost' = lost \cup {run} /\ Reporting /\ ~HasRoom /\ run' = run)
    BY DEF ReaderStep, ReadLine, PipeEnds, ReportExit, ProcessExits, Spawn,
           SpawnFails, StopChild, DrainChannel, childVars, Reporting
  <2>5. Reporting' =>
           \/ Reporting /\ run' = run /\ lost' = lost
           \/ run' = run + 1 /\ lost' = lost /\ chan' = chan
    BY <1>1 DEF ReaderStep, ReadLine, PipeEnds, ReportExit, ProcessExits, Spawn,
           SpawnFails, StopChild, DrainChannel, childVars, Reporting, ChildTypes, Pipes
  <2>6. ASSUME NEW i \in Exits' PROVE Own(i)'
    <3>1. CASE i \in Exits /\ chan'[i] = chan[i]
      BY <1>1, <2>1, <2>2, <2>3, <2>4, <3>1 DEF ChildTypes
    <3>2. CASE ~(i \in Exits /\ chan'[i] = chan[i])
      BY <1>1, <2>2, <3>2 DEF ExitsMove, ChildTypes, Exit
    <3> QED  BY <3>1, <3>2
  <2>7. Same'
    BY <1>1, <2>1, <2>2 DEF ExitsMove, Exit
  <2>8. Waits'
    <3>1. CASE UNCHANGED <<run, codes, reader>>
      BY <2>2, <3>1
    <3>2. ASSUME NEW p \in Pipes, PipeEnds(p) PROVE Waits'
      BY <1>1, <2>2, <3>2 DEF PipeEnds, Alive, Reporting, ChildTypes, Pipes
    <3>3. CASE ReportExit \/ Spawn \/ SpawnFails
      BY <1>1, <3>3 DEF ReportExit, Spawn, SpawnFails, ChildTypes, Pipes
    <3>4. CASE ProcessExits \/ StopChild
      BY <1>1, <2>2, <3>4 DEF ProcessExits, StopChild, Alive, ChildTypes, Runs, ExitCodes, KillCodes
    <3> QED
      BY <3>1, <3>2, <3>3, <3>4 DEF ReaderStep, ReadLine, DrainChannel, childVars
  <2>9. Due'
    <3> SUFFICES ASSUME Reporting'
                 PROVE  run' > 0 /\ run' \notin lost' /\ \A i \in Exits' : chan'[i].run # run'
      OBVIOUS
    <3>1. CASE Reporting /\ run' = run /\ lost' = lost
      BY <1>1, <2>2, <3>1 DEF ExitsMove
    <3>2. CASE run' = run + 1 /\ lost' = lost /\ chan' = chan
      BY <1>1, <2>1, <3>2 DEF Exits, ChildTypes
    <3> QED  BY <2>5, <3>1, <3>2
  <2> QED  BY <2>6, <2>7, <2>8, <2>9 DEF ExitsAreTrue
<1> QED  BY <1>1, <1>2, <1>3 DEF ChildInv

-----------------------------------------------------------------------------
(* The exit that a frame drains *)

Descending == {p \in Nat \X Nat : p[1] < p[2]}

LEMMA SmallestOf ==
  ASSUME NEW S \in SUBSET Nat, S # {}
  PROVE  \E m \in S : \A n \in S : m <= n
<1>1. IsWellFoundedOn(Descending, Nat)
  BY NatLessThanWellFounded DEF Descending, OpToRel
<1>2. PICK m \in S : \A n \in S : <<n, m>> \notin Descending
  BY <1>1, WFMin
<1>3. ASSUME NEW n \in S PROVE m <= n
  <2>1. m \in Nat /\ n \in Nat
    OBVIOUS
  <2>2. ~(n < m)
    BY <1>2, <2>1 DEF Descending
  <2> QED  BY <2>1, <2>2
<1> QED  BY <1>3

LEMMA FirstExitType ==
  ASSUME ChildInv
  PROVE  /\ Exits = {} => FirstExit = None
         /\ Exits # {} => /\ FirstExit # None /\ FirstExit.code \in ExitCodes
                          /\ \E i \in Exits : FirstExit = chan[i]
<1>1. CASE Exits = {}
  BY <1>1 DEF FirstExit
<1>2. CASE Exits # {}
  <2>1. Exits \in SUBSET Nat
    BY DEF Exits, ChildInv, ChildTypes
  <2>2. \E i \in Exits : \A j \in Exits : i <= j
    BY <1>2, <2>1, SmallestOf
  <2>3. PICK i \in Exits : FirstExit = chan[i]
    BY <1>2, <2>2 DEF FirstExit
  <2> QED  BY <1>2, <2>3, ExitEvents
<1> QED  BY <1>1, <1>2

-----------------------------------------------------------------------------
(* The history *)

Todos == {<<>>, <<"RunButtons", "Drain", "HistoryButtons">>, <<"Drain", "HistoryButtons">>,
          <<"HistoryButtons">>, <<"StrategyButtons">>, <<"Drain">>, <<"Start">>,
          <<"Start", "Drain">>, <<"Reap">>, <<"Reap", "Drain">>}

RunRecords == [run : Runs \cup {None},
               outcome : {"Failed", "BudgetExhausted", "Success", "Cancelled"},
               code : ExitCodes \cup {None},
               report : Runs \cup {None}]

IsVerdict(i) == history[i].code # None

RunnerTypes ==
  /\ todo \in Todos
  /\ exitObserved \in BOOLEAN
  /\ tag = None \/ tag \in 1..run
  /\ pendingReport # None => pendingReport = tag
  /\ history \in Seq(RunRecords)
  /\ \A i \in DOMAIN history : history[i].run \in {None} \cup 1..run

\* A start forgets the run before it; a stop lets go of the child it cancels.
Phases ==
  /\ At("Start") => tag = None /\ ~exitObserved /\ ~closed
  /\ At("Reap") => ~held
  /\ closed => ~held /\ todo \in {<<>>, <<"Reap">>}

\* What the history says of the run in hand.
CurrentRun ==
  tag # None =>
    \A i \in Records(tag) :
      IF IsVerdict(i) THEN exitObserved ELSE ~held /\ ~At("Reap")

OncePerRun ==
  \A i, j \in DOMAIN history :
    (history[i].run = history[j].run /\ history[i].run # None /\ (IsVerdict(i) <=> IsVerdict(j)))
      => i = j

SeenExits ==
  /\ seen \subseteq 1..run
  /\ \A i \in Exits : chan[i].run \notin seen
  /\ Reporting => run \notin seen

\* As long as no start overtook an exit, an exit that is still to come is of
\* the run in hand.
NoOverlap ==
  overlapped = {} =>
    /\ \A r \in 1..run : r \notin seen \cup lost => (r = run /\ tag = run /\ ~exitObserved)
    /\ \A i \in DOMAIN history :
         (IsVerdict(i) /\ history[i].run # None) => history[i].code = codes[history[i].run]
    /\ \A r \in seen : Verdicts(r) # {}

ReportsAreOwn == ReportIsOfItsRun

RunnerInv ==
  /\ ChildInv /\ RunnerTypes /\ Phases /\ CurrentRun /\ OncePerRun
  /\ SeenExits /\ NoOverlap /\ ReportsAreOwn

LEMMA InitRunner == Init => RunnerInv
<1> SUFFICES ASSUME Init PROVE RunnerInv
  OBVIOUS
<1>1. chan = <<>> /\ Exits = {} /\ run = 0 /\ ~Reporting /\ history = <<>> /\ todo = <<>>
  BY DEF Init, InitChild, Exits, Reporting, Pipes
<1>2. ChildTypes
  <2>1. chan \in Seq(Events)
    BY <1>1
  <2>5. lost = {} /\ held = FALSE
    BY DEF Init, InitChild
  <2>2. reader \in [Pipes -> {"none", "reading", "waiting", "done"}]
    BY DEF Init, InitChild
  <2>3. codes \in [Runs -> ExitCodes \cup {"Running"}]
    BY DEF Init, InitChild
  <2>4. run \in 0..MaxRuns
    BY <1>1, ChildLogAssumption
  <2> QED  BY <2>1, <2>2, <2>3, <2>4, <2>5 DEF ChildTypes
<1>3. ChildInv
  BY <1>1, <1>2 DEF Init, InitChild, ChildInv, ExitsAreTrue, Alive, Pipes
<1>4. RunnerTypes
  <2>1. history \in Seq(RunRecords) /\ DOMAIN history = {}
    BY <1>1
  <2>2. todo \in Todos
    BY <1>1 DEF Todos
  <2> QED  BY <2>1, <2>2 DEF Init, RunnerTypes
<1>5. Phases /\ CurrentRun /\ OncePerRun /\ SeenExits /\ NoOverlap /\ ReportsAreOwn
  BY <1>1 DEF Init, Phases, At, CurrentRun, OncePerRun, SeenExits, NoOverlap,
         ReportsAreOwn, ReportIsOfItsRun
<1> QED  BY <1>3, <1>4, <1>5 DEF RunnerInv

-----------------------------------------------------------------------------
(* The phases of a frame *)

LEMMA TodoTail ==
  ASSUME todo \in Todos, todo # <<>>
  PROVE  /\ Tail(todo) \in Todos
         /\ Tail(todo) # <<>> => Head(Tail(todo)) \in {"Drain", "HistoryButtons"}
<1>1. CASE todo = <<"RunButtons", "Drain", "HistoryButtons">>
  BY <1>1 DEF Todos
<1>2. CASE todo = <<"Drain", "HistoryButtons">>
  BY <1>2 DEF Todos
<1>3. CASE todo = <<"Start", "Drain">>
  BY <1>3 DEF Todos
<1>5. CASE todo = <<"Reap", "Drain">>
  BY <1>5 DEF Todos
<1>4. CASE todo \in {<<"HistoryButtons">>, <<"StrategyButtons">>, <<"Drain">>, <<"Start">>,
                    <<"Reap">>}
  BY <1>4 DEF Todos
<1> QED  BY <1>1, <1>2, <1>3, <1>4, <1>5 DEF Todos

LEMMA TodoClick ==
  ASSUME NEW phase \in {"Start", "Reap"}
  PROVE  /\ AfterClick(phase) \in Todos
         /\ AfterClick(phase) # <<>>
         /\ Head(AfterClick(phase)) = phase
  BY DEF AfterClick, Todos

LEMMA TodoPage ==
  ASSUME NEW page \in Pages
  PROVE  /\ PhasesOf(page) \in Todos /\ PhasesOf(page) # <<>>
         /\ Head(PhasesOf(page)) \in {"RunButtons", "HistoryButtons", "StrategyButtons"}
  BY DEF Pages, PhasesOf, Todos

-----------------------------------------------------------------------------
(* What holds of the history as long as nothing is recorded *)

LEMMA SameHistory ==
  ASSUME RunnerInv, UNCHANGED history
  PROVE  OncePerRun' /\ ReportsAreOwn' /\ (history \in Seq(RunRecords))'
  BY DEF RunnerInv, OncePerRun, ReportsAreOwn, ReportIsOfItsRun, RunnerTypes, IsVerdict

\* What has been recorded with its code is over and keeps that code.
LEMMA VerdictsStay ==
  ASSUME ChildInv, RunnerTypes, NoOverlap, overlapped = {},
         ReaderStep \/ ProcessExits \/ Spawn \/ SpawnFails \/ StopChild \/ DrainChannel
           \/ UNCHANGED childVars
  PROVE  \A i \in DOMAIN history : (IsVerdict(i) /\ history[i].run # None) =>
           history[i].code = codes'[history[i].run]
<1> SUFFICES ASSUME NEW i \in DOMAIN history, IsVerdict(i), history[i].run # None
             PROVE  history[i].code = codes'[history[i].run]
  OBVIOUS
<1> DEFINE r == history[i].run
<1>1. r \in 1..run /\ history[i].code \in ExitCodes /\ history[i].code = codes[r]
  <2>1. history[i] \in RunRecords /\ history[i].run \in {None} \cup 1..run
    BY DEF RunnerTypes
  <2> QED  BY <2>1 DEF RunRecords, IsVerdict, NoOverlap
<1>2. codes[r] # "Running" /\ r \in Runs
  BY <1>1, ChildLogAssumption DEF ExitCodes, ChildInv, ChildTypes, Runs
<1>3. codes' = codes \/ \E c : Alive /\ codes' = [codes EXCEPT ![run] = c]
  BY DEF ReaderStep, ReadLine, PipeEnds, ReportExit, ProcessExits, Spawn, SpawnFails,
         StopChild, DrainChannel, childVars
<1> QED  BY <1>1, <1>2, <1>3 DEF Alive, ChildInv, ChildTypes

\* A step that leaves the runs, the exits and the history as they are.
LEMMA FrameMoves ==
  ASSUME RunnerInv, UNCHANGED <<childVars, exitObserved, tag, pendingReport, history, seen,
                                overlapped, closed>>,
         todo' \in Todos, todo' # <<>> => Head(todo') \notin {"Start", "Reap"},
         closed => todo' \in {<<>>, <<"Reap">>}
  PROVE  RunnerInv'
<1>1. ChildInv'
  BY ChildKeeps DEF RunnerInv
<1>2. UNCHANGED <<run, codes, held, unread, reader, chan, lost>>
  BY DEF childVars
<1>3. Exits' = Exits /\ (Reporting' <=> Reporting)
  BY <1>2 DEF Exits, Reporting
<1>4. RunnerTypes'
  BY <1>2 DEF RunnerInv, RunnerTypes
<1>5. Phases'
  BY <1>2 DEF RunnerInv, Phases, At
<1>6. CurrentRun'
  BY <1>2 DEF RunnerInv, CurrentRun, Records, IsVerdict, At
<1>7. SeenExits' /\ NoOverlap'
  BY <1>2, <1>3 DEF RunnerInv, SeenExits, NoOverlap, IsVerdict, Verdicts, Records
<1> QED  BY <1>1, <1>4, <1>5, <1>6, <1>7, SameHistory DEF RunnerInv

\* A start is asked for: the child is left alone, or stopped when it is over.
LEMMA RequestKeeps ==
  ASSUME RunnerInv, RequestStart, ~closed, StopChild \/ UNCHANGED childVars
  PROVE  RunnerInv'
<1>1. ChildInv' /\ ExitsMove
  BY ChildKeeps DEF RunnerInv
<1>2. UNCHANGED <<run, reader, chan, lost>> /\ Exits' = Exits /\ (Reporting' <=> Reporting)
  BY DEF StopChild, childVars, Exits, Reporting
<1>3. /\ UNCHANGED <<history, closed, seen>> /\ exitObserved' = FALSE /\ tag' = None
      /\ pendingReport' = None /\ todo' = AfterClick("Start")
      /\ overlapped' = overlapped \cup {r \in 1..run : r \notin seen \cup lost}
  BY DEF RequestStart, ForgetRun
<1>4. RunnerTypes'
  BY <1>2, <1>3, TodoClick DEF RunnerInv, RunnerTypes
<1>5. Phases' /\ CurrentRun'
  BY <1>3, TodoClick DEF RunnerInv, Phases, At, CurrentRun
<1>6. SeenExits'
  BY <1>2, <1>3 DEF RunnerInv, SeenExits
<1>7. NoOverlap'
  <2> SUFFICES ASSUME overlapped' = {}
               PROVE  NoOverlap'
    BY DEF NoOverlap
  <2>1. overlapped = {} /\ \A r \in 1..run : r \in seen \cup lost
    BY <1>3
  <2>2. \A i \in DOMAIN history : (IsVerdict(i) /\ history[i].run # None) =>
           history[i].code = codes'[history[i].run]
    BY <2>1, VerdictsStay DEF RunnerInv
  <2> QED
    BY <1>2, <1>3, <2>1, <2>2 DEF RunnerInv, NoOverlap, IsVerdict, Verdicts, Records
<1> QED  BY <1>1, <1>3, <1>4, <1>5, <1>6, <1>7, SameHistory DEF RunnerInv

LEMMA StartRunKeeps == ASSUME RunnerInv, StartRun PROVE RunnerInv'
<1>1. ChildInv' /\ ExitsMove
  BY ChildKeeps DEF RunnerInv, StartRun
<1>2. /\ run' = run + 1 /\ run \in Nat /\ UNCHANGED <<codes, chan, lost>> /\ Exits' = Exits
      /\ UNCHANGED <<exitObserved, history, closed, seen, overlapped>>
      /\ tag' = run' /\ pendingReport' = run' /\ todo' = Tail(todo) /\ todo # <<>>
  BY ChildLogAssumption DEF StartRun, Spawn, At, Exits, RunnerInv, ChildInv, ChildTypes
<1>3. tag = None /\ ~exitObserved /\ ~closed
  BY DEF RunnerInv, Phases, StartRun
<1>4. todo' \in Todos /\ ~At("Start")' /\ ~At("Reap")'
  BY <1>2, TodoTail DEF RunnerInv, RunnerTypes, At
<1>5. RunnerTypes'
  BY <1>2, <1>4 DEF RunnerInv, RunnerTypes
<1>6. Phases'
  BY <1>2, <1>3, <1>4 DEF Phases
<1>7. CurrentRun'
  BY <1>2, NoneAssumption DEF CurrentRun, Records, RunnerInv, RunnerTypes, Runs
<1>8. SeenExits'
  BY <1>1, <1>2 DEF RunnerInv, SeenExits
<1>9. NoOverlap'
  <2>1. overlapped = {} => \A r \in 1..run : r \in seen \cup lost
    <3>1. \A r \in 1..run : r # None
      BY NoneAssumption, ChildLogAssumption DEF RunnerInv, ChildInv, ChildTypes, Runs
    <3> QED  BY <1>3, <3>1 DEF RunnerInv, NoOverlap
  <2>2. \A r \in 1..run' : r \in 1..run \/ r = run'
    BY <1>2
  <2> QED
    BY <1>2, <1>3, <2>1, <2>2 DEF RunnerInv, NoOverlap, IsVerdict, Verdicts, Records
<1> QED  BY <1>1, <1>2, <1>5, <1>6, <1>7, <1>8, <1>9, SameHistory DEF RunnerInv

LEMMA StartFailsKeeps == ASSUME RunnerInv, StartFails PROVE RunnerInv'
<1>1. ChildInv' /\ ExitsMove
  BY ChildKeeps DEF RunnerInv, StartFails
<1>2. /\ UNCHANGED <<run, codes, held, chan, lost>> /\ Exits' = Exits
      /\ UNCHANGED <<exitObserved, tag, pendingReport, history, closed, seen, overlapped>>
      /\ todo' = Tail(todo) /\ todo # <<>>
  BY DEF StartFails, SpawnFails, childVars, At, Exits
<1>3. Reporting' => Reporting
  BY DEF StartFails, SpawnFails, childVars, Reporting, Pipes
<1>4. todo' \in Todos /\ ~At("Start")' /\ ~At("Reap")' /\ ~closed
  BY <1>2, TodoTail DEF RunnerInv, RunnerTypes, Phases, StartFails, At
<1>5. RunnerTypes' /\ Phases'
  BY <1>2, <1>4 DEF RunnerInv, RunnerTypes, Phases
<1>6. CurrentRun'
  BY <1>2, <1>4 DEF RunnerInv, CurrentRun, Records, IsVerdict
<1>7. SeenExits' /\ NoOverlap'
  BY <1>2, <1>3 DEF RunnerInv, SeenExits, NoOverlap, IsVerdict, Verdicts, Records
<1> QED  BY <1>1, <1>2, <1>5, <1>6, <1>7, SameHistory DEF RunnerInv

\* A child is stopped, to be recorded as cancelled or because the window closes.
LEMMA StopKeeps ==
  ASSUME RunnerInv, StopChild,
         UNCHANGED <<exitObserved, tag, pendingReport, history, seen, overlapped>>,
         \/ closed' = closed /\ ~closed /\ todo' = AfterClick("Reap")
         \/ closed' = TRUE /\ todo' = <<"Reap">>
  PROVE  RunnerInv'
<1>1. ChildInv' /\ ExitsMove
  BY ChildKeeps DEF RunnerInv
<1>2. held /\ held' = FALSE /\ UNCHANGED <<run, reader, chan, lost>> /\ Exits' = Exits
      /\ (Reporting' <=> Reporting)
  BY DEF StopChild, Exits, Reporting
<1>3. todo' \in Todos /\ ~At("Start")' /\ (closed' => todo' = <<"Reap">>)
  BY TodoClick DEF Todos, At
<1>4. RunnerTypes' /\ Phases'
  BY <1>2, <1>3 DEF RunnerInv, RunnerTypes, Phases
<1>5. CurrentRun'
  <2>1. tag # None => \A i \in Records(tag) : IsVerdict(i) /\ exitObserved
    BY <1>2 DEF RunnerInv, CurrentRun
  <2> QED  BY <2>1 DEF CurrentRun, Records, IsVerdict
<1>6. SeenExits'
  BY <1>2 DEF RunnerInv, SeenExits
<1>7. NoOverlap'
  BY <1>2, VerdictsStay DEF RunnerInv, NoOverlap, IsVerdict, Verdicts, Records
<1> QED  BY <1>1, <1>4, <1>5, <1>6, <1>7, SameHistory DEF RunnerInv

LEMMA ThreadsKeep == ASSUME RunnerInv, ChildExits \/ Readers PROVE RunnerInv'
<1>1. ChildInv' /\ ExitsMove
  BY ChildKeeps DEF RunnerInv, ChildExits, Readers
<1>2. /\ UNCHANGED <<run, held, todo, exitObserved, tag, pendingReport, history, closed,
                     seen, overlapped>>
      /\ lost \subseteq lost'
  BY DEF ChildExits, Readers, runnerVars, ReaderStep, ReadLine, PipeEnds, ReportExit,
         ProcessExits
<1>3. Reporting' => Reporting
  BY DEF ChildExits, Readers, ReaderStep, ReadLine, PipeEnds, ReportExit,
         ProcessExits, Reporting, RunnerInv, ChildInv, ChildTypes, Pipes
<1>4. RunnerTypes' /\ Phases' /\ CurrentRun'
  BY <1>2 DEF RunnerInv, RunnerTypes, Phases, CurrentRun, At, Records, IsVerdict
<1>5. SeenExits'
  BY <1>1, <1>2, <1>3 DEF RunnerInv, SeenExits, ExitsMove, Exit
<1>6. NoOverlap'
  BY <1>2, VerdictsStay
     DEF RunnerInv, NoOverlap, IsVerdict, Verdicts, Records, ChildExits, Readers
<1> QED  BY <1>1, <1>2, <1>4, <1>5, <1>6, SameHistory DEF RunnerInv

-----------------------------------------------------------------------------
(* Recording *)

\* A record is added for the run in hand, which has none of its kind yet.
LEMMA Recorded ==
  ASSUME RunnerInv, NEW outcome \in {"Failed", "BudgetExhausted", "Success", "Cancelled"},
         NEW code \in ExitCodes \cup {None}, NEW report \in {None, pendingReport},
         report # None => report \in Runs,
         history' = Append(history, RunRecord(outcome, code, report)),
         run' = run,
         tag # None => \A i \in Records(tag) : ~(IsVerdict(i) <=> code # None)
  PROVE  /\ OncePerRun' /\ ReportsAreOwn' /\ history' \in Seq(RunRecords)
         /\ DOMAIN history' = DOMAIN history \cup {Len(history) + 1}
         /\ Len(history) + 1 \notin DOMAIN history
         /\ \A i \in DOMAIN history : history'[i] = history[i]
         /\ history'[Len(history) + 1].run = tag
         /\ history'[Len(history) + 1].code = code
         /\ \A i \in DOMAIN history' : history'[i].run \in {None} \cup 1..run'
<1> DEFINE new == RunRecord(outcome, code, report)
<1>1. history \in Seq(RunRecords) /\ (tag = None \/ tag \in 1..run)
  BY DEF RunnerInv, RunnerTypes
<1>2. tag \in Runs \cup {None}
  BY <1>1, ChildLogAssumption DEF RunnerInv, ChildInv, ChildTypes, Runs
<1>3. new.run = tag /\ new.code = code /\ new.report = report
  BY DEF RunRecord
<1>4. new \in RunRecords
  BY <1>2 DEF RunRecords, RunRecord
<1>5. /\ history' \in Seq(RunRecords)
      /\ DOMAIN history' = DOMAIN history \cup {Len(history) + 1}
      /\ Len(history) + 1 \notin DOMAIN history
      /\ \A i \in DOMAIN history : history'[i] = history[i]
      /\ history'[Len(history) + 1] = new
  BY <1>1, <1>4
<1>6. OncePerRun'
  BY <1>3, <1>5 DEF RunnerInv, OncePerRun, IsVerdict, Records
<1>7. ReportsAreOwn'
  BY <1>3, <1>5 DEF RunnerInv, ReportsAreOwn, ReportIsOfItsRun, RunnerTypes
<1>8. \A i \in DOMAIN history' : history'[i].run \in {None} \cup 1..run'
  BY <1>1, <1>3, <1>5 DEF RunnerInv, RunnerTypes
<1> HIDE DEF new
<1> QED  BY <1>3, <1>5, <1>6, <1>7, <1>8

LEMMA CancelKeeps == ASSUME RunnerInv, RecordCancel PROVE RunnerInv'
<1>1. ChildInv' /\ UNCHANGED <<run, codes, held, unread, reader, chan, lost>>
  BY ChildKeeps DEF RunnerInv, RecordCancel, childVars
<1>2. /\ UNCHANGED <<exitObserved, tag, closed, seen, overlapped>> /\ ~held
      /\ Exits' = Exits /\ (Reporting' <=> Reporting) /\ At("Reap") /\ todo # <<>>
      /\ todo' = Tail(todo) /\ (pendingReport' = pendingReport \/ pendingReport' = None)
  BY <1>1 DEF RecordCancel, Exits, Reporting, RunnerInv, Phases, At
<1>3. todo' \in Todos /\ ~At("Start")' /\ ~At("Reap")' /\ (closed => todo' = <<>>)
  BY <1>2, TodoTail DEF RunnerInv, RunnerTypes, Phases, At
<1>4. CASE exitObserved
  <2>1. UNCHANGED <<history, pendingReport>>
    BY <1>4 DEF RecordCancel
  <2>2. RunnerTypes' /\ Phases' /\ CurrentRun'
    BY <1>1, <1>2, <1>3, <1>4, <2>1
       DEF RunnerInv, RunnerTypes, Phases, CurrentRun, Records, IsVerdict
  <2>3. SeenExits' /\ NoOverlap'
    BY <1>1, <1>2, <2>1 DEF RunnerInv, SeenExits, NoOverlap, IsVerdict, Verdicts, Records
  <2> QED  BY <1>1, <2>1, <2>2, <2>3, SameHistory DEF RunnerInv
<1>5. CASE ~exitObserved
  <2>1. history' = Append(history, RunRecord("Cancelled", None, None)) /\ pendingReport' = None
    BY <1>5 DEF RecordCancel
  <2>2. tag # None => Records(tag) = {}
    BY <1>2, <1>5 DEF RunnerInv, CurrentRun
  <2>3. /\ OncePerRun' /\ ReportsAreOwn' /\ history' \in Seq(RunRecords)
        /\ DOMAIN history' = DOMAIN history \cup {Len(history) + 1}
        /\ Len(history) + 1 \notin DOMAIN history
        /\ \A i \in DOMAIN history : history'[i] = history[i]
        /\ history'[Len(history) + 1].run = tag
        /\ history'[Len(history) + 1].code = None
        /\ \A i \in DOMAIN history' : history'[i].run \in {None} \cup 1..run'
    BY <1>1, <2>1, <2>2, Recorded
  <2>4. RunnerTypes' /\ Phases'
    BY <1>1, <1>2, <1>3, <2>1, <2>3 DEF RunnerInv, RunnerTypes, Phases
  <2>5. CurrentRun'
    BY <1>1, <1>2, <1>3, <2>2, <2>3 DEF CurrentRun, Records, IsVerdict
  <2>6. SeenExits'
    BY <1>1, <1>2 DEF RunnerInv, SeenExits
  <2>7. \A r : Verdicts(r)' = Verdicts(r)
    BY <2>3 DEF Verdicts, Records
  <2>8. NoOverlap'
    BY <1>1, <1>2, <2>3, <2>7 DEF RunnerInv, NoOverlap, IsVerdict
  <2> QED  BY <1>1, <2>3, <2>4, <2>5, <2>6, <2>8 DEF RunnerInv
<1> QED  BY <1>4, <1>5

-----------------------------------------------------------------------------
(* Draining *)

LEMMA LoadedReportType ==
  ASSUME RunnerInv
  PROVE  /\ LoadedReport \in {None, pendingReport}
         /\ LoadedReport # None => LoadedReport \in Runs
<1>1. tag = None \/ tag \in Runs
  BY ChildLogAssumption DEF RunnerInv, RunnerTypes, ChildInv, ChildTypes, Runs
<1> QED  BY <1>1 DEF LoadedReport, RunnerInv, RunnerTypes

LEMMA DrainKeeps == ASSUME RunnerInv, DrainLogs PROVE RunnerInv'
<1> DEFINE drained == {chan[i].run : i \in Exits}
<1>1. ChildInv' /\ UNCHANGED <<run, codes, held, unread, reader, lost>> /\ Exits' = {}
  BY ChildKeeps DEF RunnerInv, DrainLogs, DrainChannel, Exits
<1>2. /\ UNCHANGED <<tag, closed, overlapped>> /\ (Reporting' <=> Reporting)
      /\ todo' = Tail(todo) /\ todo # <<>> /\ seen' = seen \cup drained /\ ~closed
      /\ At("Drain")
  BY <1>1 DEF DrainLogs, Reporting, At, RunnerInv, Phases
<1>3. todo' \in Todos /\ ~At("Start")' /\ ~At("Reap")'
  BY <1>2, TodoTail DEF RunnerInv, RunnerTypes, At
<1>4. \A r \in drained : r \in 1..run /\ r \notin seen \cup lost /\ codes[r] # "Running"
  BY ExitEvents DEF RunnerInv, ChildInv, ExitsAreTrue, SeenExits, ExitCodes
<1>5. SeenExits'
  BY <1>1, <1>2, <1>4 DEF RunnerInv, SeenExits, ChildInv, ExitsAreTrue
<1>6. CASE FirstExit = None \/ exitObserved
  <2>1. UNCHANGED <<exitObserved, pendingReport, history>>
    BY <1>6 DEF DrainLogs
  <2>2. RunnerTypes' /\ Phases' /\ CurrentRun'
    BY <1>1, <1>2, <1>3, <2>1
       DEF RunnerInv, RunnerTypes, Phases, CurrentRun, Records, IsVerdict
  <2>3. overlapped = {} => drained = {}
    BY <1>4, <1>6, FirstExitType DEF RunnerInv, NoOverlap
  <2>4. overlapped = {} => seen' = seen
    BY <1>2, <2>3
  <2>5. NoOverlap'
    BY <1>1, <1>2, <2>1, <2>4 DEF RunnerInv, NoOverlap, IsVerdict, Verdicts, Records
  <2> QED  BY <1>1, <1>5, <2>1, <2>2, <2>5, SameHistory DEF RunnerInv
<1>7. CASE FirstExit # None /\ ~exitObserved
  <2> DEFINE outcome == ClassifyOutcome(FirstExit.code, ReportKind)
  <2>1. PICK e \in Exits : FirstExit = chan[e]
    BY <1>7, FirstExitType DEF RunnerInv
  <2>2. FirstExit.code \in ExitCodes /\ FirstExit.code # None
    BY <1>7, FirstExitType, NoneAssumption DEF RunnerInv
  <2>3. outcome \in {"Failed", "BudgetExhausted", "Success", "Cancelled"}
    BY DEF ClassifyOutcome
  <2>4. /\ exitObserved' = TRUE /\ pendingReport' = None
        /\ history' = Append(history, RunRecord(outcome, FirstExit.code, LoadedReport))
    BY <1>7 DEF DrainLogs
  <2>5. tag # None => \A i \in Records(tag) : ~IsVerdict(i)
    BY <1>7 DEF RunnerInv, CurrentRun
  <2>6. /\ OncePerRun' /\ ReportsAreOwn' /\ history' \in Seq(RunRecords)
        /\ DOMAIN history' = DOMAIN history \cup {Len(history) + 1}
        /\ Len(history) + 1 \notin DOMAIN history
        /\ \A i \in DOMAIN history : history'[i] = history[i]
        /\ history'[Len(history) + 1].run = tag
        /\ history'[Len(history) + 1].code = FirstExit.code
        /\ \A i \in DOMAIN history' : history'[i].run \in {None} \cup 1..run'
    <3> HIDE DEF outcome
    <3> QED  BY <1>1, <2>2, <2>3, <2>4, <2>5, LoadedReportType, Recorded
  <2>7. RunnerTypes' /\ Phases'
    BY <1>1, <1>2, <1>3, <2>4, <2>6 DEF RunnerInv, RunnerTypes, Phases
  <2>8. CurrentRun'
    <3>1. ASSUME NEW i \in Records(tag)', tag # None, ~IsVerdict(i)' PROVE ~held
      <4>1. i \in Records(tag) /\ ~IsVerdict(i)
        BY <1>2, <2>2, <2>6, <3>1 DEF Records, IsVerdict
      <4> QED  BY <3>1, <4>1 DEF RunnerInv, CurrentRun
    <3> QED  BY <1>1, <1>2, <1>3, <2>4, <3>1 DEF CurrentRun
  <2>9. NoOverlap'
    <3> SUFFICES ASSUME overlapped = {} PROVE NoOverlap'
      BY <1>2 DEF NoOverlap
    <3>1. drained = {run} /\ tag = run /\ run \notin seen \cup lost /\ run # None
      <4>1. \A r \in drained : r = run /\ tag = run /\ r \in Runs /\ r \notin seen \cup lost
        BY <1>4, ExitEvents DEF RunnerInv, NoOverlap
      <4>2. chan[e].run \in drained
        BY <2>1
      <4> HIDE DEF drained
      <4> QED  BY <4>1, <4>2, NoneAssumption
    <3>2. FirstExit.code = codes[run]
      BY <2>1, <3>1 DEF RunnerInv, ChildInv, ExitsAreTrue
    <3>3. \A i \in DOMAIN history' : (IsVerdict(i)' /\ history'[i].run # None) =>
            history'[i].code = codes'[history'[i].run]
      BY <1>1, <2>6, <3>1, <3>2 DEF RunnerInv, NoOverlap, IsVerdict
    <3>4. \A r : Verdicts(r) \subseteq Verdicts(r)'
      BY <2>6 DEF Verdicts, Records
    <3>5. Len(history) + 1 \in Verdicts(run)'
      BY <1>1, <2>2, <2>6, <3>1 DEF Verdicts, Records
    <3>6. \A r \in seen' : Verdicts(r)' # {}
      <4>1. \A r \in seen : Verdicts(r) # {}
        BY DEF RunnerInv, NoOverlap
      <4>2. seen' = seen \cup {run}
        BY <1>2, <3>1
      <4> HIDE DEF drained
      <4>3. run' = run /\ Verdicts(run)' # {}
        BY <1>1, <3>5
      <4>4. ASSUME NEW r \in seen' PROVE Verdicts(r)' # {}
        BY <3>4, <4>1, <4>2, <4>3, <4>4
      <4> QED  BY <4>4
    <3>7. \A r \in 1..run' : r \in seen' \cup lost'
      BY <1>1, <1>2, <3>1 DEF RunnerInv, NoOverlap
    <3> QED  BY <3>3, <3>6, <3>7 DEF NoOverlap
  <2> QED  BY <1>1, <1>5, <2>6, <2>7, <2>8, <2>9 DEF RunnerInv
<1> QED  BY <1>6, <1>7

-----------------------------------------------------------------------------
LEMMA NextRunner == RunnerInv /\ [Next]_vars => RunnerInv'
<1> SUFFICES ASSUME RunnerInv, [Next]_vars PROVE RunnerInv'
  OBVIOUS
<1>1. ASSUME NEW page \in Pages, OpenFrame(page) PROVE RunnerInv'
  BY <1>1, FrameMoves, TodoPage DEF OpenFrame
<1>2. CASE NoClick
  <2>1. todo # <<>> /\ todo' = Tail(todo) /\ ~closed
    BY <1>2 DEF NoClick, AtAny, RunnerInv, Phases
  <2> QED  BY <1>2, <2>1, FrameMoves, TodoTail DEF NoClick, RunnerInv, RunnerTypes
<1>3. CASE ClickStart \/ ClickRerun
  <2>1. ~closed
    BY <1>3 DEF ClickStart, ClickRerun, AtAny, RunnerInv, Phases
  <2> QED  BY <1>3, <2>1, RequestKeeps DEF ClickStart, ClickRerun
<1>4. CASE ClickStop
  <2>1. ~closed
    BY <1>4 DEF ClickStop, AtAny, RunnerInv, Phases
  <2> QED  BY <1>4, <2>1, StopKeeps DEF ClickStop
<1>5. CASE Close
  <2>1. CASE held
    BY <1>5, <2>1, StopKeeps DEF Close
  <2>2. CASE ~held
    <3>1. UNCHANGED <<run, codes, held, unread, reader, chan, lost>> /\ ChildInv' /\ todo' = <<>>
      BY <1>5, <2>2, ChildKeeps DEF Close, childVars, RunnerInv
    <3>2. UNCHANGED <<exitObserved, tag, pendingReport, history, seen, overlapped, todo>>
      BY <1>5, <2>2 DEF Close
    <3>3. RunnerTypes' /\ Phases' /\ CurrentRun'
      BY <2>2, <3>1, <3>2 DEF RunnerInv, RunnerTypes, Phases, CurrentRun, At, Records, IsVerdict
    <3>4. SeenExits' /\ NoOverlap'
      BY <3>1, <3>2 DEF RunnerInv, SeenExits, NoOverlap, IsVerdict, Verdicts, Records, Exits,
             Reporting
    <3> QED  BY <3>1, <3>2, <3>3, <3>4, SameHistory DEF RunnerInv
  <2> QED  BY <2>1, <2>2
<1>6. CASE UNCHANGED vars
  <2>1. UNCHANGED <<childVars, exitObserved, tag, pendingReport, history, seen,
                    overlapped, closed, todo>>
    BY <1>6 DEF vars, runnerVars
  <2>2. UNCHANGED <<run, codes, held, unread, reader, chan, lost>> /\ ChildInv'
    BY <2>1, ChildKeeps DEF childVars, RunnerInv
  <2>3. RunnerTypes' /\ Phases' /\ CurrentRun'
    BY <2>1, <2>2 DEF RunnerInv, RunnerTypes, Phases, CurrentRun, At, Records, IsVerdict
  <2>4. SeenExits' /\ NoOverlap'
    BY <2>1, <2>2 DEF RunnerInv, SeenExits, NoOverlap, IsVerdict, Verdicts, Records, Exits,
           Reporting
  <2> QED  BY <2>1, <2>2, <2>3, <2>4, SameHistory DEF RunnerInv
<1> QED
  BY <1>1, <1>2, <1>3, <1>4, <1>5, <1>6, StartRunKeeps, StartFailsKeeps, CancelKeeps,
     DrainKeeps, ThreadsKeep DEF Next, Frame

-----------------------------------------------------------------------------
\* In every run, however clicks, frames and the threads of old and new children
\* interleave, the report on the page, the verdicts and the exit counts agree with
\* the run whose child is current, and a run is judged at most once.
THEOREM RunnerInvariant == Spec => []RunnerInv
<1>1. Init => RunnerInv
  BY InitRunner
<1>2. RunnerInv /\ [Next]_vars => RunnerInv'
  BY NextRunner
<1> QED  BY <1>1, <1>2, PTL DEF Spec

\* The report that is awaited is that of the run in hand, and is forgotten with
\* it: no record of the history shows the report of another run.
THEOREM ReportCorrect == Spec => []ReportIsOfItsRun
<1>1. RunnerInv => ReportIsOfItsRun
  BY DEF RunnerInv, ReportsAreOwn
<1> QED  BY <1>1, RunnerInvariant, PTL

\* A run is judged once and cancelled once, however frames, clicks, the threads
\* and the child follow each other.
THEOREM JudgementCorrect == Spec => []JudgedOnce
<1>1. ASSUME NEW S, \A i, j \in S : i = j PROVE Cardinality(S) <= 1
  <2>1. CASE S = {}
    BY <2>1, FS_EmptySet
  <2>2. CASE S # {}
    <3>1. PICK i : S = {i}
      BY <1>1, <2>2
    <3>2. Cardinality({i}) = 1
      BY FS_Singleton
    <3> QED  BY <3>1, <3>2
  <2> QED  BY <2>1, <2>2
<1>2. ASSUME RunnerInv, NEW r \in Runs
      PROVE  /\ \A i, j \in Verdicts(r) : i = j
             /\ \A i, j \in Records(r) \ Verdicts(r) : i = j
  BY <1>2, NoneAssumption DEF RunnerInv, OncePerRun, Verdicts, Records, IsVerdict
<1>3. RunnerInv => JudgedOnce
  BY <1>1, <1>2 DEF JudgedOnce
<1> QED  BY <1>3, RunnerInvariant, PTL

\* Until a start overtakes an exit, every exit that was drained is recorded,
\* and every record with a code has that of the run it names.
THEOREM HistoryCorrect == Spec => []ExactUntilOverlap
<1>1. ASSUME RunnerInv PROVE ExactUntilOverlap
  <2> SUFFICES ASSUME overlapped = {} PROVE ExactUntilOverlap
    BY DEF ExactUntilOverlap
  <2>1. \A r \in Runs : \A i \in Verdicts(r) : history[i].code = codes[r]
    BY <1>1, NoneAssumption DEF RunnerInv, NoOverlap, Verdicts, Records, IsVerdict
  <2>2. \A r \in seen : r \in Runs /\ Verdicts(r) # {}
    BY <1>1, ChildLogAssumption
       DEF RunnerInv, NoOverlap, SeenExits, ChildInv, ChildTypes, Runs
  <2> QED  BY <2>1, <2>2 DEF ExactUntilOverlap
<1> QED  BY <1>1, RunnerInvariant, PTL

\* A child that lives is held, and what is held is stopped before the window is
\* gone.
THEOREM OrphanCorrect == Spec => []NoOrphan
<1>1. RunnerInv => NoOrphan
  BY DEF RunnerInv, NoOrphan, Phases, ChildInv
<1> QED  BY <1>1, RunnerInvariant, PTL
=============================================================================
