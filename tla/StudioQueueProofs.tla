-------------------------- MODULE StudioQueueProofs -------------------------
(***************************************************************************)
(* The order of the task queue, for every set of tasks, capacity of the    *)
(* channel and number of lines, runs and queues.                           *)
(***************************************************************************)
EXTENDS StudioQueue, FiniteSetTheorems, NaturalsInduction, WellFoundedInduction, TLAPS

-----------------------------------------------------------------------------
(* What holds of a child of the studio, its readers and their channel at   *)
(* every step, whatever page starts, stops and drains it: the same for the *)
(* children of the queue and of the run tool.                              *)

Events == {Line} \cup {Exit(r, c) : r \in Runs, c \in ExitCodes}

\* The thread that reports the exit has not done so yet.
Reporting == reader["stdout"] \in {"reading", "waiting"}

ChildTypes ==
  /\ run \in 0..MaxRuns
  /\ codes \in [Runs -> ExitCodes \cup {"Running"}]
  /\ held \in BOOLEAN
  /\ reader \in [Pipes -> {"none", "reading", "waiting", "done"}]
  /\ chan \in Seq(Events)
  /\ lost \subseteq 1..run

\* An exit in the channel is that of a run that is over, and the only one of
\* that run; and the reader of a run reports after that run is over, once.
ExitsAreTrue ==
  /\ \A i \in Exits : /\ chan[i].run \in 1..run
                       /\ chan[i].run \notin lost
                       /\ chan[i].code = codes[chan[i].run]
  /\ \A i, j \in Exits : chan[i].run = chan[j].run => i = j
  /\ reader["stdout"] = "waiting" => codes[run] # "Running"
  /\ Reporting => run > 0 /\ run \notin lost /\ \A i \in Exits : chan[i].run # run

ChildInv == ChildTypes /\ ExitsAreTrue /\ (Alive => held)

LEMMA EventTypes ==
  /\ Line \in Events /\ Line.kind = "Line"
  /\ \A r \in Runs, c \in ExitCodes : /\ Exit(r, c) \in Events
                                       /\ Exit(r, c).kind = "Exit"
                                       /\ Exit(r, c).run = r
                                       /\ Exit(r, c).code = c
                                       /\ Exit(r, c) # None
<1>1. Line \in Events /\ Line.kind = "Line"
  BY DEF Events, Line
<1>2. ASSUME NEW r \in Runs, NEW c \in ExitCodes
      PROVE  /\ Exit(r, c).kind = "Exit" /\ Exit(r, c).run = r /\ Exit(r, c).code = c
  BY DEF Exit
<1>3. \A r \in Runs, c \in ExitCodes : Exit(r, c) \in Events
  BY DEF Events
<1> QED  BY <1>1, <1>2, <1>3, NoneAssumption

LEMMA ExitEvents ==
  ASSUME ChildInv, NEW i \in Exits
  PROVE  /\ i \in 1..Len(chan)
         /\ chan[i].run \in Runs /\ chan[i].code \in ExitCodes /\ chan[i] # None
<1>1. i \in 1..Len(chan) /\ chan[i] \in Events /\ chan[i].kind = "Exit"
  BY DEF ChildInv, ChildTypes, Exits
<1>2. chan[i] # Line
  BY <1>1, EventTypes
<1>3. PICK r \in Runs, c \in ExitCodes : chan[i] = Exit(r, c)
  BY <1>1, <1>2 DEF Events
<1> QED  BY <1>1, <1>3, EventTypes

\* What is sent is thrown away or comes last.
LEMMA Sending ==
  ASSUME ChildTypes, NEW e \in Events, chan' = TrySend(e)
  PROVE  /\ chan' \in Seq(Events)
         /\ \A i \in Exits' :
              \/ i \in Exits /\ chan'[i] = chan[i]
              \/ i = Len(chan) + 1 /\ i \notin Exits /\ chan'[i] = e
                 /\ e.kind = "Exit" /\ HasRoom
<1>1. CASE ~HasRoom
  BY <1>1 DEF TrySend, ChildTypes, Exits
<1>2. CASE HasRoom
  <2>1. chan' = Append(chan, e)
    BY <1>2 DEF TrySend
  <2> QED  BY <1>2, <2>1 DEF ChildTypes, Exits
<1> QED  BY <1>1, <1>2

\* What a step of the child or of its readers does to the exits in the channel:
\* one is added at most, by the reader of the run in hand.
ExitsMove ==
  \A i \in Exits' :
    \/ i \in Exits /\ chan'[i] = chan[i]
    \/ /\ Reporting /\ ~Reporting' /\ run' = run
       /\ i = Len(chan) + 1 /\ i \notin Exits
       /\ chan'[i] = Exit(run, codes[run]) /\ codes[run] # "Running"
       /\ codes' = codes /\ lost' = lost

LEMMA ChildTypesKept ==
  ASSUME ChildInv,
         ReaderStep \/ ProcessExits \/ Spawn \/ SpawnFails \/ StopChild \/ DrainChannel
           \/ UNCHANGED childVars
  PROVE  ChildTypes' /\ ExitsMove
<1>1. ASSUME NEW p \in Pipes, ReadLine(p) PROVE ChildTypes' /\ ExitsMove
  <2>1. chan' = TrySend(Line) /\ UNCHANGED <<run, codes, held, reader, lost>>
    BY <1>1 DEF ReadLine
  <2> QED  BY <2>1, Sending, EventTypes DEF ChildInv, ChildTypes, ExitsMove
<1>2. ASSUME NEW p \in Pipes, PipeEnds(p) PROVE ChildTypes' /\ ExitsMove
  BY <1>2 DEF PipeEnds, ChildInv, ChildTypes, ExitsMove, Exits
<1>3. CASE ReportExit
  <2>1. chan' = TrySend(Exit(run, codes[run])) /\ UNCHANGED <<run, codes, held>>
    BY <1>3 DEF ReportExit
  <2>2. Reporting /\ run \in 1..run /\ run \in Runs /\ codes[run] \in ExitCodes
    BY <1>3 DEF ReportExit, Reporting, ChildInv, ChildTypes, ExitsAreTrue, Runs
  <2>3. reader' \in [Pipes -> {"none", "reading", "waiting", "done"}] /\ ~Reporting'
    BY <1>3 DEF ReportExit, Reporting, ChildInv, ChildTypes, Pipes
  <2>4. lost' \subseteq 1..run' /\ (HasRoom => lost' = lost)
    BY <1>3, <2>1, <2>2 DEF ReportExit, ChildInv, ChildTypes
  <2>5. codes[run] # "Running"
    BY <2>2 DEF ExitCodes
  <2>6. Exit(run, codes[run]) \in Events
    BY <2>2, EventTypes
  <2> QED
    BY <2>1, <2>2, <2>3, <2>4, <2>5, <2>6, Sending DEF ChildInv, ChildTypes, ExitsMove
<1>4. CASE ProcessExits
  BY <1>4 DEF ProcessExits, ChildInv, ChildTypes, ExitsMove, Exits
<1>5. CASE Spawn
  BY <1>5, ChildLogAssumption DEF Spawn, ChildInv, ChildTypes, ExitsMove, Exits
<1>6. CASE SpawnFails
  BY <1>6 DEF SpawnFails, ChildInv, ChildTypes, ExitsMove, Exits
<1>7. CASE StopChild
  BY <1>7 DEF StopChild, ChildInv, ChildTypes, ExitsMove, Exits, KillCodes, ExitCodes
<1>8. CASE DrainChannel
  BY <1>8 DEF DrainChannel, ChildInv, ChildTypes, ExitsMove, Exits
<1>9. CASE UNCHANGED childVars
  BY <1>9 DEF childVars, ChildInv, ChildTypes, ExitsMove, Exits
<1> QED  BY <1>1, <1>2, <1>3, <1>4, <1>5, <1>6, <1>7, <1>8, <1>9 DEF ReaderStep

LEMMA ChildKeeps ==
  ASSUME ChildInv,
         ReaderStep \/ ProcessExits \/ Spawn \/ SpawnFails \/ StopChild \/ DrainChannel
           \/ UNCHANGED childVars
  PROVE  ChildInv' /\ ExitsMove
<1>1. ChildTypes /\ ChildTypes' /\ ExitsMove /\ (Alive => held) /\ ExitsAreTrue
  BY ChildTypesKept DEF ChildInv
<1>2. (Alive => held)'
  BY <1>1 DEF ReaderStep, ReadLine, PipeEnds, ReportExit, ProcessExits, Spawn,
         SpawnFails, StopChild, DrainChannel, childVars, Alive, ChildTypes, IsRunning,
         ExitCodes, KillCodes, Runs
<1>3. ExitsAreTrue'
  <2> DEFINE Own(i) == /\ chan[i].run \in 1..run
                       /\ chan[i].run \notin lost
                       /\ chan[i].code = codes[chan[i].run]
             Same == \A i, j \in Exits : chan[i].run = chan[j].run => i = j
             Waits == reader["stdout"] = "waiting" => codes[run] # "Running"
             Due == Reporting => run > 0 /\ run \notin lost /\ \A i \in Exits : chan[i].run # run
  <2>1. \A i \in Exits : Own(i) /\ chan[i].code # "Running" /\ chan[i].run \in Runs
    BY <1>1, ExitEvents DEF ExitsAreTrue, ExitCodes
  <2>2. Same /\ Waits /\ Due
    BY <1>1 DEF ExitsAreTrue
  <2>3. run <= run' /\ \A r \in 1..run : codes[r] # "Running" => codes'[r] = codes[r]
    <3>1. CASE codes' = codes
      BY <1>1, <3>1 DEF ReaderStep, ReadLine, PipeEnds, ReportExit, ProcessExits, Spawn,
             SpawnFails, StopChild, DrainChannel, childVars, ChildTypes
    <3>2. CASE ProcessExits \/ StopChild
      <4>1. \A r \in 1..run : r \in Runs
        BY <1>1, ChildLogAssumption DEF ChildTypes, Runs
      <4>2. run' = run /\ (codes' = codes \/ \E c : Alive /\ codes' = [codes EXCEPT ![run] = c])
        BY <3>2 DEF ProcessExits, StopChild
      <4> QED  BY <1>1, <4>1, <4>2 DEF Alive, ChildTypes
    <3> QED
      BY <3>1, <3>2 DEF ReaderStep, ReadLine, PipeEnds, ReportExit, Spawn, SpawnFails,
             DrainChannel, childVars
  <2>4. lost' = lost \/ (lost' = lost \cup {run} /\ Reporting /\ ~HasRoom /\ run' = run)
    BY DEF ReaderStep, ReadLine, PipeEnds, ReportExit, ProcessExits, Spawn,
           SpawnFails, StopChild, DrainChannel, childVars, Reporting
  <2>5. Reporting' =>
           \/ Reporting /\ run' = run /\ lost' = lost
           \/ run' = run + 1 /\ lost' = lost /\ chan' = chan
    BY <1>1 DEF ReaderStep, ReadLine, PipeEnds, ReportExit, ProcessExits, Spawn,
           SpawnFails, StopChild, DrainChannel, childVars, Reporting, ChildTypes, Pipes
  <2>6. ASSUME NEW i \in Exits' PROVE Own(i)'
    <3>1. CASE i \in Exits /\ chan'[i] = chan[i]
      BY <1>1, <2>1, <2>2, <2>3, <2>4, <3>1 DEF ChildTypes
    <3>2. CASE ~(i \in Exits /\ chan'[i] = chan[i])
      BY <1>1, <2>2, <3>2 DEF ExitsMove, ChildTypes, Exit
    <3> QED  BY <3>1, <3>2
  <2>7. Same'
    BY <1>1, <2>1, <2>2 DEF ExitsMove, Exit
  <2>8. Waits'
    <3>1. CASE UNCHANGED <<run, codes, reader>>
      BY <2>2, <3>1
    <3>2. ASSUME NEW p \in Pipes, PipeEnds(p) PROVE Waits'
      BY <1>1, <2>2, <3>2 DEF PipeEnds, Alive, Reporting, ChildTypes, Pipes
    <3>3. CASE ReportExit \/ Spawn \/ SpawnFails
      BY <1>1, <3>3 DEF ReportExit, Spawn, SpawnFails, ChildTypes, Pipes
    <3>4. CASE ProcessExits \/ StopChild
      BY <1>1, <2>2, <3>4 DEF ProcessExits, StopChild, Alive, ChildTypes, Runs, ExitCodes, KillCodes
    <3> QED
      BY <3>1, <3>2, <3>3, <3>4 DEF ReaderStep, ReadLine, DrainChannel, childVars
  <2>9. Due'
    <3> SUFFICES ASSUME Reporting'
                 PROVE  run' > 0 /\ run' \notin lost' /\ \A i \in Exits' : chan'[i].run # run'
      OBVIOUS
    <3>1. CASE Reporting /\ run' = run /\ lost' = lost
      BY <1>1, <2>2, <3>1 DEF ExitsMove
    <3>2. CASE run' = run + 1 /\ lost' = lost /\ chan' = chan
      BY <1>1, <2>1, <3>2 DEF Exits, ChildTypes
    <3> QED  BY <2>5, <3>1, <3>2
  <2> QED  BY <2>6, <2>7, <2>8, <2>9 DEF ExitsAreTrue
<1> QED  BY <1>1, <1>2, <1>3 DEF ChildInv

-----------------------------------------------------------------------------
(* The exit that a frame drains *)

Descending == {p \in Nat \X Nat : p[1] < p[2]}

LEMMA SmallestOf ==
  ASSUME NEW S \in SUBSET Nat, S # {}
  PROVE  \E m \in S : \A n \in S : m <= n
<1>1. IsWellFoundedOn(Descending, Nat)
  BY NatLessThanWellFounded DEF Descending, OpToRel
<1>2. PICK m \in S : \A n \in S : <<n, m>> \notin Descending
  BY <1>1, WFMin
<1>3. ASSUME NEW n \in S PROVE m <= n
  <2>1. m \in Nat /\ n \in Nat
    OBVIOUS
  <2>2. ~(n < m)
    BY <1>2, <2>1 DEF Descending
  <2> QED  BY <2>1, <2>2
<1> QED  BY <1>3

LEMMA FirstExitType ==
  ASSUME ChildInv
  PROVE  /\ Exits = {} => FirstExit = None
         /\ Exits # {} => /\ FirstExit # None /\ FirstExit.code \in ExitCodes
                          /\ \E i \in Exits : FirstExit = chan[i]
<1>1. CASE Exits = {}
  BY <1>1 DEF FirstExit
<1>2. CASE Exits # {}
  <2>1. Exits \in SUBSET Nat
    BY DEF Exits, ChildInv, ChildTypes
  <2>2. \E i \in Exits : \A j \in Exits : i <= j
    BY <1>2, <2>1, SmallestOf
  <2>3. PICK i \in Exits : FirstExit = chan[i]
    BY <1>2, <2>2 DEF FirstExit
  <2> QED  BY <1>2, <2>3, ExitEvents
<1> QED  BY <1>1, <1>2

-----------------------------------------------------------------------------
(* The queue *)

Queues == [state : QueueStates, current : Nat, entries : Seq(Tasks), aborted : BOOLEAN]

Entries == [ev : {"new", "start", "exit", "resume", "abort"}, entry : Nat, run : 0..MaxRuns]

QueueTypes ==
  /\ queue = None \/ queue \in Queues
  /\ pc \in {"Idle", "Buttons", "Start", "Abort"}
  /\ selected \in Seq(Tasks)
  /\ trail \in Seq(Entries)
  /\ \A i \in Starts : trail[i].run \in Runs

Between == pc \in {"Idle", "Buttons"}

\* Where a frame is tells what may still come of the child: nothing, when the
\* queue is not running and no stop is under way.
Frames ==
  /\ queue = None => run = 0 /\ Exits = {} /\ trail = <<>> /\ ~held
  /\ pc = "Start" => In("Running") /\ ~Reporting /\ Exits = {}
  /\ pc = "Abort" => Active /\ ~held
  /\ Between /\ ~In("Running") => ~Reporting
  /\ pc = "Buttons" /\ ~In("Running") => Exits = {}
  /\ In("Running") /\ pc # "Abort" => ~queue.aborted
  /\ (queue # None /\ queue.aborted) => In("Completed") /\ ~held /\ Between

\* The positions of the trail since the last queue was created.
SameNow == SameQueue(Len(trail))

\* The child of a running queue is the one that was started last, for the
\* current task, and no exit but its own can be drained.
CurrentTask ==
  In("Running") /\ Between =>
    /\ \A i \in Exits : chan[i].run = run
    /\ \E m \in Starts : /\ \A j \in Starts : j <= m
                         /\ m \in SameNow
                         /\ trail[m].run = run /\ trail[m].entry = queue.current

\* The entries of the queue in hand that were started, and why the next one may be.
InOrder ==
  Active =>
    LET before == {j \in Starts : j \in SameNow} IN
      /\ \A j \in before : trail[j].entry <= queue.current
      /\ pc = "Start" =>
           /\ \A j \in before : trail[j].entry < queue.current
           /\ queue.current > 1 =>
                \/ \E j \in before : /\ trail[j].entry = queue.current - 1
                                     /\ codes[trail[j].run] = "Zero"
                \/ \E k \in SameNow : /\ k <= Len(trail)
                                      /\ trail[k].ev = "resume"
                                      /\ trail[k].entry = queue.current - 1

\* The last thing an aborted queue did.
Aborted ==
  /\ \A i \in DOMAIN trail : (trail[i].ev = "abort" /\ i < Len(trail)) => trail[i + 1].ev = "new"
  /\ (trail # <<>> /\ trail[Len(trail)].ev = "abort") => In("Completed") /\ Between

\* What the trail tells of an exit and of a start, entry by entry.
ExitAt(i) ==
  trail[i].ev = "exit" =>
    \E m \in Starts : /\ m < i /\ \A j \in Starts : j < i => j <= m
                      /\ trail[i].run = trail[m].run /\ trail[i].entry = trail[m].entry

StartAt(i) ==
  i \in Starts =>
    /\ \A j \in Starts : (j < i /\ j \in SameQueue(i)) => trail[j].entry < trail[i].entry
    /\ trail[i].entry > 1 =>
         \/ \E j \in Starts : /\ j < i /\ j \in SameQueue(i)
                              /\ trail[j].entry = trail[i].entry - 1
                              /\ codes[trail[j].run] = "Zero"
         \/ \E k \in SameQueue(i) : k < i /\ trail[k].ev = "resume"
                                    /\ trail[k].entry = trail[i].entry - 1

Past == \A i \in DOMAIN trail : ExitAt(i) /\ StartAt(i)

QueueInv ==
  /\ ChildInv /\ QueueTypes /\ Frames /\ CurrentTask /\ InOrder /\ Aborted /\ Past

LEMMA InitQueue == Init => QueueInv
<1> SUFFICES ASSUME Init PROVE QueueInv
  OBVIOUS
<1>1. chan = <<>> /\ Exits = {} /\ run = 0 /\ ~Reporting /\ trail = <<>> /\ queue = None
      /\ pc = "Idle" /\ Starts = {} /\ held = FALSE /\ lost = {}
  BY DEF Init, InitChild, Exits, Reporting, Pipes, Starts
<1>2. ChildTypes
  <2>1. chan \in Seq(Events)
    BY <1>1
  <2>2. reader \in [Pipes -> {"none", "reading", "waiting", "done"}]
    BY DEF Init, InitChild
  <2>3. codes \in [Runs -> ExitCodes \cup {"Running"}]
    BY DEF Init, InitChild
  <2>4. run \in 0..MaxRuns
    BY <1>1, ChildLogAssumption
  <2> QED  BY <1>1, <2>1, <2>2, <2>3, <2>4 DEF ChildTypes
<1>3. ChildInv
  BY <1>1, <1>2 DEF Init, InitChild, ChildInv, ExitsAreTrue, Alive, Pipes
<1>4. QueueTypes
  <2>1. trail \in Seq(Entries) /\ selected \in Seq(Tasks)
    BY <1>1 DEF Init
  <2> QED  BY <1>1, <2>1 DEF QueueTypes
<1>5. Frames /\ CurrentTask /\ InOrder /\ Aborted
  BY <1>1 DEF Frames, CurrentTask, InOrder, Aborted, In, Active, Between
<1>6. Past
  BY <1>1 DEF Past
<1> QED  BY <1>3, <1>4, <1>5, <1>6 DEF QueueInv

-----------------------------------------------------------------------------
(* What has been recorded *)

\* A code that was Zero stays so: a child that is over does not change.
ZerosStay == \A i \in Starts : codes[trail[i].run] = "Zero" => codes'[trail[i].run] = "Zero"

LEMMA CodesKept ==
  ASSUME QueueInv,
         ReaderStep \/ ProcessExits \/ Spawn \/ SpawnFails \/ StopChild \/ DrainChannel
           \/ UNCHANGED childVars
  PROVE  ZerosStay
<1>1. codes' = codes \/ \E c : Alive /\ codes' = [codes EXCEPT ![run] = c]
  BY DEF ReaderStep, ReadLine, PipeEnds, ReportExit, ProcessExits, Spawn, SpawnFails,
         StopChild, DrainChannel, childVars
<1>2. \A i \in Starts : trail[i].run \in Runs
  BY DEF QueueInv, QueueTypes
<1> QED  BY <1>1, <1>2 DEF ZerosStay, Alive, QueueInv, ChildInv, ChildTypes

LEMMA TrailGrows ==
  ASSUME trail \in Seq(Entries), NEW e \in Entries, trail' = Append(trail, e)
  PROVE  /\ trail' \in Seq(Entries)
         /\ Len(trail') = Len(trail) + 1 /\ Len(trail) \in Nat
         /\ DOMAIN trail = 1..Len(trail) /\ DOMAIN trail' = 1..(Len(trail) + 1)
         /\ \A i \in DOMAIN trail : trail'[i] = trail[i]
         /\ trail'[Len(trail) + 1] = e
  OBVIOUS

LEMMA StartsGrow ==
  ASSUME trail \in Seq(Entries), NEW e \in Entries, trail' = Append(trail, e)
  PROVE  /\ \A i \in DOMAIN trail : i \in Starts' <=> i \in Starts
         /\ Len(trail) + 1 \in Starts' <=> e.ev = "start"
         /\ \A i, j \in DOMAIN trail : j \in SameQueue(i)' <=> j \in SameQueue(i)
         /\ \A j \in DOMAIN trail :
              j \in SameNow' <=> e.ev # "new" /\ j \in SameNow
         /\ Len(trail) + 1 \in SameNow'
<1>7. PICK n \in Nat : n = Len(trail)
  OBVIOUS
<1>1. /\ n \in Nat /\ Len(trail') = n + 1
      /\ DOMAIN trail = 1..n /\ DOMAIN trail' = 1..(n + 1)
      /\ \A i \in DOMAIN trail : trail'[i] = trail[i]
      /\ trail'[n + 1] = e
  BY <1>7, TrailGrows
<1>2. \A i \in DOMAIN trail : i \in Starts' <=> i \in Starts
  BY <1>1 DEF Starts
<1>3. n + 1 \in Starts' <=> e.ev = "start"
  BY <1>1 DEF Starts
<1>4. ASSUME NEW i \in DOMAIN trail, NEW j \in DOMAIN trail
      PROVE  j \in SameQueue(i)' <=> j \in SameQueue(i)
  BY <1>1 DEF SameQueue
<1>5. ASSUME NEW j \in DOMAIN trail
      PROVE  j \in SameNow' <=> e.ev # "new" /\ j \in SameNow
  <2>1. SameNow' = SameQueue(n + 1)' /\ SameNow = SameQueue(n)
    BY <1>1, <1>7 DEF SameNow
  <2>2. j \in SameQueue(n + 1)' <=> \A k \in 1..(n + 1) : ~(trail'[k].ev = "new" /\ k > j)
    BY <1>1 DEF SameQueue
  <2>3. j \in SameQueue(n) <=> \A k \in 1..n : ~(trail[k].ev = "new" /\ k > j)
    BY <1>1 DEF SameQueue
  <2> QED  BY <1>1, <2>1, <2>2, <2>3
<1>6. n + 1 \in SameNow'
  BY <1>1 DEF SameQueue, SameNow
<1> QED  BY <1>1, <1>2, <1>3, <1>4, <1>5, <1>6, <1>7

LEMMA PastKept ==
  ASSUME QueueTypes, Past, ZerosStay, NEW e \in Entries, trail' = Append(trail, e)
  PROVE  \A i \in DOMAIN trail : ExitAt(i)' /\ StartAt(i)'
<1> SUFFICES ASSUME NEW i \in DOMAIN trail PROVE ExitAt(i)' /\ StartAt(i)'
  OBVIOUS
<1>1. trail \in Seq(Entries) /\ ExitAt(i) /\ StartAt(i)
  BY DEF QueueTypes, Past
<1>2. PICK n \in Nat : n = Len(trail) /\ DOMAIN trail = 1..n /\ DOMAIN trail' = 1..(n + 1)
  BY <1>1, TrailGrows
<1>3. \A j \in DOMAIN trail : trail'[j] = trail[j] /\ (j \in Starts' <=> j \in Starts)
                              /\ (j \in SameQueue(i)' <=> j \in SameQueue(i))
  BY <1>1, TrailGrows, StartsGrow
<1>4. \A j : j \in Starts' \/ j \in SameQueue(i)' => j \in 1..(n + 1)
  BY <1>2 DEF Starts, SameQueue
<1>5. \A j : (j \in Starts' \/ j \in SameQueue(i)') /\ j < i => j \in DOMAIN trail
  BY <1>2, <1>4
<1>6. \A j : j \in Starts \/ j \in SameQueue(i) => j \in DOMAIN trail
  BY DEF Starts, SameQueue
<1>7. ExitAt(i)'
  BY <1>1, <1>3, <1>5, <1>6 DEF ExitAt
<1>8. StartAt(i)'
  <2> SUFFICES ASSUME i \in Starts' PROVE StartAt(i)'
    BY DEF StartAt
  <2>1. i \in Starts /\ trail'[i] = trail[i]
    BY <1>3
  <2>2. \A j \in Starts' : (j < i /\ j \in SameQueue(i)') => trail'[j].entry < trail'[i].entry
    BY <1>1, <1>3, <1>5, <2>1 DEF StartAt
  <2>3. ASSUME trail'[i].entry > 1
        PROVE  \/ \E j \in Starts' : /\ j < i /\ j \in SameQueue(i)'
                                     /\ trail'[j].entry = trail'[i].entry - 1
                                     /\ codes'[trail'[j].run] = "Zero"
               \/ \E k \in SameQueue(i)' : k < i /\ trail'[k].ev = "resume"
                                           /\ trail'[k].entry = trail'[i].entry - 1
    <3>1. CASE \E j \in Starts : /\ j < i /\ j \in SameQueue(i)
                                 /\ trail[j].entry = trail[i].entry - 1
                                 /\ codes[trail[j].run] = "Zero"
      BY <1>3, <1>6, <2>1, <3>1 DEF ZerosStay
    <3>2. CASE \E k \in SameQueue(i) : k < i /\ trail[k].ev = "resume"
                                       /\ trail[k].entry = trail[i].entry - 1
      BY <1>3, <1>6, <2>1, <3>2
    <3> QED  BY <1>1, <2>1, <2>3, <3>1, <3>2 DEF StartAt
  <2> QED  BY <2>2, <2>3 DEF StartAt
<1> QED  BY <1>7, <1>8

LEMMA PastSame ==
  ASSUME Past, ZerosStay, UNCHANGED trail
  PROVE  Past'
<1>1. Starts' = Starts /\ \A i : SameQueue(i)' = SameQueue(i)
  BY DEF Starts, SameQueue
<1>2. \A i \in DOMAIN trail : ExitAt(i)' <=> ExitAt(i)
  BY <1>1 DEF ExitAt
<1>3. \A i \in DOMAIN trail : StartAt(i) => StartAt(i)'
  BY <1>1 DEF StartAt, ZerosStay
<1> QED  BY <1>2, <1>3 DEF Past

-----------------------------------------------------------------------------
(* Choosing tasks.  What is kept of the checked tasks is in their order, each *)
(* once: counting those up to it gives every one of them its own place.       *)

LEMMA RankIsOnto ==
  ASSUME NEW P \in SUBSET Nat, IsFiniteSet(P)
  PROVE  /\ Cardinality(P) \in Nat
         /\ \A k \in 1..Cardinality(P) : \E i \in P : Cardinality({j \in P : j <= i}) = k
<1> DEFINE upto(i) == {j \in P : j <= i}
           rank == [i \in P |-> Cardinality(upto(i))]
<1>1. PICK c \in Nat : c = Cardinality(P)
  BY FS_CardinalityType
<1>2. ASSUME NEW i \in P
      PROVE  IsFiniteSet(upto(i)) /\ Cardinality(upto(i)) \in 1..c
  <2>1. upto(i) \in SUBSET P /\ i \in upto(i)
    OBVIOUS
  <2> HIDE DEF upto
  <2>2. IsFiniteSet(upto(i)) /\ Cardinality(upto(i)) <= c
    BY <1>1, <2>1, FS_Subset
  <2>3. Cardinality(upto(i)) \in Nat /\ Cardinality(upto(i)) # 0
    BY <2>1, <2>2, FS_CardinalityType, FS_EmptySet
  <2> QED  BY <1>1, <2>2, <2>3
<1>3. ASSUME NEW i \in P, NEW j \in P, i < j
      PROVE  Cardinality(upto(i)) # Cardinality(upto(j))
  <2>1. upto(i) \in SUBSET upto(j) /\ j \in upto(j) /\ j \notin upto(i)
    <3>1. \A x \in P : x \in Nat
      OBVIOUS
    <3>2. j <= j /\ ~(j <= i) /\ \A x \in P : x <= i => x <= j
      BY <1>3, <3>1
    <3> QED  BY <3>2
  <2> HIDE DEF upto
  <2> QED  BY <1>2, <2>1, FS_Subset
<1>4. rank \in Injection(P, 1..c)
  <2>1. rank \in [P -> 1..c]
    BY <1>2
  <2>2. \A i, j \in P : rank[i] = rank[j] => i = j
    <3>1. \A i, j \in P : i # j => i < j \/ j < i
      OBVIOUS
    <3> HIDE DEF upto
    <3> QED  BY <1>3, <3>1
  <2> HIDE DEF rank
  <2> QED  BY <2>1, <2>2 DEF Injection, IsInjective
<1>5. IsFiniteSet(1..c) /\ Cardinality(1..c) = c
  BY FS_Interval
<1>6. rank \in Surjection(P, 1..c)
  <2> HIDE DEF rank
  <2> QED  BY <1>1, <1>4, <1>5, FS_Injection
<1>7. \A k \in 1..c : \E i \in P : rank[i] = k
  <2> HIDE DEF rank
  <2> QED  BY <1>6 DEF Surjection
<1> QED  BY <1>1, <1>7

LEMMA CheckedTasks ==
  ASSUME selected \in Seq(Tasks), NEW S
  PROVE  /\ CheckedIn(S) \in Seq(Tasks)
         /\ ToSet(CheckedIn(S)) \subseteq ToSet(selected) \cap S
         /\ IsInjective(selected) => IsInjective(CheckedIn(S))
<1> DEFINE kept == {i \in DOMAIN selected : selected[i] \in S}
           place(k) == CHOOSE i \in kept : Cardinality({j \in kept : j <= i}) = k
<1>1. kept \in SUBSET Nat /\ IsFiniteSet(kept)
  <2>1. kept \in SUBSET (1..Len(selected)) /\ IsFiniteSet(1..Len(selected))
    BY FS_Interval
  <2> QED  BY <2>1, FS_Subset
<1>2. PICK c \in Nat : c = Cardinality(kept)
  BY <1>1, RankIsOnto
<1>3. ASSUME NEW k \in 1..c
      PROVE  place(k) \in kept /\ Cardinality({j \in kept : j <= place(k)}) = k
  <2>1. \E i \in kept : Cardinality({j \in kept : j <= i}) = k
    BY <1>1, <1>2, RankIsOnto
  <2> HIDE DEF kept
  <2> QED  BY <2>1
<1>4. CheckedIn(S) = [k \in 1..c |-> selected[place(k)]]
  BY <1>2 DEF CheckedIn
<1>5. \A k \in 1..c : selected[place(k)] \in Tasks \cap S /\ place(k) \in DOMAIN selected
  <2>1. \A i \in kept : selected[i] \in Tasks \cap S /\ i \in DOMAIN selected
    OBVIOUS
  <2> HIDE DEF kept, place
  <2> QED  BY <1>3, <2>1
<1>6. \A k, m \in 1..c : place(k) = place(m) => k = m
  <2> HIDE DEF kept, place
  <2> QED  BY <1>3
<1> HIDE DEF kept, place
<1>7. CheckedIn(S) \in Seq(Tasks) /\ DOMAIN CheckedIn(S) = 1..c
  BY <1>4, <1>5
<1>8. ToSet(CheckedIn(S)) \subseteq ToSet(selected) \cap S
  BY <1>4, <1>5, <1>7 DEF ToSet
<1>9. IsInjective(selected) => IsInjective(CheckedIn(S))
  BY <1>4, <1>5, <1>6, <1>7 DEF IsInjective
<1> QED  BY <1>7, <1>8, <1>9

Runnable == selectable \subseteq Tasks /\ ChecksAreRunnable

\* The checked tasks are distinct and can be run.
LEMMA ChooseKeeps ==
  ASSUME QueueTypes, Runnable, [Next]_vars
  PROVE  (selected \in Seq(Tasks))' /\ Runnable'
<1>1. selected \in Seq(Tasks) /\ IsInjective(selected) /\ ToSet(selected) \subseteq selectable
  BY DEF QueueTypes, Runnable, ChecksAreRunnable
<1>2. ASSUME NEW t \in Tasks, Toggle(t)
      PROVE  (selected \in Seq(Tasks))' /\ Runnable'
  <2>1. CASE Contains(selected, t)
    <3>1. selected' = CheckedIn(Tasks \ {t}) /\ selectable' = selectable
      BY <1>2, <2>1 DEF Toggle
    <3> QED  BY <1>1, <3>1, CheckedTasks DEF Runnable, ChecksAreRunnable
  <2>2. CASE ~Contains(selected, t)
    <3>1. selected' = Append(selected, t) /\ selectable' = selectable /\ t \in selectable
      BY <1>2, <2>2 DEF Toggle
    <3>2. \A i \in DOMAIN selected : selected[i] # t
      BY <1>1, <2>2 DEF Contains
    <3>3. selected' \in Seq(Tasks) /\ DOMAIN selected' = DOMAIN selected \cup {Len(selected) + 1}
          /\ selected'[Len(selected) + 1] = t /\ \A i \in DOMAIN selected : selected'[i] = selected[i]
      BY <1>1, <3>1
    <3>4. IsInjective(selected')
      BY <1>1, <3>2, <3>3 DEF IsInjective
    <3>5. ToSet(selected') \subseteq selectable'
      BY <1>1, <3>1, <3>3 DEF ToSet
    <3> QED  BY <3>1, <3>3, <3>4, <3>5 DEF Runnable, ChecksAreRunnable
  <2> QED  BY <2>1, <2>2
<1>3. CASE ReloadDefinitions
  <2>1. selected' = CheckedIn(selectable') /\ selectable' \subseteq Tasks
    BY <1>3 DEF ReloadDefinitions
  <2> QED  BY <1>1, <2>1, CheckedTasks DEF Runnable, ChecksAreRunnable
<1>4. CASE ReloadFails
  <2>1. selected' = CheckedIn(Tasks \ selectable) /\ selectable' = selectable
    BY <1>4 DEF ReloadFails
  <2> QED  BY <1>1, <2>1, CheckedTasks DEF Runnable, ChecksAreRunnable
<1>5. CASE UNCHANGED <<selectable, selected>>
  BY <1>1, <1>5 DEF Runnable, ChecksAreRunnable
<1>6. UNCHANGED <<selectable, selected>> \/ Choose
  BY DEF Next, Click, Blocked, Child, Drain, NoClick, ClickStart, ClickResume,
         ClickAbort, StartTask, StartFails, AbortQueue, vars, queueVars
<1> QED  BY <1>2, <1>3, <1>4, <1>5, <1>6 DEF Choose

-----------------------------------------------------------------------------
(* Steps that leave the trail alone *)

LEMMA QuietPast ==
  ASSUME QueueInv, UNCHANGED trail,
         ReaderStep \/ ProcessExits \/ Spawn \/ SpawnFails \/ StopChild \/ DrainChannel
           \/ UNCHANGED childVars
  PROVE  /\ ChildInv' /\ ExitsMove /\ ZerosStay /\ Past'
         /\ Starts' = Starts /\ SameNow' = SameNow
         /\ (trail \in Seq(Entries))' /\ (\A i \in Starts : trail[i].run \in Runs)'
<1>1. ChildInv' /\ ExitsMove /\ ZerosStay
  BY ChildKeeps, CodesKept DEF QueueInv
<1>2. Starts' = Starts /\ SameNow' = SameNow
  BY DEF Starts, SameNow, SameQueue
<1> QED  BY <1>1, <1>2, PastSame DEF QueueInv, QueueTypes

LEMMA ChildStepKeeps ==
  ASSUME QueueInv, ReaderStep \/ ProcessExits, UNCHANGED queueVars
  PROVE  QueueInv'
<1>1. UNCHANGED <<selectable, selected, queue, pc, trail>>
  BY DEF queueVars
<1>2. /\ ChildInv' /\ ExitsMove /\ ZerosStay /\ Past'
      /\ Starts' = Starts /\ SameNow' = SameNow
      /\ (trail \in Seq(Entries))' /\ (\A i \in Starts : trail[i].run \in Runs)'
  BY <1>1, QuietPast
<1>3. UNCHANGED <<run, held>> /\ (Reporting' => Reporting)
  BY DEF ReaderStep, ReadLine, PipeEnds, ReportExit, ProcessExits, Reporting, QueueInv,
         ChildInv, ChildTypes, Pipes
<1>4. QueueTypes'
  BY <1>1, <1>2 DEF QueueInv, QueueTypes
<1>5. ~Reporting /\ Exits = {} => Exits' = {}
  BY <1>2 DEF ExitsMove
<1>6. Frames'
  BY <1>1, <1>3, <1>5 DEF QueueInv, QueueTypes, Frames, In, Active, Between
<1>7. CurrentTask'
  BY <1>1, <1>2, <1>3 DEF QueueInv, CurrentTask, In, Between, ExitsMove, SameNow, Exit
<1>8. InOrder'
  BY <1>1, <1>2 DEF QueueInv, InOrder, Active, SameNow, ZerosStay
<1>9. Aborted'
  BY <1>1 DEF QueueInv, Aborted, In, Between
<1> QED  BY <1>2, <1>4, <1>6, <1>7, <1>8, <1>9 DEF QueueInv

\* Choosing tasks, and a frame without a click.
LEMMA IdleKeeps ==
  ASSUME QueueInv, UNCHANGED <<childVars, queue, trail>>, (selected \in Seq(Tasks))',
         pc' = pc \/ (pc = "Buttons" /\ pc' = "Idle")
  PROVE  QueueInv'
<1>1. /\ ChildInv' /\ ExitsMove /\ ZerosStay /\ Past'
      /\ Starts' = Starts /\ SameNow' = SameNow
      /\ (trail \in Seq(Entries))' /\ (\A i \in Starts : trail[i].run \in Runs)'
  BY QuietPast
<1>2. UNCHANGED <<run, codes, held, reader, chan>> /\ Exits' = Exits /\ (Reporting' <=> Reporting)
  BY DEF childVars, Exits, Reporting
<1>3. QueueTypes'
  BY <1>1 DEF QueueInv, QueueTypes
<1>4. Frames'
  BY <1>2 DEF QueueInv, Frames, In, Active, Between
<1>5. CurrentTask'
  BY <1>1, <1>2 DEF QueueInv, CurrentTask, In, Between
<1>6. InOrder' /\ Aborted'
  BY <1>1, <1>2 DEF QueueInv, InOrder, Active, SameNow, Aborted, In, Between
<1> QED  BY <1>1, <1>3, <1>4, <1>5, <1>6 DEF QueueInv

LEMMA ClickAbortKeeps == ASSUME QueueInv, ClickAbort PROVE QueueInv'
<1>1. UNCHANGED <<selectable, selected, queue, trail>> /\ pc = "Buttons" /\ pc' = "Abort"
      /\ Active
  BY DEF ClickAbort
<1>2. /\ ChildInv' /\ ExitsMove /\ ZerosStay /\ Past'
      /\ Starts' = Starts /\ SameNow' = SameNow
      /\ (trail \in Seq(Entries))' /\ (\A i \in Starts : trail[i].run \in Runs)'
  BY <1>1, QuietPast DEF ClickAbort
<1>3. ~held' /\ run' = run
  BY DEF ClickAbort, StopChild, childVars, QueueInv, ChildInv, ChildTypes
<1>4. QueueTypes'
  BY <1>1, <1>2 DEF QueueInv, QueueTypes
<1>5. Frames'
  BY <1>1, <1>3 DEF QueueInv, Frames, In, Active, Between
<1>6. CurrentTask' /\ Aborted'
  BY <1>1 DEF QueueInv, CurrentTask, Aborted, In, Between, Active
<1>7. InOrder'
  BY <1>1, <1>2 DEF QueueInv, InOrder, Active, SameNow
<1> QED  BY <1>2, <1>4, <1>5, <1>6, <1>7 DEF QueueInv

\* The queue is told of a failed start.
LEMMA StartFailsKeeps == ASSUME QueueInv, StartFails PROVE QueueInv'
<1>1. UNCHANGED <<selectable, selected, trail>> /\ pc = "Start" /\ pc' = "Idle"
      /\ queue' = [queue EXCEPT !.state = "PausedAfterFailure"]
  BY DEF StartFails, Fail
<1>2. /\ ChildInv' /\ ExitsMove /\ ZerosStay /\ Past'
      /\ Starts' = Starts /\ SameNow' = SameNow
      /\ (trail \in Seq(Entries))' /\ (\A i \in Starts : trail[i].run \in Runs)'
  BY <1>1, QuietPast DEF StartFails
<1>3. queue \in Queues /\ In("Running") /\ ~Reporting /\ ~queue.aborted
  BY <1>1 DEF QueueInv, QueueTypes, Frames, In
<1>4. queue' \in Queues /\ queue'.state = "PausedAfterFailure" /\ ~queue'.aborted
      /\ queue'.current = queue.current
  BY <1>1, <1>3 DEF Queues, QueueStates
<1>5. queue' # None
  BY <1>4, QueueAssumption DEF Queues
<1>6. ~Reporting'
  BY <1>3 DEF StartFails, SpawnFails, childVars, Reporting, Pipes
<1>7. QueueTypes'
  BY <1>1, <1>2, <1>4 DEF QueueInv, QueueTypes
<1>8. Frames' /\ CurrentTask'
  BY <1>1, <1>4, <1>5, <1>6 DEF Frames, CurrentTask, In, Between
<1>9. InOrder' /\ Aborted'
  BY <1>1, <1>2, <1>3, <1>4, <1>5
     DEF QueueInv, InOrder, Active, SameNow, Aborted, In, Between
<1> QED  BY <1>2, <1>7, <1>8, <1>9 DEF QueueInv

-----------------------------------------------------------------------------
(* Steps that the trail tells of *)

\* What is recorded adds to the trail and changes nothing in it.
LEMMA Recorded ==
  ASSUME QueueInv, NEW e \in Entries, trail' = Append(trail, e),
         e.ev = "start" => e.run \in Runs,
         ReaderStep \/ ProcessExits \/ Spawn \/ SpawnFails \/ StopChild \/ DrainChannel
           \/ UNCHANGED childVars
  PROVE  /\ ChildInv' /\ ExitsMove /\ ZerosStay
         /\ \A i \in DOMAIN trail : ExitAt(i)' /\ StartAt(i)'
         /\ (trail \in Seq(Entries))' /\ (\A i \in Starts : trail[i].run \in Runs)'
         /\ Len(trail') = Len(trail) + 1 /\ Len(trail) \in Nat
         /\ DOMAIN trail = 1..Len(trail) /\ DOMAIN trail' = 1..(Len(trail) + 1)
         /\ \A i \in DOMAIN trail : trail'[i] = trail[i]
         /\ trail'[Len(trail) + 1] = e
         /\ \A i \in DOMAIN trail : i \in Starts' <=> i \in Starts
         /\ Len(trail) + 1 \in Starts' <=> e.ev = "start"
         /\ \A i \in DOMAIN trail : i \in SameNow' <=> e.ev # "new" /\ i \in SameNow
         /\ Len(trail) + 1 \in SameNow'
         /\ \A i : i \in Starts' \/ i \in SameNow' => i \in DOMAIN trail \/ i = Len(trail) + 1
<1>1. ChildInv' /\ ExitsMove /\ ZerosStay
  BY ChildKeeps, CodesKept DEF QueueInv
<1>2. trail \in Seq(Entries) /\ \A i \in Starts : trail[i].run \in Runs
  BY DEF QueueInv, QueueTypes
<1>3. /\ (trail \in Seq(Entries))'
      /\ Len(trail') = Len(trail) + 1 /\ Len(trail) \in Nat
      /\ DOMAIN trail = 1..Len(trail) /\ DOMAIN trail' = 1..(Len(trail) + 1)
      /\ \A i \in DOMAIN trail : trail'[i] = trail[i]
      /\ trail'[Len(trail) + 1] = e
  BY <1>2, TrailGrows
<1>4. /\ \A i \in DOMAIN trail : i \in Starts' <=> i \in Starts
      /\ Len(trail) + 1 \in Starts' <=> e.ev = "start"
      /\ \A i \in DOMAIN trail : i \in SameNow' <=> e.ev # "new" /\ i \in SameNow
      /\ Len(trail) + 1 \in SameNow'
  BY <1>2, StartsGrow
<1>5. \A i : i \in Starts' \/ i \in SameNow' => i \in DOMAIN trail \/ i = Len(trail) + 1
  BY <1>3 DEF Starts, SameNow, SameQueue
<1>6. (\A i \in Starts : trail[i].run \in Runs)'
  BY <1>2, <1>3, <1>4, <1>5
<1>7. \A i \in DOMAIN trail : ExitAt(i)' /\ StartAt(i)'
  BY <1>1, PastKept DEF QueueInv
<1> QED  BY <1>1, <1>3, <1>4, <1>5, <1>6, <1>7

\* A new queue: the child of the one before is over and its exit is drained.
LEMMA ClickStartKeeps == ASSUME QueueInv, ClickStart PROVE QueueInv'
<1> DEFINE e == Did("new", 0)
<1>0. PICK n \in Nat : n = Len(trail)
  BY DEF QueueInv, QueueTypes
<1>1. /\ trail' = Append(trail, e) /\ UNCHANGED <<childVars, selectable, selected>>
      /\ pc = "Buttons" /\ pc' = "Start" /\ ~Active
      /\ queue' = QueueExec("Running", 1, selected, FALSE)
  BY DEF ClickStart, Record
<1>2. e \in Entries /\ e.ev = "new"
  BY DEF Did, Entries, QueueInv, ChildInv, ChildTypes
<1>3. queue' \in Queues /\ queue'.state = "Running" /\ queue'.current = 1 /\ ~queue'.aborted
  BY <1>1 DEF QueueInv, QueueTypes, Queues, QueueExec, QueueStates
<1>4. queue' # None
  BY <1>3, QueueAssumption DEF Queues
<1>5. ~Reporting /\ Exits = {}
  BY <1>1 DEF QueueInv, Frames, Active, In, Between
<1>6. UNCHANGED <<run, codes, held, reader, chan>> /\ Exits' = Exits /\ (Reporting' <=> Reporting)
  BY <1>1 DEF childVars, Exits, Reporting
<1> HIDE DEF e
<1>7. /\ ChildInv'
      /\ \A i \in DOMAIN trail : ExitAt(i)' /\ StartAt(i)'
      /\ (trail \in Seq(Entries))' /\ (\A i \in Starts : trail[i].run \in Runs)'
      /\ Len(trail') = n + 1 /\ n \in Nat
      /\ DOMAIN trail = 1..n /\ DOMAIN trail' = 1..(n + 1)
      /\ \A i \in DOMAIN trail : trail'[i] = trail[i]
      /\ trail'[n + 1] = e
      /\ n + 1 \notin Starts'
      /\ \A i \in DOMAIN trail : i \notin SameNow'
      /\ \A i : i \in Starts' \/ i \in SameNow' => i \in DOMAIN trail \/ i = n + 1
  BY <1>0, <1>1, <1>2, Recorded
<1>8. Past'
  <2>1. ExitAt(n + 1)' /\ StartAt(n + 1)'
    BY <1>2, <1>7 DEF ExitAt, StartAt
  <2> QED  BY <1>7, <2>1 DEF Past
<1>9. QueueTypes'
  BY <1>1, <1>3, <1>7 DEF QueueInv, QueueTypes
<1>10. Frames' /\ CurrentTask'
  BY <1>1, <1>3, <1>4, <1>5, <1>6 DEF Frames, CurrentTask, In, Between
<1>11. InOrder'
  BY <1>3, <1>7 DEF InOrder
<1>12. Aborted'
  BY <1>2, <1>7 DEF QueueInv, Aborted
<1> QED  BY <1>7, <1>8, <1>9, <1>10, <1>11, <1>12 DEF QueueInv

LEMMA AbortQueueKeeps == ASSUME QueueInv, AbortQueue PROVE QueueInv'
<1> DEFINE e == Did("abort", queue.current)
<1>0. PICK n \in Nat : n = Len(trail)
  BY DEF QueueInv, QueueTypes
<1>1. /\ trail' = Append(trail, e) /\ UNCHANGED <<childVars, selectable, selected>>
      /\ pc = "Abort" /\ pc' = "Idle"
      /\ queue' = QueueExec("Completed", queue.current, <<>>, TRUE)
  BY DEF AbortQueue, Record
<1>2. queue \in Queues /\ ~held /\ Active
  BY <1>1 DEF QueueInv, QueueTypes, Frames, Active
<1>3. e \in Entries /\ e.ev = "abort"
  BY <1>2 DEF Did, Entries, Queues, QueueInv, ChildInv, ChildTypes
<1>4. queue' \in Queues /\ queue'.state = "Completed"
  <2>1. <<>> \in Seq(Tasks)
    OBVIOUS
  <2> QED  BY <1>1, <1>2, <2>1 DEF Queues, QueueExec, QueueStates
<1>5. queue' # None
  BY <1>4, QueueAssumption DEF Queues
<1>6. UNCHANGED <<run, codes, held, reader, chan>> /\ ~Reporting'
  BY <1>1 DEF AbortQueue, Joined, childVars, Reporting, Pipes
<1> HIDE DEF e
<1>7. /\ ChildInv'
      /\ \A i \in DOMAIN trail : ExitAt(i)' /\ StartAt(i)'
      /\ (trail \in Seq(Entries))' /\ (\A i \in Starts : trail[i].run \in Runs)'
      /\ Len(trail') = n + 1
      /\ DOMAIN trail = 1..n /\ DOMAIN trail' = 1..(n + 1)
      /\ \A i \in DOMAIN trail : trail'[i] = trail[i]
      /\ trail'[n + 1] = e
      /\ n + 1 \notin Starts'
  BY <1>0, <1>1, <1>3, Recorded
<1>8. Past'
  <2>1. ExitAt(n + 1)' /\ StartAt(n + 1)'
    BY <1>3, <1>7 DEF ExitAt, StartAt
  <2> QED  BY <1>7, <2>1 DEF Past
<1>9. QueueTypes'
  BY <1>1, <1>4, <1>7 DEF QueueInv, QueueTypes
<1>10. Frames' /\ CurrentTask' /\ InOrder'
  BY <1>1, <1>2, <1>4, <1>5, <1>6 DEF Frames, CurrentTask, InOrder, In, Active, Between
<1>11. Aborted'
  <2>1. \A i \in DOMAIN trail : trail[i].ev = "abort" => i < n /\ trail[i + 1].ev = "new"
    BY <1>0, <1>1, <1>7 DEF QueueInv, Aborted, Between
  <2>2. \A i \in DOMAIN trail : i < n => i + 1 \in DOMAIN trail
    BY <1>7
  <2>3. In("Completed")' /\ Between'
    BY <1>1, <1>4, <1>5 DEF In, Between
  <2> QED  BY <1>7, <2>1, <2>2, <2>3 DEF Aborted
<1> QED  BY <1>7, <1>8, <1>9, <1>10, <1>11 DEF QueueInv

\* Where the queue goes from its current task.
LEMMA Advancing ==
  ASSUME queue \in Queues, ~queue.aborted, AdvanceFrom(queue.current)
  PROVE  /\ queue' \in Queues /\ queue' # None /\ ~queue'.aborted
         /\ \/ queue'.state = "Running" /\ queue'.current = queue.current + 1 /\ pc' = "Start"
            \/ queue'.state = "Completed" /\ queue'.current = queue.current /\ pc' = "Buttons"
<1>1. queue.current \in Nat /\ queue.current + 1 \in Nat
  BY DEF Queues
<1>2. CASE queue.current < Len(queue.entries)
  <2>1. queue' = [queue EXCEPT !.state = "Running", !.current = queue.current + 1] /\ pc' = "Start"
    BY <1>2 DEF AdvanceFrom
  <2>2. queue' \in Queues
    BY <1>1, <2>1 DEF Queues, QueueStates
  <2>3. queue'.state = "Running" /\ queue'.current = queue.current + 1
        /\ queue'.aborted = queue.aborted
    BY <2>1 DEF Queues
  <2>4. queue' # None
    BY <2>2, QueueAssumption DEF Queues
  <2> QED  BY <2>1, <2>2, <2>3, <2>4
<1>3. CASE ~(queue.current < Len(queue.entries))
  <2>1. queue' = [queue EXCEPT !.state = "Completed"] /\ pc' = "Buttons"
    BY <1>3 DEF AdvanceFrom
  <2>2. queue' \in Queues
    BY <2>1 DEF Queues, QueueStates
  <2>3. queue'.state = "Completed" /\ queue'.current = queue.current
        /\ queue'.aborted = queue.aborted
    BY <2>1 DEF Queues
  <2>4. queue' # None
    BY <2>2, QueueAssumption DEF Queues
  <2> QED  BY <2>1, <2>2, <2>3, <2>4
<1> QED  BY <1>2, <1>3

LEMMA ClickResumeKeeps == ASSUME QueueInv, ClickResume PROVE QueueInv'
<1> DEFINE e == Did("resume", queue.current)
<1>0. PICK n \in Nat : n = Len(trail)
  BY DEF QueueInv, QueueTypes
<1>1. /\ trail' = Append(trail, e) /\ UNCHANGED <<childVars, selectable, selected>>
      /\ pc = "Buttons" /\ In("PausedAfterFailure") /\ AdvanceFrom(queue.current)
  BY DEF ClickResume, Record
<1>2. queue \in Queues /\ ~queue.aborted /\ ~Reporting /\ Exits = {} /\ Active
  BY <1>1 DEF QueueInv, QueueTypes, Frames, In, Between, Active
<1>3. e \in Entries /\ e.ev = "resume" /\ e.entry = queue.current /\ queue.current \in Nat
  BY <1>2 DEF Did, Entries, Queues, QueueInv, ChildInv, ChildTypes
<1>4. /\ queue' \in Queues /\ queue' # None /\ ~queue'.aborted
      /\ \/ queue'.state = "Running" /\ queue'.current = queue.current + 1 /\ pc' = "Start"
         \/ queue'.state = "Completed" /\ queue'.current = queue.current /\ pc' = "Buttons"
  BY <1>1, <1>2, Advancing
<1>5. UNCHANGED <<run, codes, held, reader, chan>> /\ ~Reporting' /\ Exits' = {}
  BY <1>1, <1>2 DEF childVars, Reporting, Exits
<1> HIDE DEF e
<1>6. /\ ChildInv'
      /\ \A i \in DOMAIN trail : ExitAt(i)' /\ StartAt(i)'
      /\ (trail \in Seq(Entries))' /\ (\A i \in Starts : trail[i].run \in Runs)'
      /\ Len(trail') = n + 1
      /\ DOMAIN trail = 1..n /\ DOMAIN trail' = 1..(n + 1)
      /\ \A i \in DOMAIN trail : trail'[i] = trail[i]
      /\ trail'[n + 1] = e
      /\ n + 1 \notin Starts'
      /\ \A i \in DOMAIN trail : i \in Starts' <=> i \in Starts
      /\ \A i \in DOMAIN trail : i \in SameNow' <=> i \in SameNow
      /\ n + 1 \in SameNow'
      /\ \A i : i \in Starts' \/ i \in SameNow' => i \in DOMAIN trail \/ i = n + 1
  BY <1>0, <1>1, <1>3, Recorded
<1>7. Past'
  <2>1. ExitAt(n + 1)' /\ StartAt(n + 1)'
    BY <1>3, <1>6 DEF ExitAt, StartAt
  <2> QED  BY <1>6, <2>1 DEF Past
<1>8. QueueTypes'
  BY <1>1, <1>4, <1>6 DEF QueueInv, QueueTypes
<1>9. Frames' /\ CurrentTask'
  BY <1>4, <1>5 DEF Frames, CurrentTask, In, Between
<1>10. InOrder'
  <2>1. \A j \in Starts' : j \in SameNow' => trail'[j].entry <= queue.current
                                              /\ trail'[j].entry \in Nat
    <3>1. \A j \in Starts' : j \in DOMAIN trail /\ j \in Starts
      BY <1>6
    <3>2. \A j \in Starts : j \in SameNow => trail[j].entry <= queue.current
      BY <1>2 DEF QueueInv, InOrder
    <3>3. \A j \in DOMAIN trail : trail[j].entry \in Nat
      <4>1. \A j \in DOMAIN trail : trail[j] \in Entries
        BY DEF QueueInv, QueueTypes
      <4> QED  BY <4>1 DEF Entries
    <3> QED  BY <1>6, <3>1, <3>2, <3>3
  <2>2. \E k \in SameNow' : k <= Len(trail') /\ trail'[k].ev = "resume"
                            /\ trail'[k].entry = (queue.current + 1) - 1
    BY <1>3, <1>6
  <2> QED  BY <1>3, <1>4, <2>1, <2>2 DEF InOrder, Active
<1>11. Aborted'
  <2>1. \A i \in DOMAIN trail : trail[i].ev = "abort" => i < n /\ trail[i + 1].ev = "new"
    BY <1>0, <1>1, <1>6 DEF QueueInv, Aborted, In
  <2>2. \A i \in DOMAIN trail : i < n => i + 1 \in DOMAIN trail
    BY <1>6
  <2> QED  BY <1>3, <1>6, <2>1, <2>2 DEF Aborted
<1> QED  BY <1>6, <1>7, <1>8, <1>9, <1>10, <1>11 DEF QueueInv

\* The next child is started, once the one before is joined.
LEMMA StartTaskKeeps == ASSUME QueueInv, StartTask PROVE QueueInv'
<1>0. PICK n \in Nat : n = Len(trail)
  BY DEF QueueInv, QueueTypes
<1>1. /\ UNCHANGED <<selectable, selected, queue, codes, chan>> /\ Spawn
      /\ pc = "Start" /\ pc' = "Idle" /\ run < MaxRuns /\ run' = run + 1 /\ held'
      /\ trail' = Append(trail, [ev |-> "start", entry |-> queue.current, run |-> run'])
  BY DEF StartTask, Spawn
<1>2. queue \in Queues /\ queue # None /\ In("Running") /\ Active /\ ~queue.aborted /\ Exits = {}
  BY <1>1 DEF QueueInv, QueueTypes, Frames, In, Active
<1>3. run' \in Runs /\ run' \in 0..MaxRuns
  BY <1>1, ChildLogAssumption DEF QueueInv, ChildInv, ChildTypes, Runs
<1>4. PICK e \in Entries : /\ trail' = Append(trail, e)
                           /\ e.ev = "start" /\ e.entry = queue.current /\ e.run = run'
  <2>1. queue.current \in Nat
    BY <1>2 DEF Queues
  <2>2. [ev |-> "start", entry |-> queue.current, run |-> run'] \in Entries
    BY <1>3, <2>1 DEF Entries
  <2> QED  BY <1>1, <2>2
<1>5. Exits' = {}
  BY <1>1, <1>2 DEF Exits
<1>6. /\ ChildInv' /\ ZerosStay
      /\ \A i \in DOMAIN trail : ExitAt(i)' /\ StartAt(i)'
      /\ (trail \in Seq(Entries))' /\ (\A i \in Starts : trail[i].run \in Runs)'
      /\ Len(trail') = n + 1
      /\ DOMAIN trail = 1..n /\ DOMAIN trail' = 1..(n + 1)
      /\ \A i \in DOMAIN trail : trail'[i] = trail[i]
      /\ trail'[n + 1] = e
      /\ n + 1 \in Starts'
      /\ \A i \in DOMAIN trail : i \in Starts' <=> i \in Starts
      /\ \A i \in DOMAIN trail : i \in SameNow' <=> i \in SameNow
      /\ n + 1 \in SameNow'
      /\ \A i : i \in Starts' \/ i \in SameNow' => i \in DOMAIN trail \/ i = n + 1
  BY <1>0, <1>1, <1>3, <1>4, Recorded
<1>7. SameNow' = SameQueue(n + 1)'
  BY <1>6 DEF SameNow
<1>8. \A j \in DOMAIN trail : j < n + 1 /\ j # n + 1
  BY <1>6
<1>9. /\ \A j \in Starts : j \in SameNow => trail[j].entry < queue.current
      /\ queue.current > 1 =>
           \/ \E j \in Starts : /\ j \in SameNow
                                /\ trail[j].entry = queue.current - 1
                                /\ codes[trail[j].run] = "Zero"
           \/ \E k \in SameNow : /\ trail[k].ev = "resume"
                                 /\ trail[k].entry = queue.current - 1
  BY <1>1, <1>2 DEF QueueInv, InOrder
<1>10. \A j : j \in Starts \/ j \in SameNow => j \in DOMAIN trail
  BY DEF Starts, SameNow, SameQueue
<1>11. Past'
  <2>1. ExitAt(n + 1)'
    BY <1>4, <1>6 DEF ExitAt
  <2>2. \A j \in Starts' : (j < n + 1 /\ j \in SameQueue(n + 1)')
                            => trail'[j].entry < trail'[n + 1].entry
    BY <1>4, <1>6, <1>7, <1>8, <1>9
  <2>3. ASSUME trail'[n + 1].entry > 1
        PROVE  \/ \E j \in Starts' : /\ j < n + 1 /\ j \in SameQueue(n + 1)'
                                     /\ trail'[j].entry = trail'[n + 1].entry - 1
                                     /\ codes'[trail'[j].run] = "Zero"
               \/ \E k \in SameQueue(n + 1)' : k < n + 1 /\ trail'[k].ev = "resume"
                                               /\ trail'[k].entry = trail'[n + 1].entry - 1
    <3>1. CASE \E j \in Starts : /\ j \in SameNow
                                 /\ trail[j].entry = queue.current - 1
                                 /\ codes[trail[j].run] = "Zero"
      BY <1>1, <1>4, <1>6, <1>7, <1>8, <1>10, <3>1
    <3>2. CASE \E k \in SameNow : /\ trail[k].ev = "resume"
                                  /\ trail[k].entry = queue.current - 1
      BY <1>4, <1>6, <1>7, <1>8, <1>10, <3>2
    <3> QED  BY <1>4, <1>6, <1>9, <2>3, <3>1, <3>2
  <2>4. StartAt(n + 1)'
    BY <2>2, <2>3 DEF StartAt
  <2> QED  BY <1>6, <2>1, <2>4 DEF Past
<1>12. QueueTypes'
  BY <1>1, <1>6 DEF QueueInv, QueueTypes
<1>13. Frames'
  BY <1>1, <1>2 DEF QueueInv, Frames, In, Active, Between
<1>14. CurrentTask'
  <2>1. \A j \in Starts' : j <= n + 1
    BY <1>6, <1>8
  <2>2. trail'[n + 1].run = run' /\ trail'[n + 1].entry = queue'.current
    BY <1>1, <1>4, <1>6
  <2> QED  BY <1>5, <1>6, <2>1, <2>2 DEF CurrentTask
<1>15. InOrder'
  <2>1. \A j \in Starts' : j \in SameNow' => trail'[j].entry <= queue.current
    <3>1. \A j \in DOMAIN trail : trail[j].entry \in Nat
      <4>1. \A j \in DOMAIN trail : trail[j] \in Entries
        BY DEF QueueInv, QueueTypes
      <4> QED  BY <4>1 DEF Entries
    <3>2. queue.current \in Nat
      BY <1>2 DEF Queues
    <3>3. ASSUME NEW j \in Starts', j \in SameNow', j \in DOMAIN trail
          PROVE  trail'[j].entry <= queue.current
      BY <1>6, <1>9, <3>1, <3>2, <3>3
    <3> QED  BY <1>4, <1>6, <3>2, <3>3
  <2> QED  BY <1>1, <2>1 DEF InOrder
<1>16. Aborted'
  <2>1. \A i \in DOMAIN trail : trail[i].ev = "abort" => i < n /\ trail[i + 1].ev = "new"
    BY <1>0, <1>1, <1>6 DEF QueueInv, Aborted, Between
  <2>2. \A i \in DOMAIN trail : i < n => i + 1 \in DOMAIN trail
    BY <1>6
  <2> QED  BY <1>4, <1>6, <2>1, <2>2 DEF Aborted
<1> QED  BY <1>6, <1>11, <1>12, <1>13, <1>14, <1>15, <1>16 DEF QueueInv

-----------------------------------------------------------------------------
(* A frame drains the channel *)

\* It finds no queue, no exit, or a queue that is not running.
LEMMA QuietDrainKeeps ==
  ASSUME QueueInv, Drain, UNCHANGED <<queue, trail>>, pc' = "Buttons",
         (queue = None /\ UNCHANGED childVars) \/ DrainChannel
  PROVE  QueueInv'
<1>1. UNCHANGED <<selectable, selected, run, codes, held, reader, lost>> /\ pc = "Idle"
  BY DEF Drain, DrainChannel, childVars
<1>2. /\ ChildInv' /\ ZerosStay /\ Past'
      /\ Starts' = Starts /\ SameNow' = SameNow
      /\ (trail \in Seq(Entries))' /\ (\A i \in Starts : trail[i].run \in Runs)'
  BY QuietPast
<1>3. Exits' = {}
  <2>1. CASE queue = None /\ UNCHANGED childVars
    BY <2>1 DEF QueueInv, Frames, childVars, Exits
  <2>2. CASE DrainChannel
    BY <2>2 DEF DrainChannel, Exits
  <2> QED  BY <2>1, <2>2
<1>4. Reporting' <=> Reporting
  BY <1>1 DEF Reporting
<1>5. QueueTypes'
  BY <1>1, <1>2 DEF QueueInv, QueueTypes
<1>6. Frames'
  BY <1>1, <1>3, <1>4 DEF QueueInv, Frames, In, Active, Between
<1>7. CurrentTask'
  BY <1>1, <1>2, <1>3 DEF QueueInv, CurrentTask, In, Between
<1>8. InOrder' /\ Aborted'
  BY <1>1, <1>2 DEF QueueInv, InOrder, Active, SameNow, Aborted, In, Between
<1> QED  BY <1>2, <1>5, <1>6, <1>7, <1>8 DEF QueueInv

\* What OnExit makes of a running queue.
LEMMA Exiting ==
  ASSUME queue \in Queues, ~queue.aborted, In("Running"), NEW code, OnExit(code)
  PROVE  /\ queue' \in Queues /\ queue' # None /\ ~queue'.aborted
         /\ \/ /\ queue'.state = "Running" /\ queue'.current = queue.current + 1
               /\ pc' = "Start" /\ code = "Zero"
            \/ queue'.state = "Completed" /\ queue'.current = queue.current /\ pc' = "Buttons"
            \/ queue'.state = "PausedAfterFailure" /\ queue'.current = queue.current /\ pc' = "Buttons"
<1>1. CASE code = "Zero"
  <2>1. AdvanceFrom(queue.current)
    BY <1>1 DEF OnExit
  <2> QED  BY <1>1, <2>1, Advancing
<1>2. CASE code # "Zero"
  <2>1. queue' = [queue EXCEPT !.state = "PausedAfterFailure"] /\ pc' = "Buttons"
    BY <1>2 DEF OnExit, Fail
  <2>2. queue' \in Queues
    BY <2>1 DEF Queues, QueueStates
  <2>3. queue'.state = "PausedAfterFailure" /\ queue'.current = queue.current
        /\ queue'.aborted = queue.aborted
    BY <2>1 DEF Queues
  <2>4. queue' # None
    BY <2>2, QueueAssumption DEF Queues
  <2> QED  BY <2>1, <2>2, <2>3, <2>4
<1> QED  BY <1>1, <1>2

\* It finds the exit of the task in hand, after which the child is quiet.
LEMMA ExitDrainKeeps ==
  ASSUME QueueInv, Drain, queue # None, In("Running"), FirstExit # None
  PROVE  QueueInv'
<1>0. PICK n \in Nat : n = Len(trail)
  BY DEF QueueInv, QueueTypes
<1>1. /\ UNCHANGED <<selectable, selected, run, codes, held, reader, lost>>
      /\ pc = "Idle" /\ DrainChannel /\ OnExit(FirstExit.code)
      /\ trail' = Append(trail, [ev |-> "exit", entry |-> queue.current, run |-> FirstExit.run])
  BY DEF Drain, DrainChannel
<1>2. queue \in Queues /\ ~queue.aborted /\ Active /\ Between
  BY <1>1 DEF QueueInv, QueueTypes, Frames, In, Active, Between
<1>3. FirstExit.run = run /\ run \in Runs /\ FirstExit.code = codes[run] /\ ~Reporting
  <2>1. ChildInv /\ Exits # {}
    BY FirstExitType DEF QueueInv
  <2>2. PICK i \in Exits : FirstExit = chan[i]
    BY <2>1, FirstExitType
  <2>3. chan[i].run = run
    BY <1>2 DEF QueueInv, CurrentTask
  <2>4. chan[i].run \in Runs /\ chan[i].code = codes[chan[i].run]
    BY <2>1, ExitEvents DEF ChildInv, ExitsAreTrue
  <2>5. ~Reporting
    BY <2>1, <2>3 DEF ChildInv, ExitsAreTrue
  <2> QED  BY <2>2, <2>3, <2>4, <2>5
<1>4. PICK e \in Entries : /\ trail' = Append(trail, e)
                           /\ e.ev = "exit" /\ e.entry = queue.current /\ e.run = run
  <2>1. queue.current \in Nat /\ run \in 0..MaxRuns
    BY <1>2 DEF Queues, QueueInv, ChildInv, ChildTypes
  <2>2. [ev |-> "exit", entry |-> queue.current, run |-> run] \in Entries
    BY <2>1 DEF Entries
  <2> QED  BY <1>1, <1>3, <2>2
<1>5. PICK m \in Starts : /\ \A j \in Starts : j <= m
                          /\ m \in SameNow
                          /\ trail[m].run = run /\ trail[m].entry = queue.current
  BY <1>2 DEF QueueInv, CurrentTask
<1>6. /\ queue' \in Queues /\ queue' # None /\ ~queue'.aborted
      /\ \/ /\ queue'.state = "Running" /\ queue'.current = queue.current + 1
            /\ pc' = "Start" /\ codes[run] = "Zero"
         \/ queue'.state = "Completed" /\ queue'.current = queue.current /\ pc' = "Buttons"
         \/ queue'.state = "PausedAfterFailure" /\ queue'.current = queue.current /\ pc' = "Buttons"
  BY <1>1, <1>2, <1>3, Exiting
<1>7. Exits' = {} /\ ~Reporting'
  BY <1>1, <1>3 DEF DrainChannel, Exits, Reporting
<1>8. /\ ChildInv' /\ ZerosStay
      /\ \A i \in DOMAIN trail : ExitAt(i)' /\ StartAt(i)'
      /\ (trail \in Seq(Entries))' /\ (\A i \in Starts : trail[i].run \in Runs)'
      /\ Len(trail') = n + 1
      /\ DOMAIN trail = 1..n /\ DOMAIN trail' = 1..(n + 1)
      /\ \A i \in DOMAIN trail : trail'[i] = trail[i]
      /\ trail'[n + 1] = e
      /\ n + 1 \notin Starts'
      /\ \A i \in DOMAIN trail : i \in Starts' <=> i \in Starts
      /\ \A i \in DOMAIN trail : i \in SameNow' <=> i \in SameNow
      /\ \A i : i \in Starts' \/ i \in SameNow' => i \in DOMAIN trail \/ i = n + 1
  BY <1>0, <1>1, <1>4, Recorded
<1>9. m \in DOMAIN trail /\ m < n + 1 /\ m \in Starts' /\ m \in SameNow' /\ trail'[m] = trail[m]
      /\ (\A j \in Starts' : j \in Starts /\ j <= m)
  BY <1>5, <1>8 DEF Starts
<1>10. Past'
  <2>1. StartAt(n + 1)'
    BY <1>8 DEF StartAt
  <2>2. ExitAt(n + 1)'
    BY <1>4, <1>5, <1>8, <1>9 DEF ExitAt
  <2> QED  BY <1>8, <2>1, <2>2 DEF Past
<1>11. QueueTypes'
  BY <1>1, <1>6, <1>8 DEF QueueInv, QueueTypes
<1>12. Frames' /\ CurrentTask'
  BY <1>6, <1>7 DEF Frames, CurrentTask, In, Active, Between
<1>13. InOrder'
  <2>1. \A j \in Starts' : j \in SameNow' => trail'[j].entry <= queue.current
                                              /\ trail'[j].entry \in Nat
    <3>1. \A j \in Starts' : j \in DOMAIN trail /\ j \in Starts
      BY <1>8
    <3>2. \A j \in Starts : j \in SameNow => trail[j].entry <= queue.current
      BY <1>2 DEF QueueInv, InOrder
    <3>3. \A j \in DOMAIN trail : trail[j].entry \in Nat
      <4>1. \A j \in DOMAIN trail : trail[j] \in Entries
        BY DEF QueueInv, QueueTypes
      <4> QED  BY <4>1 DEF Entries
    <3> QED  BY <1>8, <3>1, <3>2, <3>3
  <2>2. queue.current \in Nat
    BY <1>2 DEF Queues
  <2>3. CASE queue'.state = "Running" /\ codes[run] = "Zero" /\ queue'.current = queue.current + 1
    <3>1. trail'[m].entry = queue'.current - 1 /\ codes'[trail'[m].run] = "Zero"
      BY <1>1, <1>5, <1>9, <2>2, <2>3
    <3>2. \A j \in Starts' : j \in SameNow' => trail'[j].entry <= queue'.current
                                                /\ trail'[j].entry < queue'.current
      BY <2>1, <2>2, <2>3
    <3> QED  BY <1>9, <3>1, <3>2 DEF InOrder
  <2>4. CASE queue'.state # "Running" /\ queue'.current = queue.current /\ pc' = "Buttons"
    BY <2>1, <2>4 DEF InOrder
  <2> QED  BY <1>6, <2>3, <2>4
<1>14. Aborted'
  <2>1. \A i \in DOMAIN trail : trail[i].ev = "abort" => i < n /\ trail[i + 1].ev = "new"
    BY <1>0, <1>8 DEF QueueInv, Aborted, In
  <2>2. \A i \in DOMAIN trail : i < n => i + 1 \in DOMAIN trail
    BY <1>8
  <2> QED  BY <1>4, <1>8, <2>1, <2>2 DEF Aborted
<1> QED  BY <1>8, <1>10, <1>11, <1>12, <1>13, <1>14 DEF QueueInv

LEMMA DrainKeeps == ASSUME QueueInv, Drain PROVE QueueInv'
<1>1. CASE queue # None /\ In("Running") /\ FirstExit # None
  BY <1>1, ExitDrainKeeps
<1>2. CASE queue = None \/ ~In("Running") \/ FirstExit = None
  <2>1. UNCHANGED <<queue, trail>> /\ pc' = "Buttons"
        /\ ((queue = None /\ UNCHANGED childVars) \/ DrainChannel)
    BY <1>2 DEF Drain, OnExit, In
  <2> QED  BY <2>1, QuietDrainKeeps
<1> QED  BY <1>1, <1>2

LEMMA NextQueue == ASSUME QueueInv, Runnable, [Next]_vars PROVE QueueInv' /\ Runnable'
<1>1. (selected \in Seq(Tasks))' /\ Runnable'
  BY ChooseKeeps DEF QueueInv
<1>2. CASE Choose
  BY <1>1, <1>2, IdleKeeps DEF Choose, Toggle, ReloadDefinitions, ReloadFails
<1>3. CASE NoClick
  BY <1>1, <1>3, IdleKeeps DEF NoClick
<1>4. CASE Drain
  BY <1>1, <1>4, DrainKeeps
<1>5. CASE Click
  BY <1>1, <1>5, ClickStartKeeps, ClickResumeKeeps, ClickAbortKeeps DEF Click
<1>6. CASE Blocked
  BY <1>1, <1>6, StartTaskKeeps, StartFailsKeeps, AbortQueueKeeps DEF Blocked
<1>7. CASE Child
  BY <1>1, <1>7, ChildStepKeeps DEF Child
<1>8. CASE UNCHANGED vars
  BY <1>1, <1>8, IdleKeeps DEF vars, queueVars
<1> QED  BY <1>1, <1>2, <1>3, <1>4, <1>5, <1>6, <1>7, <1>8 DEF Next

\* The invariant of the queue and its frames, over every behaviour.
THEOREM QueueInvariant == Spec => [](QueueInv /\ Runnable)
<1>1. Init => QueueInv /\ Runnable
  BY InitQueue DEF Init, Runnable, ChecksAreRunnable, IsInjective, ToSet
<1>2. QueueInv /\ Runnable /\ [Next]_vars => (QueueInv /\ Runnable)'
  BY NextQueue
<1> QED  BY <1>1, <1>2, PTL DEF Spec

-----------------------------------------------------------------------------
(* What the invariant says of the queue *)

\* The checked tasks stay distinct and runnable through every toggle and every
\* reload of their definitions (TaskQueue::toggle, on_scenario_task_event).
THEOREM ChecksCorrect == Spec => []ChecksAreRunnable
<1>1. QueueInv /\ Runnable => ChecksAreRunnable
  BY DEF Runnable
<1> QED  BY <1>1, QueueInvariant, PTL

\* The queue moves on the exit of the task it started last, and on no other
\* (drain_task_logs and QueueExec::on_exit).
THEOREM ExitCorrect == Spec => []ExitIsOfCurrentTask
<1>1. ASSUME QueueInv PROVE ExitIsOfCurrentTask
  <2> SUFFICES ASSUME NEW i \in DOMAIN trail, trail[i].ev = "exit"
               PROVE  LET mine == {j \in Starts : j < i} IN
                        /\ mine # {}
                        /\ trail[i].run = trail[Max(mine)].run
                        /\ trail[i].entry = trail[Max(mine)].entry
    BY DEF ExitIsOfCurrentTask
  <2> DEFINE mine == {j \in Starts : j < i}
  <2>1. PICK m \in Starts : /\ m < i /\ \A j \in Starts : j < i => j <= m
                            /\ trail[i].run = trail[m].run /\ trail[i].entry = trail[m].entry
    BY <1>1 DEF QueueInv, Past, ExitAt
  <2>2. m \in mine /\ \A j \in mine : j <= m /\ j \in Nat
    BY <1>1, <2>1 DEF Starts, QueueInv, QueueTypes
  <2> HIDE DEF mine
  <2>3. Max(mine) = m
    BY <2>2 DEF Max
  <2> QED  BY <2>1, <2>2, <2>3 DEF mine
<1> QED  BY <1>1, QueueInvariant, PTL

\* A task is started in its turn, once, and for a reason: the success of the one
\* before or a resume (QueueExec::advance_from, resume_task_queue).
THEOREM OrderCorrect == Spec => []StartedInTurn
<1>1. ASSUME QueueInv PROVE StartedInTurn
  <2>1. \A i \in Starts : i \in DOMAIN trail
    BY DEF Starts
  <2>2. \A i \in Starts : StartAt(i)
    BY <1>1, <2>1 DEF QueueInv, Past
  <2> QED  BY <2>2 DEF StartedInTurn, StartAt
<1> QED  BY <1>1, QueueInvariant, PTL

\* An aborted queue has no child left and starts none (abort_task_queue).
THEOREM AbortCorrect == Spec => []AbortIsFinal
<1>1. ASSUME QueueInv PROVE AbortIsFinal
  BY <1>1 DEF QueueInv, Aborted, Frames, ChildInv, AbortIsFinal
<1> QED  BY <1>1, QueueInvariant, PTL
=============================================================================
