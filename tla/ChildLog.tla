------------------------------ MODULE ChildLog ------------------------------
(***************************************************************************)
(* A child process of the studio and the way its output and its exit reach *)
(* the user interface (childproc.rs, log_process.rs, log_buffer.rs).  Two  *)
(* threads read the pipes of the child; the one on stdout also waits for   *)
(* the exit and reports it.  Both send on one bounded channel and throw    *)
(* away what finds it full.  The interface drains the channel when it      *)
(* draws a frame, and joins the threads of a child before the next one.    *)
(*                                                                         *)
(* Runs are numbered as they are spawned.  The channel outlives a run.     *)
(***************************************************************************)
EXTENDS Integers, Sequences

CONSTANTS
  Capacity,  \* capacity of the channel
  MaxLines,  \* bound on the lines a child writes to a pipe
  MaxRuns,   \* bound on the children spawned
  None

ASSUME ChildLogAssumption ==
  /\ Capacity \in Nat \ {0}
  /\ MaxLines \in Nat
  /\ MaxRuns \in Nat \ {0}

VARIABLES
  run,     \* the run spawned last, 0 before the first
  codes,   \* run -> what ExitStatus::code gives, "Running" until it exits
  held,    \* ChildProcess.child is Some
  unread,  \* pipe -> lines the child has written or will write, still unread
  reader,  \* pipe -> where the thread that reads it is
  chan,    \* the channel
  lost     \* runs whose exit found the channel full (history)

childVars == <<run, codes, held, unread, reader, chan, lost>>

Runs == 1..MaxRuns
Pipes == {"stdout", "stderr"}

\* Some(0), Some of another code, and None: ended by a signal.
ExitCodes == {"Zero", "NonZero", "Signal"}
KillCodes == {"NonZero", "Signal"}

Line == [kind |-> "Line"]
Exit(r, c) == [kind |-> "Exit", run |-> r, code |-> c]

\* None stands for what is absent: no run, no code, no event.
ASSUME NoneAssumption ==
  /\ None \notin Runs
  /\ None \notin ExitCodes
  /\ \A r \in Runs, c \in ExitCodes : None # Exit(r, c)

Alive == run > 0 /\ codes[run] = "Running"

\* ChildProcess::is_running.
IsRunning == held /\ Alive

HasRoom == Len(chan) < Capacity

\* SyncSender::try_send, whose error every caller ignores.
TrySend(e) == IF HasRoom THEN Append(chan, e) ELSE chan

\* Slip: the threads are left alone.
JoinedNever == TRUE

\* reap_readers returns.
Joined == \A p \in Pipes : reader[p] \in {"none", "done"}

InitChild ==
  /\ run = 0
  /\ codes = [r \in Runs |-> "Running"]
  /\ held = FALSE
  /\ unread = [p \in Pipes |-> 0]
  /\ reader = [p \in Pipes |-> "none"]
  /\ chan = <<>>
  /\ lost = {}

-----------------------------------------------------------------------------
(* The reader threads *)

ReadLine(p) ==
  /\ reader[p] = "reading"
  /\ unread[p] > 0
  /\ unread' = [unread EXCEPT ![p] = @ - 1]
  /\ chan' = TrySend(Line)
  /\ UNCHANGED <<run, codes, held, reader, lost>>

\* drain_pipe ends at the end of the pipe.  wait_for_exit then polls the child.
PipeEnds(p) ==
  /\ reader[p] = "reading"
  /\ unread[p] = 0
  /\ ~Alive
  /\ reader' = [reader EXCEPT ![p] = IF p = "stdout" THEN "waiting" ELSE "done"]
  /\ UNCHANGED <<run, codes, held, unread, chan, lost>>

\* Slip: an exit without a code is not reported.
ReportExitWithCode ==
  /\ reader["stdout"] = "waiting"
  /\ reader' = [reader EXCEPT !["stdout"] = "done"]
  /\ chan' = IF codes[run] # "Signal" THEN TrySend(Exit(run, codes[run])) ELSE chan
  /\ lost' = IF HasRoom THEN lost ELSE lost \cup {run}
  /\ UNCHANGED <<run, codes, held, unread>>

ReportExit ==
  /\ reader["stdout"] = "waiting"
  /\ reader' = [reader EXCEPT !["stdout"] = "done"]
  /\ chan' = TrySend(Exit(run, codes[run]))
  /\ lost' = IF HasRoom THEN lost ELSE lost \cup {run}
  /\ UNCHANGED <<run, codes, held, unread>>

ReaderStep == (\E p \in Pipes : ReadLine(p) \/ PipeEnds(p)) \/ ReportExit

-----------------------------------------------------------------------------
(* The child *)

ProcessExits ==
  /\ Alive
  /\ \E c \in ExitCodes : codes' = [codes EXCEPT ![run] = c]
  /\ \E n \in [Pipes -> 0..MaxLines] :
       /\ \A p \in Pipes : n[p] <= unread[p]
       /\ unread' = n
  /\ UNCHANGED <<run, held, reader, chan, lost>>

\* The end of ChildProcess::start, once the old readers are joined.
Spawn ==
  /\ Joined
  /\ run < MaxRuns
  /\ run' = run + 1
  /\ held' = TRUE
  /\ unread' \in [Pipes -> 0..MaxLines]
  /\ reader' = [p \in Pipes |-> "reading"]
  /\ UNCHANGED <<codes, chan, lost>>

SpawnFails ==
  /\ Joined
  /\ reader' = [p \in Pipes |-> "none"]
  /\ UNCHANGED <<run, codes, held, unread, chan, lost>>

\* Slips: the child is let go, not killed; it is killed and not let go.
StopChildDetached ==
  /\ held
  /\ held' = FALSE
  /\ UNCHANGED <<run, codes, unread, reader, chan, lost>>

StopChildKept ==
  /\ held
  /\ IF Alive
     THEN \E c \in KillCodes : codes' = [codes EXCEPT ![run] = c]
     ELSE UNCHANGED codes
  /\ UNCHANGED <<run, held, unread, reader, chan, lost>>

\* ChildProcess::stop up to its join: a child that is still running is killed.
StopChild ==
  /\ held
  /\ held' = FALSE
  /\ IF Alive
     THEN \E c \in KillCodes : codes' = [codes EXCEPT ![run] = c]
     ELSE UNCHANGED codes
  /\ UNCHANGED <<run, unread, reader, chan, lost>>

-----------------------------------------------------------------------------
(* drain_channel_into: everything is taken and the first exit wins. *)

Exits == {i \in DOMAIN chan : chan[i].kind = "Exit"}

FirstExit ==
  IF Exits = {} THEN None
  ELSE chan[CHOOSE i \in Exits : \A j \in Exits : i <= j]

DrainChannel ==
  /\ chan' = <<>>
  /\ UNCHANGED <<run, codes, held, unread, reader, lost>>
=============================================================================
