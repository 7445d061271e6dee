----------------------------- MODULE Win32Device ----------------------------
(***************************************************************************)
(* Capture and input on Windows (win32_capture.rs, win32_input.rs), the    *)
(* way the driver and the studio use them: one operation after the other,  *)
(* on a desktop that changes under each of their system calls.  The game   *)
(* may be restarted, so that two of its processes exist for a while, its   *)
(* window be moved, minimised or covered, and the program itself be killed *)
(* in the middle of an operation.                                          *)
(*                                                                         *)
(* A window is a handle, which is not used again.  Where it stands is one  *)
(* of Places, which do not overlap, or the place of a minimised window.    *)
(* Only the default method of input is used, SendInput.                    *)
(***************************************************************************)
EXTENDS Integers

CONSTANTS
  None,
  Processes,   \* processes of the game, one after the other
  WindowOf,    \* process -> its window
  Foreign,     \* the windows of other programs
  Places,      \* where windows can stand
  Icon,        \* where a minimised one does
  MaxChanges   \* bound of the changes of the desktop

ASSUME DeviceAssumption ==
  /\ \A p, q \in Processes : WindowOf[p] = WindowOf[q] => p = q
  /\ \A p \in Processes : WindowOf[p] \notin Foreign \cup {None}
  /\ Icon \notin Places \cup {None}
  /\ None \notin Places \cup Processes \cup Foreign
  /\ MaxChanges \in Nat

VARIABLES
  running,  \* the processes of the game
  place,    \* where each window stands, or None when there is none
  front,    \* the foreground window, or None
  button,   \* whether the left button is held down
  changes,  \* how often the desktop has changed
  cached,   \* Win32Capture.cached_hwnd
  op,       \* the operation under way
  last,     \* what the last input returned
  lost,     \* captures that failed in a row though the game was there (history)
  settled   \* whether the desktop is as the last check of an input saw it (history)

desktop == <<running, place, front, changes>>
vars == <<desktop, button, cached, op, last, lost, settled>>

GameWindows == {WindowOf[p] : p \in Processes}
Windows == GameWindows \cup Foreign

\* kind: capture, click or swipe; step: the system call it is at; then the
\* process and the window it found, the place it aims at, and whether the button
\* went down.  present: for a capture, whether the game was there all along.
Operation(kind, step, process, window) ==
  [kind |-> kind, step |-> step, process |-> process, window |-> window,
   aim |-> None, pressed |-> FALSE, present |-> FALSE]

Idle == Operation("none", "idle", None, None)

Inputs == {"click", "swipe"}

\* One process of the game, with a window that has an area.
GamePresent(procs, at) ==
  \E p \in Processes : procs = {p} /\ at[WindowOf[p]] \in Places

Init ==
  /\ \E p \in Processes : running \in {{}, {p}}
  /\ place \in {[w \in Windows |-> IF w \in {WindowOf[p] : p \in running} THEN at
                                   ELSE IF w \in Foreign THEN there ELSE None] :
                  at \in Places \cup {None}, there \in Places}
  /\ front \in {None} \cup Foreign
  /\ button = "up"
  /\ changes = 0
  /\ cached = None
  /\ op = Idle
  /\ last = None
  /\ lost = 0
  /\ settled = FALSE

-----------------------------------------------------------------------------
(* The desktop *)

Changes(procs, at, fore) ==
  /\ changes < MaxChanges
  /\ changes' = changes + 1
  /\ running' = procs /\ place' = at /\ front' = fore
  /\ op' = [op EXCEPT !.present = @ /\ GamePresent(procs, at)]
  /\ settled' = FALSE
  /\ UNCHANGED <<button, cached, last, lost>>

GameStarts ==
  \E p \in Processes \ running :
    /\ place[WindowOf[p]] = None
    /\ Changes(running \cup {p}, place, front)

WindowOpens ==
  \E p \in running, at \in Places :
    /\ place[WindowOf[p]] = None
    /\ Changes(running, [place EXCEPT ![WindowOf[p]] = at], WindowOf[p])

WithoutWindow(w) == IF front = w THEN None ELSE front

GameEnds ==
  \E p \in running :
    Changes(running \ {p}, [place EXCEPT ![WindowOf[p]] = None], WithoutWindow(WindowOf[p]))

\* A process that is on its way out has no window any more.
WindowCloses ==
  \E p \in running :
    /\ place[WindowOf[p]] # None
    /\ Changes(running, [place EXCEPT ![WindowOf[p]] = None], WithoutWindow(WindowOf[p]))

WindowMoves ==
  \E w \in Windows, at \in Places :
    /\ place[w] \notin {None, at}
    /\ Changes(running, [place EXCEPT ![w] = at], front)

WindowMinimised ==
  \E w \in Windows :
    /\ place[w] \in Places
    /\ Changes(running, [place EXCEPT ![w] = Icon], WithoutWindow(w))

FrontTaken ==
  \E w \in Windows :
    /\ place[w] \in Places /\ w # front
    /\ Changes(running, place, w)

Desktop ==
  \/ GameStarts \/ WindowOpens \/ GameEnds \/ WindowCloses
  \/ WindowMoves \/ WindowMinimised \/ FrontTaken

-----------------------------------------------------------------------------
(* Finding the window of the game *)

Begins == UNCHANGED <<desktop, button, last, lost, settled>>
Steps(next) == op' = next /\ UNCHANGED <<desktop, button, last, lost>>

\* find_pid_by_name: some process of that name.  A capture looks for one only
\* without a cached handle.
FindProcess ==
  /\ op.step = "process"
  /\ \E p \in running : Steps([op EXCEPT !.step = "window", !.process = p])
  /\ UNCHANGED <<cached, settled>>

\* find_visible_hwnd_for_pid, find_main_window.  A minimised window is visible.
FindWindow ==
  /\ op.step = "window"
  /\ place[WindowOf[op.process]] # None
  /\ Steps([op EXCEPT !.step = IF op.kind = "capture" THEN "draw" ELSE "raise",
                      !.window = WindowOf[op.process]])
  /\ UNCHANGED <<cached, settled>>

NotFound ==
  \/ op.step = "process" /\ running = {}
  \/ op.step = "window" /\ place[WindowOf[op.process]] = None

-----------------------------------------------------------------------------
(* Capture *)

\* take_cached_hwnd: the handle is taken out for as long as it is in use.
CaptureBegins ==
  /\ op = Idle
  /\ op' = [Operation("capture", IF cached = None THEN "process" ELSE "draw", None, cached)
              EXCEPT !.present = GamePresent(running, place)]
  /\ cached' = None
  /\ Begins

\* client_size and capture_via_printwindow: a window without area, or none.
CaptureSucceeds ==
  /\ op.kind = "capture" /\ op.step = "draw"
  /\ place[op.window] \in Places
  /\ cached' = op.window
  /\ lost' = 0
  /\ op' = Idle
  /\ UNCHANGED <<desktop, button, last, settled>>

CaptureCannot ==
  /\ op.kind = "capture"
  /\ NotFound \/ (op.step = "draw" /\ place[op.window] \notin Places)
  /\ lost' = IF op.present THEN lost + 1 ELSE 0
  /\ op' = Idle
  /\ UNCHANGED <<desktop, button, last, settled>>

\* Slip: the handle is put back whatever came of it.
CaptureFailsKeepingHandle == CaptureCannot /\ cached' = op.window

\* The handle of a capture that failed is forgotten.
CaptureFails == CaptureCannot /\ UNCHANGED cached

-----------------------------------------------------------------------------
(* Input *)

InputBegins ==
  /\ op = Idle
  /\ \E kind \in Inputs : op' = Operation(kind, "process", None, None)
  /\ UNCHANGED cached
  /\ Begins

Returns(result) ==
  /\ op' = Idle
  /\ last' = result
  /\ UNCHANGED <<desktop, cached, lost, settled>>

\* bring_to_foreground restores a minimised window.  Windows may refuse.
Raise ==
  /\ op.step = "raise"
  /\ place[op.window] # None
  /\ \E at \in (IF place[op.window] = Icon THEN Places ELSE {place[op.window]}) :
       place' = [place EXCEPT ![op.window] = at]
  /\ front' = op.window
  /\ op' = [op EXCEPT !.step = "settle"]
  /\ UNCHANGED <<running, changes, button, cached, last, lost, settled>>

\* Slip: what is in front after the wait is not looked at again.
CheckFrontUnseen ==
  /\ op.step = "settle"
  /\ Steps([op EXCEPT !.step = "aim"])
  /\ settled' = TRUE
  /\ UNCHANGED cached

InFront(process) == front # None /\ front = WindowOf[process]

\* After FOREGROUND_SETTLE_MS: foreground_belongs_to.
CheckFront ==
  /\ op.step = "settle"
  /\ InFront(op.process)
  /\ Steps([op EXCEPT !.step = "aim"])
  /\ settled' = TRUE
  /\ UNCHANGED cached

\* client_to_screen_abs: a window that is gone gives the corner of the screen.
Aim ==
  /\ op.step = "aim"
  /\ Steps([op EXCEPT !.step = "rect", !.aim = place[op.window]])
  /\ UNCHANGED <<cached, settled>>

\* point_in_window_rect.
CheckRect ==
  /\ op.step = "rect"
  /\ op.aim # None /\ place[op.window] = op.aim
  /\ Steps([op EXCEPT !.step = "press"])
  /\ UNCHANGED <<cached, settled>>

\* The point may be outside of the area that a minimised window leaves.
Refused ==
  \/ NotFound
  \/ op.step = "raise"
  \/ op.step = "settle" /\ ~InFront(op.process)
  \/ op.step = "rect" /\ (op.aim \in {None, Icon} \/ place[op.window] # op.aim)

InputRefused ==
  /\ op.kind \in Inputs
  /\ Refused
  /\ Returns("error")
  /\ UNCHANGED button

\* Where a press lands: on the foreground window when it stands there.
Under(at) ==
  IF front # None /\ place[front] = at THEN {front}
  ELSE {None} \cup {w \in Windows : at = Icon \/ place[w] = at}

Press ==
  /\ op.step = "press"
  /\ button' = "down"
  /\ op' = [op EXCEPT !.step = "release", !.pressed = TRUE]
  /\ UNCHANGED <<desktop, cached, last, lost, settled>>

\* SendInput refuses it: a swipe gives up, a click goes on to the release.
PressFails ==
  /\ op.step = "press"
  /\ IF op.kind = "swipe" THEN Returns("error")
     ELSE /\ op' = [op EXCEPT !.step = "release"]
          /\ UNCHANGED <<desktop, cached, last, lost, settled>>
  /\ UNCHANGED button

\* After the hold, or the moves of the swipe.
Release ==
  /\ op.step = "release"
  /\ button' = "up"
  /\ Returns(IF op.pressed THEN "ok" ELSE "error")

\* Slip: a click that pressed has succeeded.
ReleaseFailsUnnoticed ==
  /\ op.step = "release"
  /\ Returns(IF op.pressed THEN "ok" ELSE "error")
  /\ UNCHANGED button

ReleaseFails ==
  /\ op.step = "release"
  /\ Returns("error")
  /\ UNCHANGED button

\* The program is killed, as the studio kills a run, and started again.
Killed ==
  /\ op # Idle
  /\ op' = Idle
  /\ cached' = None
  /\ last' = IF op.kind \in Inputs THEN "killed" ELSE last
  /\ lost' = 0
  /\ UNCHANGED <<desktop, button, settled>>

-----------------------------------------------------------------------------

Capture == CaptureBegins \/ CaptureSucceeds \/ CaptureFails

Input ==
  \/ InputBegins \/ Raise \/ CheckFront \/ Aim \/ CheckRect \/ InputRefused
  \/ Press \/ PressFails \/ Release \/ ReleaseFails

Next == Desktop \/ FindProcess \/ FindWindow \/ Capture \/ Input \/ Killed

Spec == Init /\ [][Next]_vars

-----------------------------------------------------------------------------
Operations ==
  [kind : {"none", "capture"} \cup Inputs,
   step : {"idle", "process", "window", "draw", "raise", "settle", "aim", "rect",
           "press", "release"},
   process : Processes \cup {None}, window : GameWindows \cup {None},
   aim : Places \cup {Icon, None}, pressed : BOOLEAN, present : BOOLEAN]

\* The values the variables can hold.
TypeOK ==
  /\ running \subseteq Processes
  /\ place \in [Windows -> Places \cup {Icon, None}]
  /\ front \in Windows \cup {None}
  /\ button \in {"up", "down"}
  /\ changes \in 0..MaxChanges
  /\ cached \in GameWindows \cup {None}
  /\ op \in Operations
  /\ last \in {"ok", "error", "killed", None}
  /\ lost \in Nat
  /\ settled \in BOOLEAN

-----------------------------------------------------------------------------
(* Properties *)

\* A handle kept from the game before a restart costs one frame: while the game
\* is there, with one process and a window with an area, no two captures in a
\* row fail.
StaleHandleCostsOneFrame == lost <= 1

\* win32_input.rs: a foreground taken by another window stops the injection, so
\* that a wrong window is not clicked.  What is left is the time after the last
\* look: on a desktop that has not changed since, a press lands on the game.
StrayPressIsLate ==
  (op.step = "press" /\ settled) => Under(op.aim) = {WindowOf[op.process]}

\* No operation leaves the button held down without telling: only a failure
\* that was returned, or a kill, does.
HeldButtonIsTold ==
  (op = Idle /\ button = "down") => last \in {"error", "killed"}
=============================================================================
