-------------------------- MODULE Win32DeviceProofs -------------------------
(***************************************************************************)
(* Theorems about capture and input, for every desktop and however often   *)
(* it changes.                                                             *)
(***************************************************************************)
EXTENDS Win32Device, TLAPS

-----------------------------------------------------------------------------
(* The invariant.  An operation knows the window of the process it found; a *)
(* capture has the handle to itself; what it knows stays true while the     *)
(* game is there; and after a failure no handle is left.                    *)

\* The window an operation found itself is that of its process.
Found ==
  /\ op.step \in {"window", "raise", "settle", "aim", "rect", "press", "release"}
       => op.process \in Processes
  /\ op.step \in {"raise", "settle", "aim", "rect", "press", "release"}
       => op.window = WindowOf[op.process]
  /\ (op.step = "draw" /\ op.process # None) => op.window = WindowOf[op.process]

\* Which steps an operation of each kind takes.
StepsOfKind ==
  /\ op.kind = "capture" => op.step \in {"process", "window", "draw"}
  /\ op.kind = "none" => op.step = "idle"
  /\ op.step = "draw" => op.kind = "capture"

\* While the game is there the process that a capture found is it.
StillThere ==
  (op.kind = "capture" /\ op.present) =>
    /\ GamePresent(running, place)
    /\ op.process # None => op.process \in running

HandleTaken == op.kind = "capture" => cached = None

\* After a failed capture the next one has no handle but finds the window.
NoHandleAfterLoss ==
  /\ lost \in {0, 1}
  /\ lost = 1 => /\ cached = None
                 /\ op.step = "draw" => op.process # None

\* What the checks before a press have seen is still so.
AimHolds ==
  settled =>
    /\ op.step \in {"aim", "rect", "press"} => front = WindowOf[op.process]
    /\ op.step \in {"rect", "press"} => op.aim = place[op.window]

DeviceInv ==
  /\ TypeOK /\ Found /\ StepsOfKind /\ StillThere /\ HandleTaken /\ NoHandleAfterLoss
  /\ AimHolds

-----------------------------------------------------------------------------
(* The invariant is inductive. *)

LEMMA InitEstablishes == Init => DeviceInv
<1> SUFFICES ASSUME Init PROVE DeviceInv
  OBVIOUS
<1>1. TypeOK
  <2>1. op \in Operations
    BY DEF Init, Operations, Idle, Operation
  <2>2. place \in [Windows -> Places \cup {Icon, None}]
    BY DEF Init
  <2>3. changes \in 0..MaxChanges /\ running \subseteq Processes
    BY DeviceAssumption DEF Init
  <2>4. front \in Windows \cup {None} /\ cached \in GameWindows \cup {None}
    BY DEF Init, Windows
  <2>5. button \in {"up", "down"} /\ last \in {"ok", "error", "killed", None}
    BY DEF Init
  <2>6. lost \in Nat /\ settled \in BOOLEAN
    BY DEF Init
  <2> QED
    BY <2>1, <2>2, <2>3, <2>4, <2>5, <2>6 DEF TypeOK
<1>2. Found /\ StepsOfKind /\ StillThere /\ HandleTaken /\ NoHandleAfterLoss /\ AimHolds
  BY DEF Init, Idle, Operation, Found, StepsOfKind, StillThere, HandleTaken,
     NoHandleAfterLoss, AimHolds
<1> QED
  BY <1>1, <1>2 DEF DeviceInv

\* A change of the desktop: the game that a capture found is not replaced by
\* another one while it is there.
LEMMA DesktopKeeps == ASSUME DeviceInv, Desktop PROVE DeviceInv'
<1> USE DEF DeviceInv
<1>1. PICK procs, at, fore :
        /\ Changes(procs, at, fore)
        /\ procs \subseteq Processes
        /\ at \in [Windows -> Places \cup {Icon, None}]
        /\ fore \in Windows \cup {None}
        /\ \/ procs = running
           \/ \E p \in Processes \ running : procs = running \cup {p}
           \/ \E p \in running : procs = running \ {p}
  <2> USE DEF TypeOK
  <2>1. CASE GameStarts
    BY <2>1 DEF GameStarts
  <2>2. CASE WindowOpens
    BY <2>2 DEF WindowOpens, Windows, GameWindows
  <2>3. CASE GameEnds
    BY <2>3 DEF GameEnds, WithoutWindow
  <2>4. CASE WindowCloses
    BY <2>4 DEF WindowCloses, WithoutWindow
  <2>5. CASE WindowMoves
    BY <2>5 DEF WindowMoves
  <2>6. CASE WindowMinimised
    BY <2>6 DEF WindowMinimised, WithoutWindow
  <2>7. CASE FrontTaken
    BY <2>7 DEF FrontTaken
  <2> QED
    BY <2>1, <2>2, <2>3, <2>4, <2>5, <2>6, <2>7 DEF Desktop
<1>2. op' = [op EXCEPT !.present = @ /\ GamePresent(procs, at)]
  BY <1>1 DEF Changes
<1>3. /\ op'.kind = op.kind /\ op'.step = op.step /\ op'.process = op.process
      /\ op'.window = op.window /\ op'.aim = op.aim
      /\ op'.present <=> (op.present /\ GamePresent(procs, at))
      /\ op' \in Operations
  BY <1>2 DEF TypeOK, Operations
<1>4. TypeOK'
  <2>1. changes' \in 0..MaxChanges
    BY <1>1, DeviceAssumption DEF Changes, TypeOK
  <2> QED
    BY <1>1, <1>3, <2>1 DEF Changes, TypeOK
<1>5. Found' /\ StepsOfKind' /\ HandleTaken' /\ NoHandleAfterLoss' /\ AimHolds'
  BY <1>1, <1>3 DEF Changes, Found, StepsOfKind, HandleTaken, NoHandleAfterLoss, AimHolds
<1>6. StillThere'
  <2> SUFFICES ASSUME op'.kind = "capture", op'.present, op'.process # None
               PROVE  op'.process \in running'
    BY <1>1, <1>3 DEF Changes, StillThere, GamePresent
  <2>1. op.process \in running /\ GamePresent(running, place) /\ GamePresent(procs, at)
    BY <1>3 DEF StillThere
  <2> QED
    BY <1>1, <1>3, <2>1 DEF Changes, GamePresent
<1> QED
  BY <1>4, <1>5, <1>6

LEMMA FindKeeps == ASSUME DeviceInv, FindProcess \/ FindWindow PROVE DeviceInv'
<1> USE DEF DeviceInv
<1>1. CASE FindProcess
  <2>1. PICK p \in running : op' = [op EXCEPT !.step = "window", !.process = p]
    BY <1>1 DEF FindProcess, Steps
  <2>2. TypeOK'
    <3>1. op' \in Operations
      BY <2>1 DEF TypeOK, Operations
    <3> QED  BY <1>1, <3>1 DEF FindProcess, Steps, desktop, TypeOK
  <2>3. Found' /\ StepsOfKind' /\ HandleTaken' /\ NoHandleAfterLoss' /\ AimHolds'
    BY <1>1, <2>1 DEF FindProcess, Steps, desktop, TypeOK, Operations, Found, StepsOfKind,
       HandleTaken, NoHandleAfterLoss, AimHolds
  <2>4. StillThere'
    BY <1>1, <2>1 DEF FindProcess, Steps, desktop, TypeOK, Operations, StillThere, GamePresent
  <2> QED
    BY <2>2, <2>3, <2>4
<1>2. CASE FindWindow
  <2>1. op.step = "window" /\ op.process \in Processes /\ op.kind \in {"capture"} \cup Inputs
    BY <1>2 DEF FindWindow, Found, StepsOfKind, TypeOK, Operations
  <2>2. op' = [op EXCEPT !.step = IF op.kind = "capture" THEN "draw" ELSE "raise",
                         !.window = WindowOf[op.process]]
    BY <1>2 DEF FindWindow, Steps
  <2>3. TypeOK'
    <3>1. WindowOf[op.process] \in GameWindows
      BY <2>1 DEF GameWindows
    <3>2. op' \in Operations
      BY <2>2, <3>1 DEF TypeOK, Operations
    <3> QED
      BY <1>2, <3>2 DEF FindWindow, Steps, desktop, TypeOK
  <2>4. Found' /\ StepsOfKind' /\ HandleTaken' /\ NoHandleAfterLoss' /\ AimHolds'
    BY <1>2, <2>1, <2>2, DeviceAssumption DEF FindWindow, Steps, desktop, TypeOK, Operations,
       Found, StepsOfKind, HandleTaken, NoHandleAfterLoss, AimHolds
  <2>5. StillThere'
    BY <1>2, <2>2 DEF FindWindow, Steps, desktop, TypeOK, Operations, StillThere, GamePresent
  <2> QED
    BY <2>3, <2>4, <2>5
<1> QED
  BY <1>1, <1>2

\* Two captures in a row do not fail on a game that is there: the second one
\* found the window itself.
LEMMA CaptureKeeps == ASSUME DeviceInv, Capture PROVE DeviceInv'
<1> USE DEF DeviceInv
<1>1. CASE CaptureBegins
  <2>1. /\ op'.kind = "capture" /\ op'.process = None /\ op'.window = cached
        /\ op'.step = IF cached = None THEN "process" ELSE "draw"
        /\ op'.present <=> GamePresent(running, place)
        /\ op' \in Operations
    <3> DEFINE first == IF cached = None THEN "process" ELSE "draw"
    <3>1. PICK present \in BOOLEAN : present <=> GamePresent(running, place)
      BY DEF GamePresent
    <3>2. op' = [Operation("capture", first, None, cached) EXCEPT !.present = GamePresent(running, place)]
      BY <1>1 DEF CaptureBegins
    <3>3. /\ op'.kind = "capture" /\ op'.process = None /\ op'.window = cached
          /\ op'.step = first /\ (op'.present <=> GamePresent(running, place))
      BY <3>2 DEF Operation
    <3>4. op' \in Operations
      <4>1. first \in {"process", "draw"} /\ cached \in GameWindows \cup {None}
        BY DEF TypeOK
      <4>2. op'.present = GamePresent(running, place) /\ op'.present \in BOOLEAN
        BY <3>1, <3>2 DEF Operation, GamePresent
      <4> HIDE DEF first
      <4> QED  BY <3>2, <4>1, <4>2 DEF Operation, Operations
    <3> QED  BY <3>3, <3>4
  <2>2. TypeOK'
    BY <1>1, <2>1 DEF CaptureBegins, Begins, desktop, TypeOK
  <2>3. Found' /\ StepsOfKind' /\ HandleTaken' /\ NoHandleAfterLoss' /\ AimHolds'
    BY <1>1, <2>1 DEF CaptureBegins, Begins, desktop, Found, StepsOfKind, HandleTaken,
       NoHandleAfterLoss, AimHolds
  <2>4. StillThere'
    BY <1>1, <2>1 DEF CaptureBegins, Begins, desktop, StillThere, GamePresent
  <2> QED
    BY <2>2, <2>3, <2>4
<1>2. CASE CaptureSucceeds
  <2>1. op' = Idle /\ Idle \in Operations
    BY <1>2 DEF CaptureSucceeds, Idle, Operation, Operations
  <2>2. TypeOK'
    BY <1>2, <2>1 DEF CaptureSucceeds, desktop, TypeOK, Operations
  <2> QED
    BY <1>2, <2>1, <2>2 DEF CaptureSucceeds, Idle, Operation, Found, StepsOfKind, StillThere,
       HandleTaken, NoHandleAfterLoss, AimHolds
<1>3. CASE CaptureFails
  <2>1. op' = Idle /\ Idle \in Operations /\ cached = None /\ cached' = None
    BY <1>3 DEF CaptureFails, CaptureCannot, Idle, Operation, Operations, HandleTaken
  <2>2. ASSUME op.present, lost = 1 PROVE FALSE
    <3>1. PICK p \in Processes : running = {p} /\ place[WindowOf[p]] \in Places
      BY <1>3, <2>2 DEF CaptureFails, CaptureCannot, StillThere, GamePresent
    <3>2. op.process # None => op.process = p
      BY <1>3, <2>2, <3>1 DEF CaptureFails, CaptureCannot, StillThere
    <3>3. CASE op.step = "process" /\ running = {}
      BY <3>1, <3>3
    <3>4. CASE op.step = "window" /\ place[WindowOf[op.process]] = None
      BY <3>1, <3>2, <3>4, DeviceAssumption DEF Found
    <3>5. CASE op.step = "draw" /\ place[op.window] \notin Places
      BY <2>2, <3>1, <3>2, <3>5 DEF Found, NoHandleAfterLoss
    <3> QED
      BY <1>3, <3>3, <3>4, <3>5 DEF CaptureFails, CaptureCannot, NotFound
  <2>3. lost' \in {0, 1}
    BY <1>3, <2>2 DEF CaptureFails, CaptureCannot, NoHandleAfterLoss
  <2>4. TypeOK'
    BY <1>3, <2>1, <2>3 DEF CaptureFails, CaptureCannot, desktop, TypeOK
  <2> QED
    BY <1>3, <2>1, <2>3, <2>4 DEF CaptureFails, CaptureCannot, Idle, Operation, Found,
       StepsOfKind, StillThere, HandleTaken, NoHandleAfterLoss, AimHolds
<1> QED
  BY <1>1, <1>2, <1>3 DEF Capture

LEMMA InputKeeps == ASSUME DeviceInv, Input PROVE DeviceInv'
<1> USE DEF DeviceInv
<1>1. Idle \in Operations
  BY DEF Idle, Operation, Operations
<1>2. CASE InputBegins
  <2>1. PICK kind \in Inputs : op' = Operation(kind, "process", None, None)
    BY <1>2 DEF InputBegins
  <2>2. op' \in Operations
    BY <2>1 DEF Operation, Operations
  <2>3. TypeOK'
    BY <1>2, <2>2 DEF InputBegins, Begins, desktop, TypeOK
  <2>4. Found' /\ StepsOfKind' /\ StillThere' /\ HandleTaken' /\ NoHandleAfterLoss' /\ AimHolds'
    BY <1>2, <2>1 DEF InputBegins, Begins, desktop, Operation, Inputs, Found, StepsOfKind,
       StillThere, HandleTaken, NoHandleAfterLoss, AimHolds
  <2> QED
    BY <2>3, <2>4
<1>3. ASSUME op.step \in {"raise", "settle", "aim", "rect", "press", "release"}
      PROVE  /\ op.kind \in Inputs
             /\ op.process \in Processes /\ op.window = WindowOf[op.process]
             /\ op.window \in GameWindows
  <2>1. op.kind \in Inputs
    BY <1>3 DEF StepsOfKind, TypeOK, Operations
  <2> QED
    BY <1>3, <2>1 DEF Found, GameWindows
<1>4. CASE Raise
  <2>1. op' = [op EXCEPT !.step = "settle"] /\ op' \in Operations
    BY <1>4 DEF Raise, TypeOK, Operations
  <2>2. place' \in [Windows -> Places \cup {Icon, None}] /\ front' \in Windows
    BY <1>3, <1>4 DEF Raise, TypeOK, Windows
  <2>3. TypeOK'
    BY <1>4, <2>1, <2>2 DEF Raise, TypeOK
  <2>4. Found' /\ StepsOfKind' /\ StillThere' /\ HandleTaken' /\ NoHandleAfterLoss' /\ AimHolds'
    BY <1>3, <1>4, <2>1 DEF Raise, TypeOK, Operations, Inputs, Found, StepsOfKind, StillThere,
       HandleTaken, NoHandleAfterLoss, AimHolds
  <2> QED
    BY <2>3, <2>4
<1>5. CASE CheckFront
  <2>1. op' = [op EXCEPT !.step = "aim"] /\ op' \in Operations
    BY <1>5 DEF CheckFront, Steps, TypeOK, Operations
  <2>2. TypeOK'
    BY <1>5, <2>1 DEF CheckFront, Steps, desktop, TypeOK
  <2>3. Found' /\ StepsOfKind' /\ StillThere' /\ HandleTaken' /\ NoHandleAfterLoss' /\ AimHolds'
    BY <1>3, <1>5, <2>1 DEF CheckFront, Steps, desktop, InFront, TypeOK, Operations, Inputs,
       Found, StepsOfKind, StillThere, HandleTaken, NoHandleAfterLoss, AimHolds
  <2> QED
    BY <2>2, <2>3
<1>6. CASE Aim
  <2>1. place[op.window] \in Places \cup {Icon, None}
    BY <1>3, <1>6 DEF Aim, TypeOK, Windows
  <2>2. op' = [op EXCEPT !.step = "rect", !.aim = place[op.window]] /\ op' \in Operations
    BY <1>6, <2>1 DEF Aim, Steps, TypeOK, Operations
  <2>3. TypeOK'
    BY <1>6, <2>2 DEF Aim, Steps, desktop, TypeOK
  <2>4. Found' /\ StepsOfKind' /\ StillThere' /\ HandleTaken' /\ NoHandleAfterLoss' /\ AimHolds'
    BY <1>3, <1>6, <2>2 DEF Aim, Steps, desktop, TypeOK, Operations, Inputs, Found,
       StepsOfKind, StillThere, HandleTaken, NoHandleAfterLoss, AimHolds
  <2> QED
    BY <2>3, <2>4
<1>7. CASE CheckRect
  <2>1. op' = [op EXCEPT !.step = "press"] /\ op' \in Operations
    BY <1>7 DEF CheckRect, Steps, TypeOK, Operations
  <2>2. TypeOK'
    BY <1>7, <2>1 DEF CheckRect, Steps, desktop, TypeOK
  <2>3. Found' /\ StepsOfKind' /\ StillThere' /\ HandleTaken' /\ NoHandleAfterLoss' /\ AimHolds'
    BY <1>3, <1>7, <2>1 DEF CheckRect, Steps, desktop, TypeOK, Operations, Inputs, Found,
       StepsOfKind, StillThere, HandleTaken, NoHandleAfterLoss, AimHolds
  <2> QED
    BY <2>2, <2>3
<1>8. ASSUME NEW result \in {"ok", "error"}, Returns(result), button' \in {"up", "down"}
      PROVE  DeviceInv'
  <2>1. TypeOK'
    BY <1>1, <1>8 DEF Returns, desktop, TypeOK
  <2>2. Found' /\ StepsOfKind' /\ StillThere' /\ HandleTaken' /\ NoHandleAfterLoss' /\ AimHolds'
    BY <1>8 DEF Returns, desktop, Idle, Operation, Found, StepsOfKind, StillThere,
       HandleTaken, NoHandleAfterLoss, AimHolds
  <2> QED
    BY <2>1, <2>2
<1>9. ASSUME NEW down \in BOOLEAN, op.step = "press", UNCHANGED <<desktop, cached, last, lost, settled>>,
             op' = [op EXCEPT !.step = "release", !.pressed = down],
             button' \in {"up", "down"}
      PROVE  DeviceInv'
  <2>1. op' \in Operations
    BY <1>9 DEF TypeOK, Operations
  <2>2. TypeOK'
    BY <1>9, <2>1 DEF desktop, TypeOK
  <2>3. Found' /\ StepsOfKind' /\ StillThere' /\ HandleTaken' /\ NoHandleAfterLoss' /\ AimHolds'
    BY <1>3, <1>9 DEF desktop, TypeOK, Operations, Inputs, Found, StepsOfKind, StillThere,
       HandleTaken, NoHandleAfterLoss, AimHolds
  <2> QED
    BY <2>2, <2>3
<1>10. CASE InputRefused
  BY <1>8, <1>10 DEF InputRefused, TypeOK
<1>11. CASE Press
  BY <1>9, <1>11 DEF Press
<1>12. CASE PressFails
  <2>1. op.kind = "swipe" => Returns("error")
    BY <1>12 DEF PressFails
  <2>2. op.kind # "swipe" =>
          /\ op' = [op EXCEPT !.step = "release", !.pressed = op.pressed]
          /\ UNCHANGED <<desktop, cached, last, lost, settled>>
    BY <1>12 DEF PressFails, TypeOK, Operations
  <2>3. button' \in {"up", "down"} /\ op.pressed \in BOOLEAN /\ op.step = "press"
    BY <1>12 DEF PressFails, TypeOK, Operations
  <2> QED
    BY <1>8, <1>9, <2>1, <2>2, <2>3
<1>13. CASE Release
  BY <1>8, <1>13 DEF Release
<1>14. CASE ReleaseFails
  BY <1>8, <1>14 DEF ReleaseFails, TypeOK
<1> QED
  BY <1>2, <1>4, <1>5, <1>6, <1>7, <1>10, <1>11, <1>12, <1>13, <1>14 DEF Input

LEMMA KilledKeeps == ASSUME DeviceInv, Killed PROVE DeviceInv'
<1> USE DEF DeviceInv
<1>1. op' = Idle /\ Idle \in Operations
  BY DEF Killed, Idle, Operation, Operations
<1>2. last' \in {"ok", "error", "killed", None}
  BY DEF Killed, TypeOK
<1>3. TypeOK'
  BY <1>1, <1>2 DEF Killed, desktop, TypeOK
<1> QED
  BY <1>1, <1>3 DEF Killed, Idle, Operation, Found, StepsOfKind, StillThere, HandleTaken,
     NoHandleAfterLoss, AimHolds

LEMMA StutterKeeps == ASSUME DeviceInv, UNCHANGED vars PROVE DeviceInv'
BY DEF vars, desktop, DeviceInv, TypeOK, Found, StepsOfKind, StillThere, GamePresent,
   HandleTaken, NoHandleAfterLoss, AimHolds

THEOREM DeviceInvariant == Spec => []DeviceInv
<1>1. DeviceInv /\ [Next]_vars => DeviceInv'
  BY DesktopKeeps, FindKeeps, CaptureKeeps, InputKeeps, KilledKeeps, StutterKeeps DEF Next
<1> QED
  BY <1>1, InitEstablishes, PTL DEF Spec

-----------------------------------------------------------------------------

\* A stale handle costs one frame (win32_capture.rs: take_cached_hwnd takes it out,
\* and only a capture that succeeded puts it back).
THEOREM StaleHandleCorrect == Spec => []StaleHandleCostsOneFrame
<1>1. DeviceInv => StaleHandleCostsOneFrame
  BY DEF DeviceInv, NoHandleAfterLoss, StaleHandleCostsOneFrame
<1> QED
  BY <1>1, DeviceInvariant, PTL

\* A press on a desktop that has not changed since the last look lands on the
\* game (win32_input.rs: foreground_belongs_to and point_in_window_rect).
THEOREM PressCorrect == Spec => []StrayPressIsLate
<1>1. ASSUME DeviceInv, op.step = "press", settled
      PROVE  Under(op.aim) = {WindowOf[op.process]}
  <2>1. op.process \in Processes /\ op.window = WindowOf[op.process]
    BY <1>1 DEF DeviceInv, Found
  <2>2. front = WindowOf[op.process] /\ front # None /\ place[front] = op.aim
    BY <1>1, <2>1, DeviceAssumption DEF DeviceInv, AimHolds
  <2> QED
    BY <2>2 DEF Under
<1>2. DeviceInv => StrayPressIsLate
  BY <1>1 DEF StrayPressIsLate
<1> QED
  BY <1>2, DeviceInvariant, PTL

\* The button is held between two operations only when the one before it told
\* of a failure or was killed (win32_input.rs: run_action_sync).
THEOREM ButtonCorrect == Spec => []HeldButtonIsTold
<1> DEFINE Told == (op.kind \notin Inputs /\ button = "down") => last \in {"error", "killed"}
<1>1. Init => Told
  BY DEF Init, Told
<1>2. ASSUME DeviceInv, Told, [Next]_vars PROVE Told'
  <2> USE <1>2
  <2>1. CASE Desktop
    <3>1. op'.kind = op.kind /\ button' = button /\ last' = last
      BY <2>1 DEF Desktop, GameStarts, WindowOpens, GameEnds, WindowCloses, WindowMoves,
         WindowMinimised, FrontTaken, Changes, DeviceInv, TypeOK, Operations
    <3> QED
      BY <3>1
  <2>2. CASE FindProcess \/ FindWindow
    <3>1. op'.kind = op.kind /\ button' = button /\ last' = last
      BY <2>2 DEF FindProcess, FindWindow, Steps, DeviceInv, TypeOK, Operations
    <3> QED
      BY <3>1
  <2>3. CASE Capture
    BY <2>3 DEF Capture, CaptureBegins, CaptureSucceeds, CaptureFails, CaptureCannot, Begins,
       Idle, Operation, Inputs
  <2>4. CASE InputBegins
    BY <2>4 DEF InputBegins, Operation
  <2>5. CASE Raise \/ CheckFront \/ Aim \/ CheckRect \/ Press \/ PressFails \/ InputRefused
             \/ Release \/ ReleaseFails
    <3>1. op.kind \in Inputs
      BY <2>5 DEF Raise, CheckFront, Aim, CheckRect, Press, PressFails, InputRefused, Release,
         ReleaseFails, DeviceInv, StepsOfKind, TypeOK, Operations
    <3>2. CASE Raise \/ CheckFront \/ Aim \/ CheckRect \/ Press
      BY <3>1, <3>2 DEF Raise, CheckFront, Aim, CheckRect, Press, Steps, DeviceInv, TypeOK,
         Operations
    <3>3. CASE PressFails
      BY <3>1, <3>3 DEF PressFails, Returns, DeviceInv, TypeOK, Operations
    <3>4. CASE InputRefused \/ Release \/ ReleaseFails
      BY <3>4 DEF InputRefused, Release, ReleaseFails, Returns
    <3> QED
      BY <2>5, <3>2, <3>3, <3>4
  <2>6. CASE Killed
    BY <2>6 DEF Killed, Idle, Operation, Inputs
  <2>7. CASE UNCHANGED vars
    BY <2>7 DEF vars
  <2> QED
    BY <2>1, <2>2, <2>3, <2>4, <2>5, <2>6, <2>7 DEF Next, Input
<1>3. Told => HeldButtonIsTold
  BY DEF HeldButtonIsTold, Idle, Operation, Inputs
<1> QED
  BY <1>1, <1>2, <1>3, DeviceInvariant, PTL DEF Spec
=============================================================================
