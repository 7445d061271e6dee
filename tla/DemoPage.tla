------------------------------ MODULE DemoPage ------------------------------
(***************************************************************************)
(* The demonstration page (app_ui_live.rs, authoring_ui.rs,                *)
(* authoring_session.rs): the user plays on the live picture.  A click     *)
(* records a tap and may be passed on to the game, a drag records a        *)
(* region, and the two together make a step whose template is the crop of  *)
(* the session's frame.                                                    *)
(*                                                                         *)
(* A region is the image it was drawn on: it lies in that one, and may     *)
(* miss another, which need not have the same size.                        *)
(***************************************************************************)
EXTENDS LiveView

CONSTANT MaxSteps  \* bound on the steps of the session

VARIABLE
  session  \* AuthoringPanel.session, or None

demoVars == <<session>>

\* A step: the image its template is cut from, and the one the user had before
\* him when the gesture that completed it was made.
Step(img, seen) == [img |-> img, seen |-> seen]

InitDemo == session = None

-----------------------------------------------------------------------------
(* The start of a frame *)

\* Slip: a session keeps the first frame it was given.
PushFirstFrame ==
  session' = IF FrameArrives /\ session # None /\ session.frame = None
             THEN [session EXCEPT !.frame = shot'] ELSE session

\* AuthoringPanel::push_frame: what this page takes from the capture, and only
\* that, becomes the frame of a session that has begun.
PushFrame ==
  session' = IF FrameArrives /\ session # None THEN [session EXCEPT !.frame = shot'] ELSE session

BeginDemo ==
  /\ BeginPage("LiveAuthoring")
  /\ PushFrame

-----------------------------------------------------------------------------
(* The panel *)

ClickDemo == Click("LiveAuthoring")

ToggleDemoCapture ==
  /\ ClickDemo
  /\ StartLive \/ StopLive
  /\ UNCHANGED demoVars

StartSession ==
  /\ ClickDemo /\ session = None
  /\ session' = [frame |-> None, tap |-> FALSE, region |-> None, steps |-> <<>>]
  /\ SameView

Pending == session.tap \/ session.region # None

\* AuthoringSession::undo: the pending gesture, or else the last step.
Undo ==
  /\ ClickDemo
  /\ session # None
  /\ \/ /\ Pending
        /\ session' = [session EXCEPT !.tap = FALSE, !.region = None]
     \/ /\ ~Pending /\ session.steps # <<>>
        /\ session' = [session EXCEPT !.steps = SubSeq(@, 1, Len(@) - 1)]
  /\ SameView

NoDemoClick ==
  /\ ClickDemo
  /\ SameView
  /\ UNCHANGED demoVars

-----------------------------------------------------------------------------
(* The canvas *)

\* A region clamps to the session's frame unless it lies outside of it, which
\* takes a frame other than the image it was drawn on.
Outcomes(region) == IF session.frame = region THEN {TRUE} ELSE BOOLEAN

\* try_confirm, with both gestures made.
Confirm ==
  session' = [session EXCEPT !.tap = FALSE, !.region = None,
                             !.steps = Append(@, Step(session.frame, tex))]

\* record_tap gives the tap up again when the step cannot be made.
TapRefused(fits) == session.region # None /\ (session.frame = None \/ ~fits)

RecordTap(fits) ==
  IF TapRefused(fits) THEN UNCHANGED session
  ELSE IF session.region = None THEN session' = [session EXCEPT !.tap = TRUE]
  ELSE Len(session.steps) < MaxSteps /\ Confirm

\* canvas_tap.  A tap that was recorded may be passed on to the game: what comes
\* of that is in the frames captured later.
CanvasTap ==
  /\ EndFrame("LiveAuthoring") /\ Drawn
  /\ session # None
  /\ \E fits \in Outcomes(session.region) : RecordTap(fits)

\* record_region: refused when it misses the frame, given up again when the
\* step cannot be made.
RecordRegion(fits) ==
  IF (session.frame # None /\ ~fits) \/ (session.tap /\ session.frame = None)
  THEN UNCHANGED session
  ELSE IF ~session.tap THEN session' = [session EXCEPT !.region = tex]
  ELSE Len(session.steps) < MaxSteps /\ Confirm

CanvasRegion ==
  /\ EndFrame("LiveAuthoring") /\ Drawn
  /\ session # None
  /\ \E fits \in Outcomes(tex) : RecordRegion(fits)

\* No gesture, one before the session, or no canvas to make it on.
NoGesture ==
  /\ EndFrame("LiveAuthoring")
  /\ UNCHANGED demoVars

DemoClick == ToggleDemoCapture \/ StartSession \/ Undo \/ NoDemoClick
DemoCanvas == CanvasTap \/ CanvasRegion \/ NoGesture
DemoStep == BeginDemo \/ DemoClick \/ DemoCanvas
=============================================================================
