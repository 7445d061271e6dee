------------------------ MODULE StudioAuthoringProofs -----------------------
(***************************************************************************)
(* Theorems about the authoring pages, for any number of images, steps and *)
(* regions.                                                                *)
(***************************************************************************)
EXTENDS StudioAuthoring, SequenceTheorems, TLAPS

-----------------------------------------------------------------------------
(* The invariants *)

Image == [n : Nat, by : Pages \cup {"File"}]

\* An image has a number of its own: what waits in the channel is neither shown
\* nor scored yet.
Numbered(img) == img.n <= images /\ (slot # None => img.n # slot)

ViewInv ==
  /\ mode \in Pages
  /\ images \in Nat
  /\ slot # None => slot \in Nat /\ slot <= images
  /\ shot # None => shot \in Image /\ Numbered(shot)
  /\ tex # None => tex = shot

OfFile == shot # None /\ shot.by = "File"

\* The scores at hand are of another image, and not of a file.
Stale == ~OfFile /\ (discrimination # None => discrimination.img # shot)

\* The region that was scored, when that is remembered, was scored as it would
\* be now, on some image; and a file is never taken for another image.
ScoreInv ==
  /\ discrimination # None => discrimination.img \in Image /\ Numbered(discrimination.img)
  /\ scored_roi # None =>
       /\ discrimination = Score(discrimination.img, scored_roi, engine_kind, loaded)
       /\ OfFile => discrimination.img = shot

\* An image without a texture has not been scored, and no region is offered on
\* a file before it has one.
UndrawnInv ==
  tex = None =>
    /\ discrimination # None => discrimination.img # shot
    /\ (roi # None \/ pc = "Panel") => ~OfFile

\* A region that rests was scored, but for an image that arrived since, or it
\* is about to be scored in this frame.
RestInv ==
  (roi # None /\ ~dragging) =>
    roi = scored_roi \/ Stale \/ (pc = "Canvas" /\ mode = "Authoring" /\ tex # None)

AuthoringInv == ViewInv /\ ScoreInv /\ UndrawnInv /\ RestInv /\ SavedThresholdFits

Sessions ==
  [frame : Image \cup {None}, tap : BOOLEAN, region : Image \cup {None},
   steps : Seq([img : Image, seen : Image])]

\* The frame of a session is the image the page itself has put on the screen.
FrameShown ==
  (session.frame # None /\ shot # None /\ shot.by = "LiveAuthoring") => session.frame = shot

SessionInv == session # None => session \in Sessions /\ FrameShown

DemoInv == ViewInv /\ SessionInv /\ StepIsOfShownImage

-----------------------------------------------------------------------------
(* The picture *)

\* What the start of a frame does to the picture.
LEMMA ShowFrameKeeps ==
  ASSUME ViewInv, ShowFrame, UNCHANGED <<mode, live, images>>
  PROVE  ViewInv'
<1>1. CASE FrameArrives
  <2>1. shot' = [n |-> slot, by |-> mode] /\ tex' = None /\ slot' = None
    BY <1>1 DEF ShowFrame
  <2>2. shot' \in Image /\ shot'.n <= images
    BY <1>1, <2>1 DEF FrameArrives, ViewInv, Image
  <2> QED
    BY <2>1, <2>2 DEF ViewInv, Numbered
<1>2. CASE ~FrameArrives
  BY <1>2 DEF ShowFrame, ViewInv, Numbered
<1> QED
  BY <1>1, <1>2

LEMMA ViewKeeps ==
  ASSUME ViewInv, [Next]_vars
  PROVE  ViewInv'
<1>1. CASE View
  <2>1. CASE Capture
    BY <2>1 DEF Capture, ViewInv, Numbered, Image
  <2>2. CASE BatchFrame
    BY <2>2 DEF BatchFrame, ViewInv, Numbered
  <2>3. ASSUME NEW page \in Pages, SelectMode(page) PROVE ViewInv'
    BY <2>3 DEF SelectMode, ViewInv, Numbered
  <2> QED
    BY <1>1, <2>1, <2>2, <2>3 DEF View
<1>2. CASE AuthoringStep
  <2>1. CASE BeginAuthoring
    BY <2>1, ShowFrameKeeps DEF BeginAuthoring, BeginPage
  <2>2. CASE OpenScreenshot
    <3>1. images' = images + 1 /\ shot' = [n |-> images + 1, by |-> "File"]
      BY <2>2 DEF OpenScreenshot
    <3>2. tex' = None /\ UNCHANGED <<mode, slot>>
      BY <2>2 DEF OpenScreenshot
    <3>3. shot' \in Image /\ shot'.n = images + 1
      BY <3>1 DEF ViewInv, Image
    <3>4. slot # None => slot \in Nat /\ slot <= images
      BY DEF ViewInv
    <3>5. Numbered(shot)'
      BY <3>1, <3>2, <3>3, <3>4 DEF Numbered, ViewInv
    <3> QED
      BY <3>1, <3>2, <3>3, <3>4, <3>5 DEF ViewInv
  <2>3. CASE ToggleCapture
    BY <2>3 DEF ToggleCapture, StartLive, StopLive, ViewInv, Numbered
  <2>4. CASE SameView
    BY <2>4 DEF SameView, ViewInv, Numbered
  <2>5. AuthoringStep => BeginAuthoring \/ OpenScreenshot \/ ToggleCapture \/ SameView
    BY DEF AuthoringStep, AuthoringClick, AuthoringCanvas, RunProposals, SaveTemplate,
           NoClickHere, LoadFolder, SwitchEngine, ApplyProposal, RestCanvas, SkipCanvas,
           DragRegion, EndFrame
  <2> QED
    BY <1>2, <2>1, <2>2, <2>3, <2>4, <2>5
<1>3. CASE DemoStep
  <2>1. CASE BeginDemo
    BY <2>1, ShowFrameKeeps DEF BeginDemo, BeginPage
  <2>2. CASE ToggleDemoCapture
    BY <2>2 DEF ToggleDemoCapture, StartLive, StopLive, ViewInv, Numbered
  <2>3. CASE SameView
    BY <2>3 DEF SameView, ViewInv, Numbered
  <2>4. DemoStep => BeginDemo \/ ToggleDemoCapture \/ SameView
    BY DEF DemoStep, DemoClick, DemoCanvas, StartSession, Undo, NoDemoClick, CanvasTap,
           CanvasRegion, NoGesture, EndFrame
  <2> QED
    BY <1>3, <2>1, <2>2, <2>3, <2>4
<1>4. CASE Searching \/ UNCHANGED vars
  BY <1>4 DEF Searching, ProposalsDone, vars, viewVars, ViewInv, Numbered
<1> QED
  BY <1>1, <1>2, <1>3, <1>4 DEF Next, Authoring, Demonstration

-----------------------------------------------------------------------------
(* Authoring *)

Others == <<roi, dragging, scored_roi, discrimination, engine_kind, loaded, wrote>>

LEMMA InitAuthoringInv == Init => AuthoringInv
BY DEF Init, InitView, InitAuthoring, AuthoringInv, ViewInv, ScoreInv, UndrawnInv, RestInv,
       SavedThresholdFits, Pages

\* A frame of any page begins: an image that arrives has not been scored.
LEMMA BeginKeepsScore ==
  ASSUME AuthoringInv, ShowFrame, pc = "Idle", pc' = "Panel", mode \in Pages,
         UNCHANGED <<mode, live, images>>, UNCHANGED Others
  PROVE  AuthoringInv'
<1> USE DEF AuthoringInv, Others
<1>1. ViewInv'
  BY ShowFrameKeeps
<1>2. CASE FrameArrives
  <2>1. shot' = [n |-> slot, by |-> mode] /\ tex' = None /\ slot' = None
    BY <1>2 DEF ShowFrame
  <2>2. ~OfFile'
    BY <2>1 DEF OfFile, Pages
  <2>3. discrimination # None => discrimination.img \in Image /\ discrimination.img # shot'
    BY <1>2, <2>1 DEF ScoreInv, Numbered, FrameArrives
  <2>4. ScoreInv'
    BY <2>1, <2>2 DEF ScoreInv, Numbered, Score
  <2>5. UndrawnInv' /\ RestInv'
    BY <2>2, <2>3 DEF UndrawnInv, RestInv, Stale
  <2> QED
    BY <1>1, <2>4, <2>5 DEF SavedThresholdFits, Score
<1>3. CASE ~FrameArrives
  <2>1. UNCHANGED <<shot, slot>> /\ tex' = IF tex = None THEN shot ELSE tex
    BY <1>3 DEF ShowFrame
  <2>2. ScoreInv'
    BY <2>1 DEF ScoreInv, Numbered, Score, OfFile
  <2>3. UndrawnInv'
    BY <2>1 DEF UndrawnInv, OfFile
  <2>4. RestInv'
    BY <2>1 DEF RestInv, Stale, OfFile
  <2> QED
    BY <1>1, <2>2, <2>3, <2>4 DEF SavedThresholdFits, Score
<1> QED
  BY <1>2, <1>3

\* What changes neither the image shown nor what is known of it.
LEMMA SameKeepsScore ==
  ASSUME AuthoringInv, ViewInv', pc # "Canvas" \/ mode # "Authoring",
         UNCHANGED <<images, shot, tex>>, UNCHANGED Others,
         slot' = slot \/ slot' = None,
         pc' = "Panel" => pc = "Panel"
  PROVE  AuthoringInv'
<1> USE DEF AuthoringInv, Others
<1>1. ScoreInv'
  BY DEF ScoreInv, Numbered, Score, OfFile
<1>2. UndrawnInv' /\ RestInv'
  BY DEF UndrawnInv, RestInv, Stale, OfFile
<1>3. SavedThresholdFits'
  BY DEF SavedThresholdFits, Score
<1> QED
  BY <1>1, <1>2, <1>3

LEMMA ViewKeepsScore == ASSUME AuthoringInv, View PROVE AuthoringInv'
<1> USE DEF AuthoringInv, Others
<1>1. ViewInv'
  BY ViewKeeps DEF Next
<1>2. UNCHANGED Others
  BY DEF View, authoringVars
<1>3. CASE Capture
  <2>1. UNCHANGED <<mode, shot, tex, pc>> /\ slot' = images + 1 /\ images' = images + 1
    BY <1>3 DEF Capture
  <2>2. ScoreInv'
    BY <1>2, <2>1 DEF ScoreInv, Numbered, Score, OfFile, ViewInv, Image
  <2>3. UndrawnInv' /\ RestInv'
    BY <1>2, <2>1 DEF UndrawnInv, RestInv, Stale, OfFile
  <2> QED
    BY <1>1, <1>2, <2>2, <2>3 DEF SavedThresholdFits, Score
<1>4. CASE BatchFrame
  <2>1. tex' = shot /\ UNCHANGED <<mode, slot, images, shot, pc>> /\ pc = "Idle" /\ tex = None
    BY <1>4 DEF BatchFrame
  <2>2. ScoreInv'
    BY <1>2, <2>1 DEF ScoreInv, Numbered, Score, OfFile
  <2>3. UndrawnInv' /\ RestInv'
    BY <1>2, <2>1 DEF UndrawnInv, RestInv, Stale, OfFile
  <2> QED
    BY <1>1, <1>2, <2>2, <2>3 DEF SavedThresholdFits, Score
<1>5. ASSUME NEW page \in Pages, SelectMode(page) PROVE AuthoringInv'
  BY <1>1, <1>2, <1>5, SameKeepsScore DEF SelectMode
<1> QED
  BY <1>3, <1>4, <1>5 DEF View

-----------------------------------------------------------------------------
(* The authoring page: a click, and the canvas *)

LEMMA ClickKeepsScore ==
  ASSUME AuthoringInv, AuthoringClick, UNCHANGED demoVars
  PROVE  AuthoringInv'
<1> USE DEF AuthoringInv
<1>1. ViewInv'
  BY ViewKeeps DEF Next, Authoring, AuthoringStep
<1>2. pc = "Panel" /\ mode = "Authoring" /\ pc' = "Canvas" /\ UNCHANGED mode
  BY DEF AuthoringClick, OpenScreenshot, ToggleCapture, RunProposals, SaveTemplate, NoClickHere,
         LoadFolder, SwitchEngine, ApplyProposal, ClickHere, Click, StartLive, StopLive, SameView
<1>3. CASE OpenScreenshot
  <2>1. roi' = None /\ scored_roi' = None /\ discrimination' = None /\ UNCHANGED wrote
    BY <1>3 DEF OpenScreenshot
  <2> QED
    BY <1>1, <1>2, <2>1 DEF ScoreInv, UndrawnInv, RestInv, SavedThresholdFits, Score
<1>4. CASE ToggleCapture
  BY <1>1, <1>2, <1>4, SameKeepsScore DEF ToggleCapture, StartLive, StopLive, authoringVars, Others
<1>5. CASE RunProposals \/ NoClickHere
  BY <1>1, <1>2, <1>5, SameKeepsScore DEF RunProposals, NoClickHere, SameView, SameRegion,
     SameScore, SameInputs, authoringVars, Others
\* What a click on the rest leaves of the picture.
<1>6. ASSUME SameView PROVE UNCHANGED <<slot, images, shot, tex, OfFile>>
  BY <1>6 DEF SameView, OfFile
<1>7. CASE SaveTemplate
  <2>1. /\ wrote' = [crop |-> Score(shot, roi, engine_kind, loaded), basis |-> discrimination]
        /\ UNCHANGED <<roi, dragging, scored_roi, discrimination, engine_kind, loaded>>
        /\ SameView /\ roi # None /\ shot # None /\ ~dragging
    BY <1>7 DEF SaveTemplate, SameRegion, SameScore, SameInputs, CanSave, ClickHere
  <2>2. roi = scored_roi \/ Stale
    BY <1>2, <2>1 DEF RestInv
  <2>3. wrote'.crop = Score(shot, roi, engine_kind, loaded) /\ wrote'.basis = discrimination
    BY <2>1
  <2>4. wrote'.crop.img = shot
    BY <2>3 DEF Score
  <2>5. (discrimination # None /\ discrimination.img = shot) => discrimination = wrote'.crop
    BY <2>1, <2>2, <2>3 DEF Stale, ScoreInv
  <2>6. shot.by = "File" => discrimination = wrote'.crop
    BY <2>1, <2>2, <2>3 DEF Stale, ScoreInv, OfFile
  <2>7. SavedThresholdFits'
    BY <2>3, <2>4, <2>5, <2>6 DEF SavedThresholdFits
  <2>8. ScoreInv'
    BY <1>6, <2>1 DEF ScoreInv, Numbered, Score
  <2>9. UndrawnInv' /\ RestInv'
    BY <1>2, <1>6, <2>1, <2>2 DEF UndrawnInv, RestInv, Stale
  <2> QED
    BY <1>1, <2>7, <2>8, <2>9
<1>8. ASSUME NEW side \in Sides, LoadFolder(side) PROVE AuthoringInv'
  <2>1. SameView /\ scored_roi' = None /\ UNCHANGED <<roi, dragging, discrimination, wrote>>
    BY <1>8 DEF LoadFolder, SameRegion
  <2>2. ScoreInv'
    BY <1>6, <2>1 DEF ScoreInv, Numbered
  <2>3. UndrawnInv'
    BY <1>2, <1>6, <2>1 DEF UndrawnInv
  <2>4. RestInv'
    BY <1>2, <1>6, <2>1 DEF UndrawnInv, RestInv, Stale
  <2> QED
    BY <1>1, <2>1, <2>2, <2>3, <2>4 DEF SavedThresholdFits, Score
<1>9. ASSUME NEW engine \in Engines, SwitchEngine(engine) PROVE AuthoringInv'
  <2>1. /\ SameView /\ scored_roi' = None /\ discrimination' = None
        /\ UNCHANGED <<roi, dragging, wrote>>
    BY <1>9 DEF SwitchEngine, SameRegion
  <2>2. ScoreInv' /\ UndrawnInv'
    BY <1>2, <1>6, <2>1 DEF ScoreInv, UndrawnInv
  <2>3. RestInv'
    BY <1>2, <1>6, <2>1 DEF UndrawnInv, RestInv, Stale
  <2> QED
    BY <1>1, <2>1, <2>2, <2>3 DEF SavedThresholdFits, Score
<1>10. ASSUME NEW region \in Regions, ApplyProposal(region) PROVE AuthoringInv'
  <2>1. SameView /\ scored_roi' = None /\ UNCHANGED <<discrimination, wrote>>
    BY <1>10 DEF ApplyProposal
  <2>2. ScoreInv'
    BY <1>6, <2>1 DEF ScoreInv, Numbered
  <2>3. UndrawnInv' /\ RestInv'
    BY <1>2, <1>6, <2>1 DEF UndrawnInv, RestInv, Stale
  <2> QED
    BY <1>1, <2>1, <2>2, <2>3 DEF SavedThresholdFits, Score
<1> QED
  BY <1>3, <1>4, <1>5, <1>7, <1>8, <1>9, <1>10 DEF AuthoringClick

\* When a region rests on the canvas it has been scored, on the image shown.
LEMMA CanvasKeepsScore ==
  ASSUME AuthoringInv, AuthoringCanvas, UNCHANGED demoVars
  PROVE  AuthoringInv'
<1> USE DEF AuthoringInv
<1>1. ViewInv'
  BY ViewKeeps DEF Next, Authoring, AuthoringStep
<1>2. /\ UNCHANGED <<mode, slot, images, shot, tex, engine_kind, loaded, OfFile>>
      /\ pc' = "Idle" /\ wrote' = None
  BY DEF AuthoringCanvas, RestCanvas, SkipCanvas, DragRegion, EndFrame, SameView, SameInputs,
         OfFile
<1>3. SavedThresholdFits'
  BY <1>2 DEF SavedThresholdFits
<1>4. ASSUME NEW region, DragRegion(region) PROVE AuthoringInv'
  <2>1. tex # None /\ dragging' /\ UNCHANGED <<scored_roi, discrimination>>
    BY <1>4 DEF DragRegion, Drawn, SameScore
  <2> QED
    BY <1>1, <1>2, <1>3, <2>1 DEF ScoreInv, UndrawnInv, RestInv, Numbered, Score
<1>5. CASE RestCanvas
  <2>1. tex # None /\ UNCHANGED roi
    BY <1>5 DEF RestCanvas, Drawn
  <2>2. UndrawnInv'
    BY <1>2, <2>1 DEF UndrawnInv
  <2>3. CASE roi # None /\ roi # scored_roi
    <3>1. scored_roi' = roi /\ discrimination' = Score(shot, roi, engine_kind, loaded)
      BY <1>5, <2>3 DEF RestCanvas
    <3>2. discrimination'.img = shot
      BY <3>1 DEF Score
    <3>3. shot \in Image /\ Numbered(shot)
      BY <2>1 DEF ViewInv
    <3>4. ScoreInv'
      BY <1>2, <3>1, <3>2, <3>3 DEF ScoreInv, Numbered
    <3> QED
      BY <1>1, <1>3, <2>1, <2>2, <3>1, <3>4 DEF RestInv
  <2>4. CASE ~(roi # None /\ roi # scored_roi)
    <3>1. UNCHANGED <<scored_roi, discrimination>>
      BY <1>5, <2>4 DEF RestCanvas, SameScore
    <3> QED
      BY <1>1, <1>2, <1>3, <2>1, <2>2, <2>4, <3>1 DEF ScoreInv, RestInv, Numbered, Score
  <2> QED
    BY <2>3, <2>4
<1>6. CASE SkipCanvas
  <2>1. tex = None /\ UNCHANGED <<roi, dragging, scored_roi, discrimination>>
    BY <1>6 DEF SkipCanvas, Drawn, SameRegion, SameScore
  <2>2. ScoreInv' /\ UndrawnInv'
    BY <1>2, <2>1 DEF ScoreInv, UndrawnInv, Numbered, Score
  <2>3. RestInv'
    BY <1>2, <2>1 DEF RestInv, UndrawnInv, Stale
  <2> QED
    BY <1>1, <1>3, <2>2, <2>3
<1> QED
  BY <1>4, <1>5, <1>6 DEF AuthoringCanvas

LEMMA AuthoringKeeps == ASSUME AuthoringInv, [Next]_vars PROVE AuthoringInv'
<1> USE DEF AuthoringInv
<1>1. ViewInv'
  BY ViewKeeps
<1>2. CASE Authoring
  <2>1. CASE BeginAuthoring
    BY <2>1, BeginKeepsScore DEF BeginAuthoring, BeginPage, SameRegion, SameScore, SameInputs,
       Others, ViewInv
  <2> QED
    BY <1>2, <2>1, ClickKeepsScore, CanvasKeepsScore DEF Authoring, AuthoringStep
<1>3. CASE Demonstration
  <2>1. UNCHANGED Others
    BY <1>3 DEF Demonstration, authoringVars, Others
  <2>2. CASE BeginDemo
    BY <2>1, <2>2, BeginKeepsScore DEF BeginDemo, BeginPage, ViewInv
  <2>3. CASE DemoClick
    <3>1. pc = "Panel" /\ pc' = "Canvas" /\ UNCHANGED <<mode, images, shot, tex>>
      BY <2>3 DEF DemoClick, ToggleDemoCapture, StartSession, Undo, NoDemoClick, ClickDemo,
         Click, SameView, StartLive, StopLive
    <3>2. slot' = slot \/ slot' = None
      BY <2>3 DEF DemoClick, ToggleDemoCapture, StartSession, Undo, NoDemoClick, SameView,
         StartLive, StopLive
    <3> QED
      BY <1>1, <2>1, <3>1, <3>2, SameKeepsScore
  <2>4. CASE DemoCanvas
    <3>1. /\ pc = "Canvas" /\ mode = "LiveAuthoring" /\ pc' = "Idle"
          /\ UNCHANGED <<mode, slot, images, shot, tex>>
      BY <2>4 DEF DemoCanvas, CanvasTap, CanvasRegion, NoGesture, EndFrame, SameView
    <3> QED
      BY <1>1, <2>1, <3>1, SameKeepsScore
  <2> QED
    BY <1>3, <2>2, <2>3, <2>4 DEF Demonstration, DemoStep
<1>4. CASE Searching \/ UNCHANGED vars
  <2>1. UNCHANGED <<viewVars, Others>>
    BY <1>4 DEF Searching, ProposalsDone, SameRegion, SameScore, SameInputs, vars,
       authoringVars, Others
  <2>2. ScoreInv' /\ UndrawnInv' /\ RestInv' /\ SavedThresholdFits'
    BY <2>1 DEF viewVars, Others, ScoreInv, UndrawnInv, RestInv, SavedThresholdFits, Score,
       Numbered, Stale, OfFile
  <2> QED
    BY <1>1, <2>2
<1> QED
  BY <1>2, <1>3, <1>4, ViewKeepsScore DEF Next

\* A threshold that a save writes with a template fits the crop, the engine and the
\* folders it is written with (SavedThresholdFits), for any number of images.
THEOREM ThresholdCorrect == Spec => []SavedThresholdFits
<1>1. AuthoringInv => SavedThresholdFits
  BY DEF AuthoringInv
<1> QED
  BY <1>1, InitAuthoringInv, AuthoringKeeps, PTL DEF Spec

-----------------------------------------------------------------------------
(* Demonstration *)

Kept == [img : Image, seen : Image]

LEMMA DemoKeeps == ASSUME DemoInv, [Next]_vars PROVE DemoInv'
<1> USE DEF DemoInv
<1>1. ViewInv'
  BY ViewKeeps
\* The session stays, and what its page shows stays or is replaced by another page.
<1>2. ASSUME UNCHANGED session,
             shot' = shot \/ (shot' # None => shot'.by # "LiveAuthoring")
      PROVE  DemoInv'
  BY <1>1, <1>2 DEF SessionInv, FrameShown, StepIsOfShownImage, Sessions
<1>3. CASE View
  BY <1>2, <1>3 DEF View, demoVars, Capture, BatchFrame, SelectMode
<1>4. CASE Authoring
  <2>1. UNCHANGED session
    BY <1>4 DEF Authoring, demoVars
  <2>2. CASE BeginAuthoring
    BY <1>2, <2>1, <2>2 DEF BeginAuthoring, BeginPage, ShowFrame
  <2>3. CASE OpenScreenshot
    BY <1>2, <2>1, <2>3 DEF OpenScreenshot
  <2>4. CASE shot' = shot
    BY <1>2, <2>1, <2>4
  <2>5. AuthoringStep => BeginAuthoring \/ OpenScreenshot \/ shot' = shot
    BY DEF AuthoringStep, AuthoringClick, AuthoringCanvas, RunProposals, SaveTemplate,
           NoClickHere, LoadFolder, SwitchEngine, ApplyProposal, RestCanvas, SkipCanvas,
           DragRegion, EndFrame, ToggleCapture, StartLive, StopLive, SameView
  <2> QED
    BY <1>4, <2>2, <2>3, <2>4, <2>5 DEF Authoring
<1>5. CASE Searching \/ UNCHANGED vars
  BY <1>2, <1>5 DEF Searching, ProposalsDone, viewVars, demoVars, vars
<1>6. CASE BeginDemo
  <2>1. CASE FrameArrives /\ session # None
    <3>1. session' = [session EXCEPT !.frame = shot'] /\ shot' = [n |-> slot, by |-> mode]
      BY <1>6, <2>1 DEF BeginDemo, BeginPage, ShowFrame, PushFrame
    <3>2. shot' \in Image
      BY <2>1, <3>1 DEF ViewInv, FrameArrives, Image
    <3>3. session' \in Sessions /\ session'.frame = shot' /\ session'.steps = session.steps
      BY <2>1, <3>1, <3>2 DEF SessionInv, Sessions
    <3> QED
      BY <1>1, <2>1, <3>3 DEF SessionInv, FrameShown, StepIsOfShownImage
  <2>2. CASE session = None
    BY <1>1, <1>6, <2>2 DEF BeginDemo, PushFrame, SessionInv, StepIsOfShownImage
  <2>3. CASE ~FrameArrives
    BY <1>2, <1>6, <2>3 DEF BeginDemo, BeginPage, ShowFrame, PushFrame
  <2> QED
    BY <2>1, <2>2, <2>3
<1>7. CASE DemoClick
  <2>1. UNCHANGED shot
    BY <1>7 DEF DemoClick, ToggleDemoCapture, StartSession, Undo, NoDemoClick, SameView,
       StartLive, StopLive
  <2>2. CASE UNCHANGED session
    BY <1>2, <2>1, <2>2
  <2>3. CASE StartSession
    <3>1. session' = [frame |-> None, tap |-> FALSE, region |-> None, steps |-> <<>>]
      BY <2>3 DEF StartSession
    <3>2. session' \in Sessions
      BY <3>1 DEF Sessions
    <3> QED
      BY <1>1, <3>1, <3>2 DEF SessionInv, FrameShown, StepIsOfShownImage
  <2>4. CASE Undo
    <3>1. session # None /\ session \in Sessions
      BY <2>4 DEF Undo, SessionInv
    <3>2. CASE Pending
      <4>1. session' = [session EXCEPT !.tap = FALSE, !.region = None]
        BY <2>4, <3>2 DEF Undo
      <4>2. /\ session' \in Sessions
            /\ session'.frame = session.frame /\ session'.steps = session.steps
        BY <3>1, <4>1 DEF Sessions
      <4> QED
        BY <1>1, <2>1, <3>1, <4>2 DEF SessionInv, FrameShown, StepIsOfShownImage
    <3>3. CASE ~Pending
      <4> DEFINE n == Len(session.steps) - 1
      <4>1. session' = [session EXCEPT !.steps = SubSeq(@, 1, n)] /\ session.steps # <<>>
        BY <2>4, <3>3 DEF Undo
      <4>2. session.steps \in Seq(Kept)
        BY <3>1 DEF Sessions, Kept
      <4>3. n \in Nat /\ n <= Len(session.steps)
        BY <4>1, <4>2, EmptySeq
      <4>4. /\ SubSeq(session.steps, 1, n) \in Seq(Kept)
            /\ DOMAIN SubSeq(session.steps, 1, n) \subseteq DOMAIN session.steps
            /\ \A i \in DOMAIN SubSeq(session.steps, 1, n) :
                 SubSeq(session.steps, 1, n)[i] = session.steps[i]
        BY <4>2, <4>3, SubSeqProperties
      <4>5. /\ session' \in Sessions /\ session'.frame = session.frame
            /\ session'.steps = SubSeq(session.steps, 1, n)
        BY <3>1, <4>1, <4>4 DEF Sessions, Kept
      <4> QED
        BY <1>1, <2>1, <3>1, <4>4, <4>5 DEF SessionInv, FrameShown, StepIsOfShownImage
    <3> QED
      BY <3>2, <3>3
  <2> QED
    BY <1>7, <2>2, <2>3, <2>4 DEF DemoClick, ToggleDemoCapture, NoDemoClick, demoVars
<1>8. CASE DemoCanvas
  <2>1. UNCHANGED <<shot, tex>>
    BY <1>8 DEF DemoCanvas, CanvasTap, CanvasRegion, NoGesture, EndFrame, SameView
  <2>2. CASE UNCHANGED session
    BY <1>2, <2>1, <2>2
  <2>3. ASSUME session # None, tex # None,
               \/ session' = [session EXCEPT !.tap = TRUE]
               \/ session' = [session EXCEPT !.region = tex]
        PROVE  DemoInv'
    <3>1. session \in Sessions /\ tex \in Image
      BY <2>3 DEF SessionInv, ViewInv
    <3>2. /\ session' \in Sessions
          /\ session'.frame = session.frame /\ session'.steps = session.steps
      BY <2>3, <3>1 DEF Sessions
    <3> QED
      BY <1>1, <2>1, <2>3, <3>2 DEF SessionInv, FrameShown, StepIsOfShownImage
  <2>4. ASSUME session # None, tex # None, session.frame # None, Confirm
        PROVE  DemoInv'
    <3> DEFINE new == Step(session.frame, tex)
    <3>1. session \in Sessions /\ tex \in Image /\ tex = shot /\ session.frame \in Image
      BY <2>4 DEF SessionInv, ViewInv, Sessions
    <3>2. session.steps \in Seq(Kept) /\ new \in Kept
      BY <3>1 DEF Sessions, Kept, Step
    <3>3. new.seen.by = "LiveAuthoring" => new.img = new.seen
      BY <2>4, <3>1 DEF SessionInv, FrameShown, Step
    <3>4. /\ Append(session.steps, new) \in Seq(Kept)
          /\ \A i \in DOMAIN Append(session.steps, new) :
               \/ i \in DOMAIN session.steps /\ Append(session.steps, new)[i] = session.steps[i]
               \/ Append(session.steps, new)[i] = new
      BY <3>2, AppendProperties
    <3>5. /\ session' \in Sessions /\ session'.frame = session.frame
          /\ session'.steps = Append(session.steps, new)
      <4> HIDE DEF new
      <4>1. session' = [session EXCEPT !.tap = FALSE, !.region = None,
                                       !.steps = Append(@, new)]
        BY <2>4 DEF Confirm, new
      <4> QED
        BY <3>1, <3>4, <4>1 DEF Sessions, Kept
    <3> HIDE DEF new
    <3> QED
      BY <1>1, <2>1, <2>4, <3>3, <3>4, <3>5 DEF SessionInv, FrameShown, StepIsOfShownImage
  <2>5. CASE CanvasTap
    <3>1. session # None /\ tex # None /\ \E fits \in BOOLEAN : RecordTap(fits)
      BY <2>5 DEF CanvasTap, Drawn, Outcomes
    <3> QED
      BY <2>2, <2>3, <2>4, <3>1 DEF RecordTap, TapRefused
  <2>6. CASE CanvasRegion
    <3>1. session # None /\ tex # None /\ \E fits \in BOOLEAN : RecordRegion(fits)
      BY <2>6 DEF CanvasRegion, Drawn, Outcomes
    <3>2. session.tap \in BOOLEAN
      BY <3>1 DEF SessionInv, Sessions
    <3> QED
      BY <2>2, <2>3, <2>4, <3>1, <3>2 DEF RecordRegion
  <2> QED
    BY <1>8, <2>2, <2>5, <2>6 DEF DemoCanvas, NoGesture, demoVars
<1> QED
  BY <1>3, <1>4, <1>5, <1>6, <1>7, <1>8 DEF Next, Demonstration, DemoStep

\* The template of a demonstrated step is cut from the image its user had before him
\* (StepIsOfShownImage), for any number of images and steps.
THEOREM StepCorrect == Spec => []StepIsOfShownImage
<1>1. Init => DemoInv
  BY DEF Init, InitView, InitDemo, DemoInv, ViewInv, SessionInv, StepIsOfShownImage, Pages
<1>2. DemoInv => StepIsOfShownImage
  BY DEF DemoInv
<1> QED
  BY <1>1, <1>2, DemoKeeps, PTL DEF Spec
=============================================================================
