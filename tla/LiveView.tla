------------------------------ MODULE LiveView ------------------------------
(***************************************************************************)
(* The picture the studio's tool pages share (source.rs, app_ui_body.rs):  *)
(* one screenshot, its texture, and a live capture whose thread offers     *)
(* frames through a channel of one place.                                  *)
(*                                                                         *)
(* The interface is one thread.  A frame of it uploads the texture, takes  *)
(* what the page's receivers hold, offers the panel and then the canvas;   *)
(* only the capture thread runs in between.                                *)
(***************************************************************************)
EXTENDS Integers, Sequences

CONSTANTS
  None,
  MaxImages  \* bound on the images captured or opened

VARIABLES
  mode,    \* StudioApp.mode
  live,    \* StudioApp.live is Some
  slot,    \* number of the captured frame in the channel, or None
  images,  \* images made so far: each one is a picture of its own (history)
  shot,    \* StudioApp.screenshot, with the page or file that put it there, or None
  tex,     \* the image StudioApp.screenshot_tex shows, or None
  pc       \* where the frame is: Idle, Panel or Canvas

viewVars == <<mode, live, slot, images, shot, tex, pc>>

Pages == {"Authoring", "LiveAuthoring", "Batch"}

InitView ==
  /\ mode = "Authoring"
  /\ live = FALSE
  /\ slot = None
  /\ images = 0
  /\ shot = None
  /\ tex = None
  /\ pc = "Idle"

\* The capture thread: try_send drops the frame while the last one is there.
Capture ==
  /\ live /\ slot = None /\ images < MaxImages
  /\ slot' = images + 1
  /\ images' = images + 1
  /\ UNCHANGED <<mode, live, shot, tex, pc>>

SelectMode(page) ==
  /\ pc = "Idle" /\ page # mode
  /\ mode' = page
  /\ UNCHANGED <<live, slot, images, shot, tex, pc>>

-----------------------------------------------------------------------------
(* The start of a frame *)

FrameArrives == live /\ slot # None

\* render_body's upload, then LiveCapture::latest: a frame that arrives takes
\* the place of the screenshot and leaves it without texture until the next.
ShowFrame ==
  IF FrameArrives
  THEN /\ shot' = [n |-> slot, by |-> mode]
       /\ tex' = None
       /\ slot' = None
  ELSE /\ tex' = IF tex = None THEN shot ELSE tex
       /\ UNCHANGED <<shot, slot>>

BeginPage(page) ==
  /\ pc = "Idle" /\ mode = page
  /\ ShowFrame
  /\ pc' = "Panel"
  /\ UNCHANGED <<mode, live, images>>

\* A frame of the batch page takes nothing from the capture.
BatchFrame ==
  /\ pc = "Idle" /\ mode = "Batch" /\ tex = None
  /\ tex' = shot
  /\ UNCHANGED <<mode, live, slot, images, shot, pc>>

-----------------------------------------------------------------------------
(* The panel of a page: one click in a frame, and then the canvas *)

Click(page) == pc = "Panel" /\ mode = page /\ pc' = "Canvas"

StartLive ==
  /\ ~live
  /\ live' = TRUE
  /\ UNCHANGED <<mode, slot, images, shot, tex>>

\* Dropping the LiveCapture: its thread stops and its channel is gone.
StopLive ==
  /\ live
  /\ live' = FALSE
  /\ slot' = None
  /\ UNCHANGED <<mode, images, shot, tex>>

SameView == UNCHANGED <<mode, live, slot, images, shot, tex>>

\* The canvas is drawn only when the texture is there.
Drawn == tex # None

EndFrame(page) ==
  /\ pc = "Canvas" /\ mode = page
  /\ pc' = "Idle"
  /\ SameView
=============================================================================
