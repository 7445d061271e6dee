---------------------------- MODULE AuthoringPage ---------------------------
(***************************************************************************)
(* The authoring page (app_ui_authoring.rs, app.rs): the user drags a      *)
(* region on the screenshot, the canvas scores it against the folders of   *)
(* positives and negatives, and a save writes the crop of the region with  *)
(* a threshold that comes from those scores.  Proposals of regions are     *)
(* computed in a thread.                                                   *)
(*                                                                         *)
(* A score is what it was computed from: the image, the region, the engine *)
(* and the folders.                                                        *)
(***************************************************************************)
EXTENDS LiveView

CONSTANTS
  Regions,  \* regions the user can drag
  Engines,  \* EngineKind
  Sides     \* the folders that can be loaded: positives, negatives

VARIABLES
  roi,             \* RoiEdit::rect, or None
  dragging,        \* RoiEdit.dragging
  scored_roi,
  discrimination,  \* a score, or None
  engine_kind,
  loaded,          \* folders loaded since the start
  proposals,       \* StudioApp.proposals is not empty
  proposal_rx,     \* None, or what the receiver of a search would find
  proposing,
  wrote            \* what this frame saved, or None

authoringVars == <<roi, dragging, scored_roi, discrimination, engine_kind, loaded,
                   proposals, proposal_rx, proposing, wrote>>

Score(img, region, engine, folders) ==
  [img |-> img, roi |-> region, engine |-> engine, loaded |-> folders]

InitAuthoring ==
  /\ roi = None
  /\ dragging = FALSE
  /\ scored_roi = None
  /\ discrimination = None
  /\ engine_kind \in Engines
  /\ loaded = {}
  /\ proposals = FALSE
  /\ proposal_rx = None
  /\ proposing = FALSE
  /\ wrote = None

SameRegion == UNCHANGED <<roi, dragging>>
SameScore == UNCHANGED <<scored_roi, discrimination>>
SameInputs == UNCHANGED <<engine_kind, loaded>>
SameProposals == UNCHANGED <<proposals, proposal_rx, proposing>>

-----------------------------------------------------------------------------
(* The start of a frame *)

\* The thread of run_proposals ends: its result waits for a frame of the page.
ProposalsDone ==
  /\ proposal_rx = "Nothing"
  /\ proposal_rx' = "Result"
  /\ SameRegion /\ SameScore /\ SameInputs
  /\ UNCHANGED <<viewVars, proposals, proposing, wrote>>

ReceiveProposals ==
  IF proposing /\ proposal_rx = "Result"
  THEN /\ proposals' \in BOOLEAN
       /\ proposal_rx' = None
       /\ proposing' = FALSE
  ELSE SameProposals

BeginAuthoring ==
  /\ BeginPage("Authoring")
  /\ ReceiveProposals
  /\ SameRegion /\ SameScore /\ SameInputs
  /\ UNCHANGED wrote

-----------------------------------------------------------------------------
(* The panel.  The pointer is on a button, so it does not drag. *)

ClickHere == Click("Authoring") /\ ~dragging

\* Slip: an old search is given up with the old screenshot.
OpenScreenshotGivingUp ==
  /\ ClickHere /\ images < MaxImages
  /\ images' = images + 1
  /\ shot' = [n |-> images + 1, by |-> "File"]
  /\ tex' = None
  /\ roi' = None /\ dragging' = FALSE
  /\ scored_roi' = None /\ discrimination' = None
  /\ proposals' = FALSE /\ proposal_rx' = None
  /\ SameInputs
  /\ UNCHANGED <<mode, live, slot, proposing, wrote>>

\* open_screenshot, which neither stops the live capture nor a search for
\* proposals of the screenshot before.
OpenScreenshot ==
  /\ ClickHere /\ images < MaxImages
  /\ images' = images + 1
  /\ shot' = [n |-> images + 1, by |-> "File"]
  /\ tex' = None
  /\ roi' = None /\ dragging' = FALSE
  /\ scored_roi' = None /\ discrimination' = None
  /\ proposals' = FALSE
  /\ SameInputs
  /\ UNCHANGED <<mode, live, slot, proposal_rx, proposing, wrote>>

\* load_positives, load_negatives.
LoadFolder(side) ==
  /\ ClickHere
  /\ loaded' = loaded \cup {side}
  /\ scored_roi' = None
  /\ SameView /\ SameRegion /\ SameProposals
  /\ UNCHANGED <<discrimination, engine_kind, wrote>>

\* Slip: the region counts as scored by the engine before.
SwitchEngineKeepingScore(engine) ==
  /\ ClickHere /\ engine # engine_kind
  /\ engine_kind' = engine
  /\ SameView /\ SameRegion /\ SameScore /\ SameProposals
  /\ UNCHANGED <<loaded, wrote>>

SwitchEngine(engine) ==
  /\ ClickHere /\ engine # engine_kind
  /\ engine_kind' = engine
  /\ scored_roi' = None /\ discrimination' = None
  /\ SameView /\ SameRegion /\ SameProposals
  /\ UNCHANGED <<loaded, wrote>>

ToggleCapture ==
  /\ ClickHere
  /\ StartLive \/ StopLive
  /\ UNCHANGED authoringVars

RunProposals ==
  /\ ClickHere
  /\ shot # None /\ ~proposing
  /\ proposing' = TRUE
  /\ proposal_rx' = "Nothing"
  /\ SameView /\ SameRegion /\ SameScore /\ SameInputs
  /\ UNCHANGED <<proposals, wrote>>

\* A proposal may be of a screenshot that is gone: on this one it is a region
\* like any other, and is scored before it can be saved.
ApplyProposal(region) ==
  /\ ClickHere
  /\ proposals
  /\ roi' = region /\ dragging' = FALSE
  /\ scored_roi' = None
  /\ SameView /\ SameInputs /\ SameProposals
  /\ UNCHANGED <<discrimination, wrote>>

CanSave == roi # None /\ shot # None

\* roi_crop_and_threshold: the crop is of the screenshot, the threshold lies
\* between the scores of the discrimination, or is 0.9 when there is none.
SaveTemplate ==
  /\ ClickHere /\ CanSave
  /\ wrote' = [crop |-> Score(shot, roi, engine_kind, loaded), basis |-> discrimination]
  /\ SameView /\ SameRegion /\ SameScore /\ SameInputs /\ SameProposals

NoClickHere ==
  /\ Click("Authoring")
  /\ SameView
  /\ UNCHANGED authoringVars

-----------------------------------------------------------------------------
(* The canvas *)

\* A drag goes on: the region follows the pointer and is not scored.
DragRegion(region) ==
  /\ EndFrame("Authoring") /\ Drawn
  /\ roi' = region
  /\ dragging' = TRUE
  /\ wrote' = None
  /\ SameScore /\ SameInputs /\ SameProposals

\* No drag, or its end: a region that was not scored is scored on the image.
RestCanvas ==
  /\ EndFrame("Authoring") /\ Drawn
  /\ dragging' = FALSE
  /\ IF roi # None /\ roi # scored_roi
     THEN /\ discrimination' = Score(shot, roi, engine_kind, loaded)
          /\ scored_roi' = roi
     ELSE SameScore
  /\ wrote' = None
  /\ SameInputs /\ SameProposals
  /\ UNCHANGED roi

SkipCanvas ==
  /\ EndFrame("Authoring") /\ ~Drawn
  /\ wrote' = None
  /\ SameRegion /\ SameScore /\ SameInputs /\ SameProposals

AuthoringClick ==
  \/ OpenScreenshot \/ ToggleCapture \/ RunProposals \/ SaveTemplate \/ NoClickHere
  \/ \E side \in Sides : LoadFolder(side)
  \/ \E engine \in Engines : SwitchEngine(engine)
  \/ \E region \in Regions : ApplyProposal(region)

AuthoringCanvas ==
  RestCanvas \/ SkipCanvas \/ \E region \in Regions \cup {None} : DragRegion(region)

AuthoringStep == BeginAuthoring \/ AuthoringClick \/ AuthoringCanvas
=============================================================================
