--------------------------- MODULE StudioAuthoring --------------------------
(***************************************************************************)
(* The two pages that author templates, over the picture they share: each  *)
(* takes frames from the same capture and shows the same screenshot, and   *)
(* keeps to itself what it made of them.                                   *)
(***************************************************************************)
EXTENDS AuthoringPage, DemoPage

vars == <<viewVars, authoringVars, demoVars>>

Init == InitView /\ InitAuthoring /\ InitDemo

View ==
  /\ Capture \/ BatchFrame \/ \E page \in Pages : SelectMode(page)
  /\ UNCHANGED <<authoringVars, demoVars>>

Authoring == AuthoringStep /\ UNCHANGED demoVars
Searching == ProposalsDone /\ UNCHANGED demoVars
Demonstration == DemoStep /\ UNCHANGED authoringVars

Next == View \/ Authoring \/ Searching \/ Demonstration

\* The thread of a search ends.  Nothing asks for another frame of either page.
Fairness == WF_vars(Searching)

Spec == Init /\ [][Next]_vars /\ Fairness

-----------------------------------------------------------------------------

\* The threshold written with a template was computed for the very crop, method
\* and folders it is written with, as far as the image had been scored at all;
\* and an image opened from a file always has.
SavedThresholdFits ==
  wrote # None =>
    /\ (wrote.basis # None /\ wrote.basis.img = wrote.crop.img) => wrote.basis = wrote.crop
    /\ wrote.crop.img.by = "File" => wrote.basis = wrote.crop

\* The template of a demonstrated step is cut from the image its user had before
\* him, unless that image was put there by another page.
StepIsOfShownImage ==
  session # None =>
    \A i \in DOMAIN session.steps :
      session.steps[i].seen.by = "LiveAuthoring" => session.steps[i].img = session.steps[i].seen

\* A search is never left hanging, whatever is opened meanwhile: its list comes to
\* wait for the authoring page, and the first frame of the page that finds it ends
\* the search.  When that frame comes is left open.
ProposalsArrive ==
  /\ proposing ~> (~proposing \/ proposal_rx = "Result")
  /\ [][(BeginAuthoring /\ proposal_rx = "Result") => ~proposing']_vars
=============================================================================
