-------------------------- MODULE MCStudioAuthoring -------------------------
(* Two images, two regions, both engines, a folder of positives and one   *)
(* demonstrated step.                                                        *)
EXTENDS StudioAuthoring
=============================================================================
