--------------------------- MODULE MCStudioRunner ---------------------------
(* Two runs, each with a line or none on each pipe, and a channel that two   *)
(* events fill.                                                              *)
EXTENDS StudioRunner
=============================================================================
