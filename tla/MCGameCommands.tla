--------------------------- MODULE MCGameCommands ---------------------------
(* A routine of two steps with two recoveries each, three games and three    *)
(* launchers, and a probe of two samples.                                    *)
EXTENDS GameCommands
=============================================================================
