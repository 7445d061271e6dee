--------------------------- MODULE MCWin32Device ----------------------------
(* Two processes of the game and a window of another program on two places. *)
EXTENDS Win32Device

MCWindowOf == [p1 |-> "w1", p2 |-> "w2"]
=============================================================================
