----------------------- MODULE MCCommandConversion ------------------------
(***************************************************************************)
(* A finite instance of CommandConversion: a maximum jerk of one unit,     *)
(* callbacks that command up to twice the velocity the limits allow.       *)
(***************************************************************************)
EXTENDS CommandConversion

MCValues == {-11, -6, -3, -1, 0, 1, 2, 5, 11}
MCElbows == {0, 2, 98, 100}
===========================================================================
