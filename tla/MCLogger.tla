----------------------------- MODULE MCLogger -----------------------------
(***************************************************************************)
(* Finite instance of Logger: four records, a log of three slots, so that  *)
(* the ring wraps, is flushed when partly and when completely filled, and  *)
(* is filled again over the records an earlier flush left behind.          *)
(***************************************************************************)
EXTENDS Logger

CONSTANTS c1, c2

MCCommand == {c1, c2}
MCError == {"reflex"}
===========================================================================
