----------------------------- MODULE MCNetwork ----------------------------
(***************************************************************************)
(* Finite instances of Network: two threads, responses that arrive in two  *)
(* pieces, three requests at most, of which the first and the third are    *)
(* Moves and may be answered twice.                                        *)
(***************************************************************************)
EXTENDS Network

CONSTANTS t1, t2

MCThread == {t1, t2}
===========================================================================
