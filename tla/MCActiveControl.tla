------------------------- MODULE MCActiveControl --------------------------
(***************************************************************************)
(* A finite instance of ActiveControl.                                     *)
(***************************************************************************)
EXTENDS ActiveControl

CONSTANTS r1, r2

\* startTorqueControl.
MCMoveModes == {[mg |-> "kJointVelocity", ctl |-> "kExternalController"]}
MCRobots == {r1, r2}
NoFaults == {}
===========================================================================
