--------------------------- MODULE MCControlLoop --------------------------
(***************************************************************************)
(* Finite instances of ControlLoop.                                        *)
(***************************************************************************)
EXTENDS ControlLoop

MCMoveModes ==
    {[mg |-> "kJointPosition", ctl |-> "kJointImpedance"],
     [mg |-> "kJointPosition", ctl |-> "kExternalController"]}
MCExternal == {[mg |-> "kJointPosition", ctl |-> "kExternalController"]}

NoFaults == {}
AllFaults == {"linkLoss", "udpSilence"}
===========================================================================
