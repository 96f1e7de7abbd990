---------------------------- MODULE MCServices ----------------------------
(***************************************************************************)
(* A finite instance of Services: two threads, three calls of the gripper  *)
(* or two of another device, two gripper states, one command for each      *)
(* table of statuses, and loads with and without mass at different places. *)
(***************************************************************************)
EXTENDS Services

CONSTANTS t1, t2

MCThread == {t1, t2}
MCUsed == {"SetLoad", "StopMove", "AutomaticErrorRecovery", "LoadModelLibrary",
           "Grasp", "Vacuum", "Stop"}
MCMaxCalls == [robot |-> 2, gripper |-> 3, vacuum_gripper |-> 2]
MCNoLoad == [m |-> 0, x |-> 2, I |-> 1]
MCLoads == {MCNoLoad, [m |-> 1, x |-> -1, I |-> 0], [m |-> 2, x |-> 3, I |-> 2]}
===========================================================================
