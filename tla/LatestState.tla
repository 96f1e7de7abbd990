---------------------------- MODULE LatestState ---------------------------
(***************************************************************************)
(* What Robot::Impl makes of the UDP stream of robot states: the caller    *)
(* sees some of the states the robot sent, never one twice and never an    *)
(* older one after a newer one.                                            *)
(***************************************************************************)
EXTENDS Naturals

VARIABLES sent,   \* the robot has sent the states 1 .. sent
          seen    \* the state the caller knows, 0 before the first

vars == <<sent, seen>>

Init == sent = 0 /\ seen = 0

Send == sent' = sent + 1 /\ UNCHANGED seen

See ==
    /\ \E n \in (seen + 1) .. sent : seen' = n
    /\ UNCHANGED sent

Next == Send \/ See

Spec == Init /\ [][Next]_vars
===========================================================================
