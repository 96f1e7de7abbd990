-------------------------- MODULE MotionContract --------------------------
(***************************************************************************)
(* What Robot::control promises about the motions it runs: one motion at a *)
(* time; each gets one verdict from the robot; and control() ends only     *)
(* after that verdict, by returning if the motion was completed and by     *)
(* throwing if it was not.                                                 *)
(***************************************************************************)
CONSTANTS Motion,    \* the motions, by command id
          Verdict,   \* the ways a motion can end
          Success,   \* the one in which it was completed
          NoMotion,  \* no call of control()
          None       \* no verdict, no report yet

VARIABLES current,   \* the motion control() was called for, or NoMotion
          verdict,   \* how the robot ended each motion
          report     \* how control() ended: None, "returned" or "thrown"

vars == <<current, verdict, report>>

Init ==
    /\ current = NoMotion
    /\ verdict = [m \in Motion |-> None]
    /\ report = [m \in Motion |-> None]

Call(m) ==
    /\ current = NoMotion
    /\ verdict[m] = None
    /\ current' = m
    /\ UNCHANGED <<verdict, report>>

Conclude(v) ==
    /\ current # NoMotion
    /\ verdict[current] = None
    /\ verdict' = [verdict EXCEPT ![current] = v]
    /\ UNCHANGED <<current, report>>

Report ==
    /\ current # NoMotion
    /\ verdict[current] # None
    /\ report' = [report EXCEPT ![current] =
                    IF verdict[current] = Success THEN "returned" ELSE "thrown"]
    /\ current' = NoMotion
    /\ UNCHANGED verdict

Next == Report \/ (\E m \in Motion : Call(m)) \/ (\E v \in Verdict : Conclude(v))

Spec == Init /\ [][Next]_vars
===========================================================================
