------------------------ MODULE CommandConversion -------------------------
(***************************************************************************)
(* From what a callback returns to what is sent to the robot: ControlLoop's*)
(* spinControl and convertMotion (filter, limit, check), and Robot::Impl's *)
(* createMotionCommand and createControllerCommand, which writeOnce uses   *)
(* and which only check.  One number of the command is followed, its axis: *)
(* every other one is converted in the same way and independently.         *)
(*                                                                         *)
(* The robot applies a command it receives in time.  When a packet is lost *)
(* it assumes a constant acceleration (rate_limiting.h:29), and what it    *)
(* then desires is what the next state reports as q_d, dq_d and ddq_d.     *)
(***************************************************************************)
EXTENDS RateLimiting

CONSTANTS Values,       \* the finite numbers a callback may return
          Elbows        \* the elbow positions it may return, or a motion start from

ASSUME ValuesAssumption == Values \subseteq Int /\ Elbows \subseteq Int

None == "none"
Axis == {"torque", "jointPosition", "jointVelocity", "cartesianPose", "cartesianVelocity", "elbow"}
\* Axes whose second derivative the code limits.
Motion == Axis \ {"torque", "elbow"}

VARIABLES axis,        \* the axis of the motion in progress, None if there is none
          writer,      \* "control" (ControlLoop) or "writeOnce" (ActiveControl)
          limit_rate_,
          cutoff,      \* cutoff_frequency_: "off", "on", "invalid"
          last,        \* what the robot desires of the axis, as the next state reports it
          lost,        \* packets lost in a row
          disturbed,   \* history: a packet was lost since the motion began
          sent,        \* history: what passed the checks in the last command sent
          thrown       \* how the last motion ended, None if no conversion threw

vars == <<axis, writer, limit_rate_, cutoff, last, lost, disturbed, sent, thrown>>

\* What a callback returns: the number of the axis, whether there is an
\* elbow, and what, if anything, is wrong with the rest of it.  "count" is an
\* initializer list of the wrong length; a matrix is no transformation if its
\* linear part is no rotation, or its last row is not 0 0 0 1.
Flaw == {"count", "nonfinite", "linearPart", "lastRow", "elbowSign"}
Output == [value : Values \cup Elbows, elbow : BOOLEAN, flaw : Flaw \cup {None}]
Torques == [value : Values, elbow : {FALSE}, flaw : {None, "count", "nonfinite"}]
JointPositions == [value : Values, elbow : {FALSE}, flaw : {None, "count", "nonfinite"}]
JointVelocities == [value : Values, elbow : {FALSE}, flaw : {None, "count", "nonfinite"}]
CartesianPose == [value : Values, elbow : BOOLEAN, flaw : Flaw \cup {None}]
CartesianVelocities ==
    [value : Values, elbow : BOOLEAN, flaw : {None, "count", "nonfinite", "elbowSign"}]
\* The elbow of either Cartesian type is followed.
WithElbow == [value : Elbows, elbow : {TRUE}, flaw : {None, "count", "nonfinite", "elbowSign"}]
AtRest(x) == [x |-> x, v |-> 0, a |-> 0]

NothingSent == [elbow |-> FALSE, flaw |-> None]

Init ==
    /\ axis = None
    /\ writer = "control"
    /\ limit_rate_ = FALSE
    /\ cutoff = "off"
    /\ last = AtRest(0)
    /\ lost = 0
    /\ disturbed = FALSE
    /\ sent = NothingSent
    /\ thrown = None

---------------------------------------------------------------------------
(* Checks of control_tools.h and control_types.cpp.                        *)
\* The constructors from an initializer list.
Constructed(out) == out.flaw # "count"
checkFinite(out) == out.flaw # "nonfinite"
isHomogeneousTransformation(out) == out.flaw \notin {"linearPart", "lastRow"}
checkMatrix(out) == checkFinite(out) /\ isHomogeneousTransformation(out)
hasElbow(out) == out.elbow
isValidElbow(out) == out.flaw # "elbowSign"
\* Mutant of checkElbow: only that the numbers are finite is checked.
checkElbow_FiniteOnly(out) == hasElbow(out) => checkFinite(out)
checkElbow(out) == hasElbow(out) => checkFinite(out) /\ isValidElbow(out)

Cartesian == axis \in {"cartesianPose", "cartesianVelocity", "elbow"}

\* The check every command has to pass last; the elbow belongs to the
\* Cartesian interfaces.
Checked(out) ==
    /\ IF axis = "cartesianPose" THEN checkMatrix(out) ELSE checkFinite(out)
    /\ Cartesian => checkElbow(out)

\* The value before the one the callback commands now.  Positions count
\* from the robot's last position.
LastValue == IF axis \in {"jointVelocity", "cartesianVelocity"} THEN last.v ELSE last.x

\* lowpassFilter and cartesianLowpassFilter check their arguments, limitRate
\* for a pose the matrix as well.
FilterAccepts(out) == cutoff = "off" \/ (cutoff = "on" /\ checkFinite(out))
LimitAccepts(out) ==
    limit_rate_ => /\ checkFinite(out)
                   /\ axis = "cartesianPose" => isHomogeneousTransformation(out)

\* The command after the filter.  cartesianLowpassFilter puts a normalized
\* orientation in the place of the linear part, whatever that was, and keeps
\* the last row.
Filtered(out) ==
    IF cutoff = "off" THEN out ELSE
    [out EXCEPT !.value = lowpassFilter(@, LastValue),
                !.flaw = IF axis = "cartesianPose" /\ @ = "linearPart" THEN None ELSE @]

\* limitRate as convertMotion calls it for the elbow: with seven arguments,
\* which are those of the function for velocities.  A position is taken for
\* a jerk, a velocity for an acceleration and so on, so the unit of time
\* matters: the arguments in seconds, scaled to whole numbers.
LimitedElbow(y) ==
    LET N2 == SampleRate * SampleRate
        N3 == SampleRate * N2
    IN  limitRate(N3 * MaxElbowVelocity, N2 * N2 * MaxAcceleration, N2 * N2 * MaxJerk, y,
                  N2 * last.x, N3 * last.v, N3 * last.a) \div N2

Limited(y) ==
    IF ~limit_rate_ THEN y ELSE
    CASE axis = "torque"            -> limitTorqueRate(y, last.x)
      [] axis = "jointPosition"     ->
           limitPositionRate(computeUpperLimitsJointVelocity, computeLowerLimitsJointVelocity,
                             MaxAcceleration, MaxJerk, y, last.x, last.v, last.a)
      [] axis = "jointVelocity"     ->
           limitRate(computeUpperLimitsJointVelocity, computeLowerLimitsJointVelocity,
                     MaxAcceleration, MaxJerk, y, last.v, last.a)
      [] axis = "cartesianPose"     -> limitPoseRate(y, last.x, last.v, last.a)
      [] axis = "cartesianVelocity" ->
           limitVectorRate(MaxCartesianVelocity, MaxAcceleration, MaxJerk, y, last.v, last.a)
      [] axis = "elbow"             -> LimitedElbow(y)

\* spinControl, convertMotion: filter, then limit.
convertMotion(out) == [Filtered(out) EXCEPT !.value = Limited(@)]

\* What the robot desires after it received command y.
Applied(y) ==
    CASE axis = "torque"  -> [last EXCEPT !.x = y]
      [] axis = "elbow"   -> [x |-> y, v |-> y - last.x, a |-> y - last.x - last.v]
      [] OTHER            -> [x |-> 0, v |-> y, a |-> y - last.v]

---------------------------------------------------------------------------
\* A control loop or an active control begins, with the robot at rest.
Start(i, w, limit, c) ==
    /\ axis = None
    /\ w = "writeOnce" => ~limit /\ c = "off"
    /\ axis' = i
    /\ writer' = w
    /\ limit_rate_' = limit
    /\ cutoff' = c
    /\ last' \in IF i = "elbow" THEN {AtRest(x) : x \in Elbows} ELSE {AtRest(0)}
    /\ thrown' = None
    /\ UNCHANGED <<lost, disturbed, sent>>

\* Mutant of End: what is invalid is reported, and the loop goes on.
End_GoesOn(e) ==
    thrown' = e /\ UNCHANGED <<axis, writer, limit_rate_, cutoff, last, lost, disturbed, sent>>

\* The motion ends and the robot comes to rest.
End(e) ==
    /\ axis' = None
    /\ last' = AtRest(0)
    /\ lost' = 0
    /\ disturbed' = FALSE
    /\ sent' = NothingSent
    /\ thrown' = e
    /\ writer' = "control" /\ limit_rate_' = FALSE /\ cutoff' = "off"

\* The command is sent and the robot applies it.
Send(out) ==
    /\ sent' = [elbow |-> out.elbow, flaw |-> out.flaw]
    /\ last' = Applied(out.value)
    /\ lost' = 0
    /\ UNCHANGED <<axis, writer, limit_rate_, cutoff, disturbed, thrown>>

\* The robot stops a motion whose elbow jumps.
ElbowJumped == axis = "elbow" /\ Abs(last.v) > RobotVelocityLimit
Reflex == ElbowJumped /\ End("ControlException")

\* The callback, or the caller of writeOnce, makes a command of its type.
Returned(out) ==
    /\ axis # None /\ ~ElbowJumped
    /\ \/ axis = "torque" /\ out \in Torques
       \/ axis = "jointPosition" /\ out \in JointPositions
       \/ axis = "jointVelocity" /\ out \in JointVelocities
       \/ axis = "cartesianPose" /\ out \in CartesianPose
       \/ axis = "cartesianVelocity" /\ out \in CartesianVelocities
       \/ axis = "elbow" /\ out \in WithElbow

\* One round of ControlLoop.  What is limited is what the filter made, and
\* what is checked in the end is what is sent.  (A callback that throws ends
\* the motion like a conversion that does.)
Spin(out) ==
    /\ writer = "control" /\ Returned(out)
    /\ IF Constructed(out) /\ FilterAccepts(out) /\ LimitAccepts(Filtered(out))
                           /\ Checked(convertMotion(out))
       THEN Send(convertMotion(out))
       ELSE End("invalid_argument")

\* createMotionCommand and createControllerCommand in writeOnce, which is not
\* called when the constructor of its argument throws.
createMotionCommand(out) ==
    /\ writer = "writeOnce" /\ Returned(out) /\ Constructed(out)
    /\ IF Checked(out) THEN Send(out) ELSE End("invalid_argument")

\* A packet is lost; no more than the limits are prepared for in a row.
\* (Without limits the code promises nothing about what follows.)
Lose ==
    /\ axis \in Motion /\ limit_rate_
    /\ lost < kTolNumberPacketsLost
    /\ lost' = lost + 1
    /\ disturbed' = TRUE
    /\ last' = [last EXCEPT !.v = last.v + last.a]
    /\ UNCHANGED <<axis, writer, limit_rate_, cutoff, sent, thrown>>

\* The callback finishes the motion.  (The command it marks as the last one
\* is converted like any other: a Spin or createMotionCommand before.)
Finish == axis # None /\ End(None)

Next ==
    \/ \E i \in Axis, w \in {"control", "writeOnce"}, limit \in BOOLEAN,
          c \in {"off", "on", "invalid"} : Start(i, w, limit, c)
    \/ \E out \in Output : Spin(out) \/ createMotionCommand(out)
    \/ Lose
    \/ Reflex
    \/ Finish

Spec == Init /\ [][Next]_vars

---------------------------------------------------------------------------
TypeOK ==
    /\ axis \in Axis \cup {None}
    /\ writer \in {"control", "writeOnce"}
    /\ limit_rate_ \in BOOLEAN
    /\ cutoff \in {"off", "on", "invalid"}
    /\ last \in [x : Int, v : Int, a : Int]
    /\ lost \in 0 .. kTolNumberPacketsLost
    /\ disturbed \in BOOLEAN
    /\ sent \in [elbow : BOOLEAN, flaw : Flaw \cup {None}]
    /\ thrown \in {None, "invalid_argument", "ControlException"}
    /\ axis # None => thrown = None

(* Whatever a callback or a caller of writeOnce returns, and on every way  *)
(* to the robot (filtered or not, limited or not), a command that is sent  *)
(* has all its numbers, a pose is a homogeneous transformation, by itself  *)
(* or because the filter made it one, and an elbow that is commanded has a *)
(* valid sign (control_loop.cpp:128-273, robot_impl.cpp:325-391).          *)
OnlyValidCommands ==
    /\ axis # None => sent.flaw \notin {"count", "nonfinite"}
    /\ axis = "cartesianPose" => sent.flaw \notin {"linearPart", "lastRow"}
    /\ Cartesian /\ sent.elbow => sent.flaw # "elbowSign"

Limiting == limit_rate_ /\ axis \in Motion

(* With rate limiting, what the robot desires stays below the velocity it  *)
(* enforces, although up to kTolNumberPacketsLost packets in a row are     *)
(* lost and extrapolated at any time: the tolerance the limits leave       *)
(* (rate_limiting.h:26-32, 59-71) is enough.                               *)
VelocityLimitKept == Limiting => Abs(last.v) <= RobotVelocityLimit

(* Recovering from lost packets, limitRate brings the velocity back below  *)
(* its limits with no more than the maximum acceleration                   *)
(* (rate_limiting.cpp:91-104).                                             *)
AccelerationLimitKept == Limiting => Abs(last.a) <= MaxAcceleration

(* As long as no packet is lost, no step of the acceleration exceeds the   *)
(* maximum jerk: the limits on the velocity never force a harder brake     *)
(* than the jerk allows (rate_limiting.cpp:91-97).                         *)
JerkLimitKept ==
    [][Limiting /\ axis' = axis /\ ~disturbed'
         => Abs(last'.a - last.a) <= MaxJerk]_vars

(* With rate limiting an elbow position that is sent is no further from    *)
(* the last one than kMaxElbowVelocity allows, "Maximum elbow velocity"    *)
(* (rate_limiting.h:106, robot.h:363).                                     *)
ElbowRateLimited ==
    [][axis = "elbow" /\ axis' = "elbow" /\ limit_rate_
         => Abs(last'.x - last.x) <= MaxElbowVelocity]_vars
===========================================================================
