-------------------------- MODULE ActiveControl ---------------------------
(***************************************************************************)
(* Robot's control_mutex_ and the controls started with it: startControl   *)
(* and startTorqueControl hand the lock to an ActiveControl, whose owner   *)
(* reads and writes in a loop of its own, finishes the motion or destroys  *)
(* the object.  Robot::readOnce and Robot::read try the same lock; moving  *)
(* a Robot waits for it; stop and automaticErrorRecovery run without it.   *)
(*                                                                         *)
(* The caller follows the protocol: once a call reported the end of the    *)
(* motion, only the destructor follows.  Any other call would wait for a   *)
(* Move response that was taken already.                                   *)
(***************************************************************************)
EXTENDS RobotImpl

CONSTANT Robots      \* the Robot objects one connection may live in

ASSUME RobotsAssumption == Robots # {} /\ None \notin Robots

\* startTorqueControl, startJointPositionControl, startJointVelocityControl,
\* startCartesianPoseControl and startCartesianVelocityControl.
StartModes ==
    {[mg |-> kMotionGeneratorMode[T], ctl |-> c] :
        T \in DOMAIN kMotionGeneratorMode,
        c \in {"kJointImpedance", "kCartesianImpedance", "kExternalController"}}
ASSUME StartAssumption == MoveModes \subseteq StartModes

VARIABLES at,                \* the call in progress, "user" between two calls
          impl_,             \* the Robot object that has the implementation
          control_lock,      \* the Robot object whose control_mutex_ is held, or None
          alive,             \* whether there is an ActiveControl
          control_finished,  \* its flag
          reported,          \* history: a call reported the end of its motion
          fresh,             \* history: the last control was ended, nothing was read since
          outcome            \* history: how each control ended

activeVars == <<at, impl_, control_lock, alive, control_finished, reported, fresh, outcome>>
vars == <<serverVars, netVars, implVars, activeVars>>

At == {"user", "startMotion", "readOnce", "throwOnMotionError", "writeOnce", "finishMotion",
       "cancelMotion", "Robot::read", "terminated"}

TypeOK ==
    /\ ServerTypeOK
    /\ ImplTypeOK
    /\ at \in At
    /\ impl_ \in Robots
    /\ control_lock \in Robots \cup {None}
    /\ alive \in BOOLEAN /\ control_finished \in BOOLEAN
    /\ reported \in BOOLEAN /\ fresh \in BOOLEAN
    /\ outcome \in [CommandId -> {None, "returned", "thrown"}]

Init ==
    /\ ServerInit
    /\ ImplInit
    /\ at = "user"
    /\ impl_ \in Robots
    /\ control_lock = None
    /\ alive = FALSE /\ control_finished = FALSE
    /\ reported = FALSE /\ fresh = TRUE
    /\ outcome = [id \in CommandId |-> None]

---------------------------------------------------------------------------
\* Bound: a control needs two command ids, for Move and StopMove.
IdsFor(n) == command_id_ + n - 1 <= MaxCommands
Unfinished == alive /\ ~control_finished
Reserved == IF at = "startMotion" \/ (Unfinished /\ at # "cancelMotion") THEN 1 ELSE 0

\* The call of Robot::Impl has ended.
Done(call) == at = call /\ step = "returned"

\* std::try_to_lock on the Robot that is used, and assertOwningLock: if the
\* lock is taken an InvalidOperationException is thrown and nothing happens.
assertOwningLock == control_lock # impl_

---------------------------------------------------------------------------
(* startControl, startTorqueControl.                                       *)
startControl(modes) ==
    /\ Done("user")
    /\ assertOwningLock
    /\ IdsFor(2)
    /\ CallStartMotion(modes)
    /\ IF Running(cached)
       THEN UNCHANGED <<at, control_lock, alive, reported>>
       ELSE at' = "startMotion" /\ control_lock' = impl_ /\ alive' = FALSE /\ reported' = FALSE
    /\ UNCHANGED <<serverVars, toClient, states, command, link, received_responses_, cached,
                   stop_id, resume, motion_command, control_command, other,
                   impl_, control_finished, fresh, outcome>>

\* The ActiveControl is constructed, or the exception gives the lock back.
Started ==
    /\ Done("startMotion")
    /\ at' = "user"
    /\ control_finished' = FALSE
    /\ IF thrown = None
       THEN alive' = TRUE /\ UNCHANGED <<control_lock, fresh, outcome>>
       ELSE /\ control_lock' = None /\ fresh' = FALSE
            /\ outcome' = [outcome EXCEPT ![motion_id] = "thrown"]
            /\ UNCHANGED alive
    /\ UNCHANGED <<serverVars, netVars, implVars, impl_, reported>>

---------------------------------------------------------------------------
(* Reading.  Robot::Impl::readOnce drops what has arrived and waits for    *)
(* the next state.                                                         *)
DrainStates == \E k \in 0 .. Len(states) : states' = SubSeq(states, k + 1, Len(states))

CallReadOnce ==
    /\ DrainStates
    /\ step' = "update.receive" /\ resume' = "returned"
    /\ motion_command' = None /\ control_command' = FALSE
    /\ UNCHANGED <<serverVars, toRobot, toClient, command, link, command_id_, received_responses_,
                   cached, current_move, motion_id, stop_id, thrown, other>>

readOnce ==
    /\ Done("user")
    /\ Unfinished /\ ~reported
    /\ CallReadOnce
    /\ at' = "readOnce"
    /\ UNCHANGED <<impl_, control_lock, alive, control_finished, reported, fresh, outcome>>

ReadDone ==
    /\ Done("readOnce")
    /\ IF thrown = None
       THEN at' = "throwOnMotionError" /\ CallThrowOnMotionError
       ELSE at' = "user" /\ UNCHANGED <<step, thrown>>
    /\ UNCHANGED <<serverVars, netVars, command_id_, received_responses_, cached, current_move,
                   motion_id, stop_id, resume, motion_command, control_command, other,
                   impl_, control_lock, alive, control_finished, reported, fresh, outcome>>

StateReturned ==
    /\ Done("throwOnMotionError")
    /\ at' = "user"
    /\ reported' = (thrown \in {"ControlException", "ProtocolException"})
    /\ UNCHANGED <<serverVars, netVars, implVars, impl_, control_lock, alive, control_finished,
                   fresh, outcome>>

\* Mutant of RobotRead: a state is read without the lock.
RobotRead_NoLock ==
    /\ Done("user")
    /\ CallReadOnce
    /\ at' = "Robot::read"
    /\ fresh' = FALSE
    /\ UNCHANGED <<impl_, control_lock, alive, control_finished, reported, outcome>>

\* Robot::readOnce and the first state of Robot::read.
RobotRead ==
    /\ Done("user")
    /\ assertOwningLock
    /\ CallReadOnce
    /\ at' = "Robot::read"
    /\ control_lock' = impl_
    /\ fresh' = FALSE
    /\ UNCHANGED <<impl_, alive, control_finished, reported, outcome>>

\* Robot::read goes on as long as its callback wants to ...
RobotReadAgain ==
    /\ Done("Robot::read")
    /\ thrown = None
    /\ CallUpdate(None, FALSE, "returned")
    /\ UNCHANGED <<serverVars, netVars, command_id_, received_responses_, cached, current_move,
                   motion_id, stop_id, thrown, other, activeVars>>

\* ... or until it throws.
RobotReadDone ==
    /\ Done("Robot::read")
    /\ at' = "user"
    /\ control_lock' = None
    /\ UNCHANGED <<serverVars, netVars, implVars, impl_, alive, control_finished, reported, fresh,
                   outcome>>

---------------------------------------------------------------------------
(* writeOnce of ActiveTorqueControl and ActiveMotionGenerator.             *)

\* Torques are given exactly for an external controller, and the control
\* is not finished; otherwise a ControlException, and nothing happens.
WriteAccepted(torques) ==
    /\ ~control_finished
    /\ torques = (current_move.ctl = "kExternalController")

writeOnce(torques) ==
    /\ Done("user")
    /\ alive /\ ~reported
    /\ WriteAccepted(torques)
    /\ CallUpdate("running", torques, "returned")
    /\ at' = "writeOnce"
    /\ UNCHANGED <<serverVars, netVars, command_id_, received_responses_, cached, current_move,
                   motion_id, stop_id, thrown, other,
                   impl_, control_lock, alive, control_finished, reported, fresh, outcome>>

\* Robot::Impl::writeOnce only sends: no state is received.
WriteSent == at = "writeOnce" /\ step = "update.receive"

WriteDone ==
    /\ WriteSent \/ Done("writeOnce")
    /\ at' = "user"
    /\ step' = "returned"
    /\ UNCHANGED <<serverVars, netVars, command_id_, received_responses_, cached, current_move,
                   motion_id, stop_id, resume, motion_command, control_command, thrown, other,
                   impl_, control_lock, alive, control_finished, reported, fresh, outcome>>

\* writeOnce with motion_finished.
writeFinished(torques) ==
    /\ Done("user")
    /\ alive /\ ~reported
    /\ WriteAccepted(torques)
    /\ CallFinishMotion(torques)
    /\ at' = "finishMotion"
    /\ UNCHANGED <<serverVars, netVars, command_id_, received_responses_, cached, motion_id,
                   stop_id, other,
                   impl_, control_lock, alive, control_finished, reported, fresh, outcome>>

\* Mutant of Finished: control_finished is not set.
Finished_Forgets ==
    /\ Done("finishMotion")
    /\ at' = "user"
    /\ reported' = (thrown # "NetworkException")
    /\ UNCHANGED <<serverVars, netVars, implVars, impl_, alive, control_finished, control_lock,
                   fresh, outcome>>

Finished ==
    /\ Done("finishMotion")
    /\ at' = "user"
    /\ IF thrown = None
       THEN /\ control_finished' = TRUE /\ control_lock' = None
            /\ reported' = TRUE /\ fresh' = TRUE
            /\ outcome' = [outcome EXCEPT ![motion_id] = "returned"]
       ELSE /\ reported' = (thrown # "NetworkException")
            /\ UNCHANGED <<control_finished, control_lock, fresh, outcome>>
    /\ UNCHANGED <<serverVars, netVars, implVars, impl_, alive>>

---------------------------------------------------------------------------
(* ~ActiveControl.                                                         *)
Destroy ==
    /\ Done("user")
    /\ alive
    /\ IF control_finished
       THEN /\ alive' = FALSE
            /\ UNCHANGED <<at, toRobot, command_id_, stop_id, step, thrown>>
       ELSE /\ at' = "cancelMotion" /\ CallCancelMotion
            /\ UNCHANGED alive
    /\ UNCHANGED <<serverVars, toClient, states, command, link, received_responses_, cached,
                   current_move, motion_id, resume, motion_command, control_command, other,
                   impl_, control_lock, control_finished, reported, fresh, outcome>>

\* What cancelMotion throws leaves a destructor: std::terminate.
Destroyed ==
    /\ Done("cancelMotion")
    /\ IF thrown = None
       THEN /\ at' = "user" /\ alive' = FALSE /\ control_lock' = None /\ fresh' = TRUE
            /\ outcome' = [outcome EXCEPT ![motion_id] = "thrown"]
       ELSE at' = "terminated" /\ UNCHANGED <<alive, control_lock, fresh, outcome>>
    /\ UNCHANGED <<serverVars, netVars, implVars, impl_, control_finished, reported>>

---------------------------------------------------------------------------
\* Mutant of MoveRobot: the implementation is taken without the lock.
MoveRobot_NoLock(r) ==
    /\ at = "user"
    /\ impl_' = r
    /\ UNCHANGED <<serverVars, netVars, implVars, at, control_lock, alive, control_finished,
                   reported, fresh, outcome>>

\* Robot(Robot&&) and operator=: wait for the locks, take the implementation.
MoveRobot(r) ==
    /\ at = "user"
    /\ control_lock \notin {impl_, r}
    /\ impl_' = r
    /\ UNCHANGED <<serverVars, netVars, implVars, at, control_lock, alive, control_finished,
                   reported, fresh, outcome>>

\* stop() and automaticErrorRecovery() in another thread, at any time.
Stop(c) ==
    /\ at # "terminated"
    /\ IdsFor(1 + Reserved)
    /\ OtherRequest(c)
    /\ UNCHANGED activeVars

\* The ends of the calls, which the calling thread reaches by itself.
CallEnds ==
    \/ Started \/ ReadDone \/ StateReturned \/ RobotReadDone \/ WriteDone \/ Finished \/ Destroyed

User ==
    \/ \E modes \in MoveModes : startControl(modes)
    \/ \E torques \in BOOLEAN : writeOnce(torques) \/ writeFinished(torques)
    \/ readOnce \/ RobotRead \/ RobotReadAgain \/ Destroy
    \/ \E r \in Robots \ {impl_} : MoveRobot(r)
    \/ \E c \in {"kStopMove", "kAutomaticErrorRecovery"} : Stop(c)

ImplStep == ImplNext /\ ~WriteSent /\ UNCHANGED activeVars

Next ==
    \/ ServerNext /\ UNCHANGED <<implVars, activeVars>>
    \/ ImplStep
    \/ OtherReceive /\ UNCHANGED activeVars
    \/ CallEnds
    \/ User

Spec == Init /\ [][Next]_vars

\* The robot answers, ends what is ending and keeps sending states; threads
\* keep running; a response that is polled for again and again arrives.
Fairness ==
    /\ WF_vars(ServerAnswer /\ UNCHANGED <<implVars, activeVars>>)
    /\ WF_vars(Settle /\ UNCHANGED <<implVars, activeVars>>)
    /\ WF_vars(PublishState /\ UNCHANGED <<implVars, activeVars>>)
    /\ WF_vars(ImplStep)
    /\ WF_vars(CallEnds)
    /\ WF_vars(OtherReceive /\ UNCHANGED activeVars)
    /\ SF_vars(StartPoll /\ toClient' # toClient /\ UNCHANGED activeVars)

FairSpec == Spec /\ Fairness

---------------------------------------------------------------------------
(* While the robot executes a motion, the control_mutex_ of the Robot that *)
(* has the implementation is held by the control of this very motion, also *)
(* after errors and when the Robot is moved in between: control(), read()  *)
(* and the start functions are refused (robot.cpp:17, 32-47, 252-284).     *)
MotionHoldsLock ==
    phase \in {"accepted", "moving"} => control_lock = impl_ /\ motion_id = active

(* No control is started and no state is read through Robot while a control*)
(* is unfinished (active_control.h:64-65 "preventing parallel control      *)
(* processes").                                                            *)
OneOperationAtATime ==
    [][at = "user" /\ at' \in {"startMotion", "Robot::read"} => ~Unfinished]_vars

(* Like Robot::control, an active control promises that its end reports    *)
(* how the motion ended: writeOnce(MotionFinished) returns if and only if  *)
(* the robot completed the motion, and the lock is given back only after   *)
(* the robot ended it.                                                     *)
Contract == INSTANCE MotionContract WITH
    Motion <- CommandId, Verdict <- MoveEnd, Success <- "kSuccess",
    current <- IF at = "startMotion" \/ Unfinished THEN motion_id ELSE NoMotion,
    verdict <- final,
    report <- outcome

ImplementsMotionContract == Contract!Spec

(* A control that was finished or destroyed leaves the modes of an idle    *)
(* robot behind: startMotion, which decides from them (robot_impl.cpp:213),*)
(* does not refuse the next motion as a second one.                        *)
ReadyForNextMotion == fresh /\ at = "user" /\ ~Unfinished => ~Running(cached)

(* The destructor lets an exception escape only if the motion had ended    *)
(* without it: the robot aborted it or another thread stopped it           *)
(* (active_control.cpp:22-26).                                             *)
TerminatesOnlyAfterEnd ==
    at = "terminated" => final[motion_id] \in MoveEnd \ {"kSuccess"}

(* No command of another thread is in progress while a control starts.     *)
StartsAlone == at = "startMotion" => other = NoMotion

(* Once the robot has ended the motion, the call in progress ends: a read  *)
(* throws, finishing returns or throws, the destructor's cancelMotion gets *)
(* to its end (robot_impl.cpp:63-96, 274-313, 393-411).  It takes that     *)
(* every control starts alone: otherwise the other thread may read both    *)
(* responses to the Move, of which the second is dropped (network.h:178).  *)
CallsEnd ==
    []StartsAlone =>
        (at \notin {"user", "Robot::read", "terminated"} /\ final[motion_id] # None
            ~> at \in {"user", "terminated"})
===========================================================================
