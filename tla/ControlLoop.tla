--------------------------- MODULE ControlLoop ----------------------------
(***************************************************************************)
(* ControlLoop<T>: Robot::control builds a loop, whose constructor starts  *)
(* the motion, and runs it: receive a state, check it for an error, call   *)
(* the user's callbacks, send what they return.  Whatever is thrown in     *)
(* there cancels the motion and is thrown on.  Other threads may stop the  *)
(* robot or recover it from a reflex meanwhile.                            *)
(***************************************************************************)
EXTENDS RobotImpl

CONSTANT StopsWhenStarting  \* whether another thread may send commands during startMotion

ASSUME StopsAssumption == StopsWhenStarting \in BOOLEAN

\* The modes that the overloads of Robot::control ask for: torques alone run
\* with a motion generator of zero velocities, a torque callback needs
\* external control, and without one the caller names a ControllerMode.
ControlTorques == [mg |-> kMotionGeneratorMode.JointVelocities, ctl |-> "kExternalController"]
ControlTorquesAndMotion ==
    {[mg |-> kMotionGeneratorMode[T], ctl |-> "kExternalController"] :
        T \in DOMAIN kMotionGeneratorMode}
ControlMotion ==
    {[mg |-> kMotionGeneratorMode[T], ctl |-> c] :
        T \in DOMAIN kMotionGeneratorMode, c \in {"kJointImpedance", "kCartesianImpedance"}}
ASSUME ControlAssumption ==
    MoveModes \subseteq {ControlTorques} \cup ControlTorquesAndMotion \cup ControlMotion

VARIABLES at,                \* the call in progress, "out" between two calls of control()
          control_callback_, \* whether the loop has a control callback
          rethrow,           \* the exception operator() throws on after cancelMotion
          outcome            \* history: how control() ended for each Move

loopVars == <<at, control_callback_, rethrow, outcome>>
vars == <<serverVars, netVars, implVars, loopVars>>

At == {"out", "startMotion", "update", "throwOnMotionError", "callbacks", "finishMotion",
       "cancelMotion"}
Outcome == Exception \cup {"returned", "UserException"}

TypeOK ==
    /\ ServerTypeOK
    /\ ImplTypeOK
    /\ at \in At
    /\ control_callback_ \in BOOLEAN
    /\ rethrow \in Outcome \cup {None}
    /\ outcome \in [CommandId -> Outcome \cup {None}]

Init ==
    /\ ServerInit
    /\ ImplInit
    /\ at = "out"
    /\ control_callback_ = FALSE
    /\ rethrow = None
    /\ outcome = [id \in CommandId |-> None]

---------------------------------------------------------------------------
\* Bound: a call of control() needs two command ids, for Move and StopMove.
Reserved == IF at = "out" THEN 0 ELSE 1
IdsFor(n) == command_id_ + n - 1 <= MaxCommands

\* The call of Robot::Impl has ended.
Done(call) == at = call /\ step = "returned"

Leave(result) ==
    /\ at' = "out"
    /\ outcome' = [outcome EXCEPT ![motion_id] = result]
    /\ UNCHANGED rethrow

\* The constructor: external control if and only if there is a control callback.
Construct(modes) ==
    /\ Done("out")
    /\ IdsFor(2)
    /\ StopsWhenStarting \/ other = NoMotion
    /\ CallStartMotion(modes)
    /\ at' = IF Running(cached) THEN "out" ELSE "startMotion"
    /\ control_callback_' = (modes.ctl = "kExternalController")
    /\ UNCHANGED <<serverVars, toClient, states, command, link, received_responses_, cached,
                   stop_id, resume, motion_command, control_command, other, rethrow, outcome>>

\* operator() begins with update(nullptr, nullptr); an exception of
\* startMotion leaves the constructor, and nothing is cancelled.
Started ==
    /\ Done("startMotion")
    /\ IF thrown = None
       THEN at' = "update" /\ CallUpdate(None, FALSE, "returned") /\ UNCHANGED <<rethrow, outcome>>
       ELSE Leave(thrown) /\ UNCHANGED <<step, motion_command, control_command, resume>>
    /\ UNCHANGED <<serverVars, netVars, command_id_, received_responses_, cached, current_move,
                   motion_id, stop_id, thrown, other, control_callback_>>

\* catch (...) in operator().
Cancel(e) ==
    /\ at' = "cancelMotion"
    /\ rethrow' = e
    /\ CallCancelMotion
    /\ UNCHANGED outcome

Updated ==
    /\ Done("update")
    /\ IF thrown = None
       THEN /\ at' = "throwOnMotionError"
            /\ CallThrowOnMotionError
            /\ UNCHANGED <<rethrow, outcome, stop_id, command_id_, toRobot>>
       ELSE Cancel(thrown)
    /\ UNCHANGED <<serverVars, toClient, states, command, link, received_responses_, cached,
                   current_move, motion_id, resume, motion_command, control_command, other,
                   control_callback_>>

Checked ==
    /\ Done("throwOnMotionError")
    /\ IF thrown = None
       THEN /\ at' = "callbacks"
            /\ UNCHANGED <<rethrow, outcome, step, thrown, stop_id, command_id_, toRobot>>
       ELSE Cancel(thrown)
    /\ UNCHANGED <<serverVars, toClient, states, command, link, received_responses_, cached,
                   current_move, motion_id, resume, motion_command, control_command, other,
                   control_callback_>>

\* spinMotion and spinControl: the callbacks want to go on ...
CallbacksContinue ==
    /\ at = "callbacks"
    /\ at' = "update"
    /\ CallUpdate("running", control_callback_, "returned")
    /\ UNCHANGED <<serverVars, netVars, command_id_, received_responses_, cached, current_move,
                   motion_id, stop_id, thrown, other, control_callback_, rethrow, outcome>>

\* ... or have finished the motion ...
CallbacksFinish ==
    /\ at = "callbacks"
    /\ at' = "finishMotion"
    /\ CallFinishMotion(control_callback_)
    /\ UNCHANGED <<serverVars, netVars, command_id_, received_responses_, cached, motion_id,
                   stop_id, other, control_callback_, rethrow, outcome>>

\* ... or throw, or return a command that checkFinite refuses.
CallbacksThrow ==
    /\ at = "callbacks"
    /\ Cancel("UserException")
    /\ UNCHANGED <<serverVars, toClient, states, command, link, received_responses_, cached,
                   current_move, motion_id, resume, motion_command, control_command, other,
                   control_callback_>>

Finished ==
    /\ Done("finishMotion")
    /\ IF thrown = None
       THEN /\ Leave("returned")
            /\ UNCHANGED <<step, thrown, stop_id, command_id_, toRobot>>
       ELSE Cancel(thrown)
    /\ UNCHANGED <<serverVars, toClient, states, command, link, received_responses_, cached,
                   current_move, motion_id, resume, motion_command, control_command, other,
                   control_callback_>>

\* What cancelMotion throws is swallowed, the first exception is thrown on.
Cancelled ==
    /\ Done("cancelMotion")
    /\ Leave(rethrow)
    /\ UNCHANGED <<serverVars, netVars, implVars, control_callback_>>

LoopNext ==
    \/ Started \/ Updated \/ Checked \/ CallbacksContinue \/ CallbacksFinish \/ CallbacksThrow
    \/ Finished \/ Cancelled

Stop(c) ==
    /\ IdsFor(1 + Reserved)
    /\ StopsWhenStarting \/ at # "startMotion"
    /\ OtherRequest(c)
    /\ UNCHANGED loopVars

Next ==
    \/ ServerNext /\ UNCHANGED <<implVars, loopVars>>
    \/ ImplNext /\ UNCHANGED loopVars
    \/ OtherReceive /\ UNCHANGED loopVars
    \/ \E modes \in MoveModes : Construct(modes)
    \/ LoopNext
    \/ \E c \in {"kStopMove", "kAutomaticErrorRecovery"} : Stop(c)

Spec == Init /\ [][Next]_vars

\* The robot answers what it is asked, ends what is ending and keeps sending
\* states; every thread keeps running; a response that is polled for again
\* and again has arrived at one of the polls.
Fairness ==
    /\ WF_vars(ServerAnswer /\ UNCHANGED <<implVars, loopVars>>)
    /\ WF_vars(Settle /\ UNCHANGED <<implVars, loopVars>>)
    /\ WF_vars(PublishState /\ UNCHANGED <<implVars, loopVars>>)
    /\ WF_vars(ImplNext /\ UNCHANGED loopVars)
    /\ WF_vars(LoopNext)
    /\ WF_vars(OtherReceive /\ UNCHANGED loopVars)
    /\ SF_vars(StartPoll /\ toClient' # toClient /\ UNCHANGED loopVars)

FairSpec == Spec /\ Fairness

---------------------------------------------------------------------------
(* control() returns only if the robot ended this very Move with kSuccess, *)
(* the final response of which finishMotion waited for                     *)
(* (robot_impl.cpp:301-311) - whatever else was in received_responses_,    *)
(* whichever thread read it, and whatever failed before.                   *)
ReturnsOnSuccess ==
    \A id \in CommandId : outcome[id] = "returned" => final[id] = "kSuccess"

(* Whatever fails on the way, control() blames a motion only if the robot  *)
(* had rejected it or ended it without success, and throws what a callback *)
(* threw only if the motion was not completed: a NetworkException is the   *)
(* one report that leaves open what became of the motion                   *)
(* (robot_impl.cpp:63-96, 208-316, control_loop.cpp:95-126).               *)
ThrowsOnFailure ==
    \A id \in CommandId :
        /\ outcome[id] \in {"CommandException", "ControlException"} =>
              final[id] \in MoveEnd \ {"kSuccess"}
        /\ outcome[id] = "UserException" => final[id] # "kSuccess"

(* Without network faults, control() is over only when the robot has ended *)
(* the motion, in each of the ways out: return, rejected start, error      *)
(* state, user exception (control_loop.cpp:119-124, robot_impl.cpp:393),   *)
(* and it throws if and only if the motion did not complete.               *)
Contract == INSTANCE MotionContract WITH
    Motion <- CommandId, Verdict <- MoveEnd, Success <- "kSuccess",
    current <- IF at = "out" THEN NoMotion ELSE motion_id,
    verdict <- final,
    report <- [id \in CommandId |->
                 IF outcome[id] \in {None, "returned"} THEN outcome[id] ELSE "thrown"]

ImplementsMotionContract == Contract!Spec

(* The reply throwOnMotionError waits for is always the error it detected  *)
(* in the robot state, never the response that started the motion or one   *)
(* that says it succeeded (robot_impl.cpp:84 is unreachable).              *)
RepliesAreExpected == \A id \in CommandId : outcome[id] # "ProtocolException"

\* control() still has to take the final response of its Move.
AwaitsFinal ==
    /\ at \notin {"out", "cancelMotion"}
    /\ step = "returned" => thrown = None /\ at # "finishMotion"

(* The final response is there for the thread that will wait for it: in    *)
(* the connection or in received_responses_, under the id that the first   *)
(* response had as well (network.h:178 keeps only one per id).             *)
FinalNotLost ==
    AwaitsFinal /\ final[motion_id] # None =>
        \/ received_responses_[motion_id] = final[motion_id]
        \/ \E i \in DOMAIN toClient :
              toClient[i] = [id |-> motion_id, status |-> final[motion_id]]

(* A robot command leaves the client only if the newest state it accepted  *)
(* shows the motion running, and it never is a partial command that        *)
(* sendRobotCommand refuses (robot_impl.cpp:124-159, 293-298).             *)
CommandsFollowState ==
    [][step = "update.send" /\ motion_command # None
         => Running(cached) /\ thrown' # "ControlException"]_vars

(* A motion that stop() preempts while its control loop starts or runs in  *)
(* another thread ends that loop, as robot.h:720-721 says.                 *)
StopPreempts == at # "out" /\ final[motion_id] = "kPreempted" ~> at = "out"

(* control() throws only what robot.h:166-170 lists: a ControlException if *)
(* an error related to the motion occurred, but no CommandException.       *)
ThrowsAsDocumented == \A id \in CommandId : outcome[id] # "CommandException"

(* Once the robot has ended the motion, control() ends too: by return, by  *)
(* the error path and cancelMotion, or out of startMotion, also when the   *)
(* link to the robot is lost on the way.                                   *)
EndsWithMotion == at # "out" /\ final[motion_id] # None ~> at = "out"
===========================================================================
