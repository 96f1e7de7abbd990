---------------------------- MODULE RobotImpl -----------------------------
(***************************************************************************)
(* Robot::Impl: the operations that run a motion on the robot, each as the *)
(* sequence of steps between which the robot, the network or another       *)
(* thread can act.  The thread that runs a motion calls startMotion,       *)
(* update, throwOnMotionError, finishMotion and cancelMotion; another      *)
(* thread may run executeCommand (Robot::stop, automaticErrorRecovery),    *)
(* which takes no lock but the one of Network.                             *)
(*                                                                         *)
(* TCP is used through received_responses_, the map from command ids to    *)
(* responses that every receiving thread fills and takes from: one step    *)
(* here is one locked pass of tcpReadFromBuffer and find.                  *)
(***************************************************************************)
EXTENDS RobotServer

VARIABLES command_id_,          \* the id of the next request
          received_responses_,  \* complete responses nobody took yet
          cached,               \* robot_mode_, motion_generator_mode_, controller_mode_
          current_move,         \* current_move_motion_generator_mode_, ..._controller_mode_
          motion_id,            \* the Move of the call in progress
          stop_id,              \* the StopMove cancelMotion waits for
          step,                 \* where the call in progress is, "returned" if none is
          resume,               \* the step update() returns to
          motion_command,       \* update()'s motion command: None, "running", "finished"
          control_command,      \* whether update() has a control command
          thrown,               \* what the last call threw, None if it returned
          other                 \* the command another thread waits for

implVars == <<command_id_, received_responses_, cached, current_move, motion_id, stop_id,
              step, resume, motion_command, control_command, thrown, other>>

\* MotionGeneratorTraits: the mode in which a robot takes commands of a type.
kMotionGeneratorMode ==
    [JointPositions |-> "kJointPosition", JointVelocities |-> "kJointVelocity",
     CartesianPose |-> "kCartesianPosition", CartesianVelocities |-> "kCartesianVelocity"]

Step == {"returned", "start.wait", "start.poll", "update.send", "update.receive", "error.wait",
         "finish.poll", "finish.wait", "cancel.wait", "cancel.receive", "cancel.ignore"}
Exception == {"CommandException", "ControlException", "ProtocolException", "NetworkException"}

ImplTypeOK ==
    /\ command_id_ \in 1 .. (MaxCommands + 1)
    /\ received_responses_ \in [CommandId -> Status \cup {None}]
    /\ cached \in State
    /\ current_move \in Modes
    /\ motion_id \in CommandId \cup {NoMotion}
    /\ stop_id \in CommandId \cup {NoMotion}
    /\ step \in Step
    /\ resume \in {"returned", "start.poll", "finish.poll"}
    /\ motion_command \in {None, "running", "finished"}
    /\ control_command \in BOOLEAN
    /\ thrown \in Exception \cup {None}
    /\ other \in CommandId \cup {NoMotion}

\* current_move_controller_mode_ has no initializer (robot_impl.h:196): any value.
ImplInit ==
    /\ command_id_ = 1
    /\ received_responses_ = [id \in CommandId |-> None]
    /\ cached = [mode |-> "kIdle", modes |-> IdleModes]
    /\ current_move \in [mg : {"kIdle"}, ctl : ControllerMode]
    /\ motion_id = NoMotion
    /\ stop_id = NoMotion
    /\ step = "returned"
    /\ resume = "returned"
    /\ motion_command = None
    /\ control_command = FALSE
    /\ thrown = None
    /\ other = NoMotion

---------------------------------------------------------------------------
(* What the operations are made of.                                        *)

motionGeneratorRunning(s) == s.modes.mg # "kIdle"
controllerRunning(s) == s.modes.ctl = "kExternalController"
Running(s) == motionGeneratorRunning(s) \/ controllerRunning(s)

\* The call in progress goes on at p, returns, or throws e.
Goto(p) == step' = p /\ UNCHANGED thrown
Return == step' = "returned" /\ thrown' = None
Throw(e) == step' = "returned" /\ thrown' = e

\* Mutant of SendRequest: the id is incremented for the header and again for the message.
SendRequest_SkipsId(c, modes) ==
    /\ toRobot' = Append(toRobot, [command |-> c, id |-> command_id_, modes |-> modes])
    /\ command_id_' = command_id_ + 2

\* Mutant of SendRequest: the id is not counted on, so that the next request has it too.
SendRequest_ReusesId(c, modes) ==
    /\ toRobot' = Append(toRobot, [command |-> c, id |-> command_id_, modes |-> modes])
    /\ UNCHANGED command_id_

\* tcpSendRequest.
SendRequest(c, modes) ==
    /\ toRobot' = Append(toRobot, [command |-> c, id |-> command_id_, modes |-> modes])
    /\ command_id_' = command_id_ + 1

\* Mutant of Emplace: room for one response only, as if the map were one buffer.
Emplace_SingleSlot(map, r) ==
    [id \in CommandId |-> IF id = r.id THEN r.status ELSE None]

\* tcpReadFromBuffer puts at most one response into the map; a response
\* whose id the map has already is dropped (unordered_map::emplace).
Emplace(map, r) == IF map[r.id] = None THEN [map EXCEPT ![r.id] = r.status] ELSE map
AfterReading(n) ==
    IF n = 0 THEN received_responses_ ELSE Emplace(received_responses_, Head(toClient))

\* One pass over the connection that leaves map to be searched.  A response
\* on its way need not have arrived, then the pass reads nothing.
Read(map) ==
    \/ map = AfterReading(0) /\ UNCHANGED toClient
    \/ toClient # <<>> /\ map = AfterReading(1) /\ toClient' = Tail(toClient)

Maps == {AfterReading(0)} \cup (IF toClient = <<>> THEN {} ELSE {AfterReading(1)})

\* One pass of tcpBlockingReceiveResponse that finds response s.
Take(id, s) ==
    \E map \in Maps :
        /\ Read(map)
        /\ map[id] = s
        /\ received_responses_' = [map EXCEPT ![id] = None]

\* One that does not, but moves a response of another command to the map.
Wait(id) ==
    /\ toClient # <<>>
    /\ Read(AfterReading(1))
    /\ AfterReading(1)[id] = None
    /\ received_responses_' = AfterReading(1)

\* Another thread is in tcpBlockingReceiveResponse, so that a try_lock may fail.
MutexContended == other # NoMotion

\* SELECT_ERROR on a connection that is gone.
Interrupted == link = "down" /\ UNCHANGED <<received_responses_, toClient>>

\* handleCommandResponse<Move>: the exception it throws for a status.
MoveException(s) ==
    CASE s = "kSuccess"       -> None
      [] s = "kMotionStarted" -> IF motionGeneratorRunning(cached) THEN "ProtocolException" ELSE None
      [] OTHER                -> "CommandException"

\* receiveRobotState: the newest state that has arrived, older ones are lost.
ReceiveState ==
    \E k \in 1 .. Len(states) :
        /\ cached' = states[k]
        /\ states' = SubSeq(states, k + 1, Len(states))

\* No state arrives for the receive timeout of the UDP socket (1 s).
Silence ==
    /\ states = <<>>
    /\ link = "down" \/ "udpSilence" \in Faults
    /\ UNCHANGED <<cached, states>>

ResetCurrentMove == current_move' = IdleModes

---------------------------------------------------------------------------
(* update(motion_command, control_command) and its parts.                  *)

\* A call of update from step (or caller) r.
CallUpdate(motion, control, r) ==
    /\ step' = "update.send"
    /\ motion_command' = motion
    /\ control_command' = control
    /\ resume' = r

\* Why sendRobotCommand refuses a command, None if it sends it.
SendException ==
    IF \/ motion_command # None /\ current_move.mg = "kIdle"
       \/ control_command /\ current_move.ctl # "kExternalController"
       \/ /\ current_move.mg # "kIdle" /\ current_move.ctl = "kExternalController"
          /\ (motion_command = None) # ~control_command
    THEN "ControlException" ELSE None

\* tcpThrowIfConnectionClosed, then sendRobotCommand.
UpdateSend ==
    /\ step = "update.send"
    /\ IF motion_command = None /\ ~control_command
       THEN Goto("update.receive") /\ UNCHANGED command
       ELSE IF SendException # None
       THEN Throw(SendException) /\ UNCHANGED command
       ELSE /\ Goto("update.receive")
            /\ command' = [id |-> motion_id, finished |-> motion_command = "finished"]
    /\ UNCHANGED <<serverVars, toRobot, toClient, states, link, command_id_, received_responses_,
                   cached, current_move, motion_id, stop_id, resume, motion_command,
                   control_command, other>>

\* The peek finds the connection closed (it is skipped if the mutex is taken),
\* or udpSend does not get the command out.
UpdateClosed ==
    /\ step = "update.send"
    /\ link = "down"
    /\ \/ toClient = <<>>
       \/ (motion_command # None \/ control_command) /\ SendException = None
    /\ Throw("NetworkException")
    /\ UNCHANGED <<serverVars, netVars, command_id_, received_responses_, cached, current_move,
                   motion_id, stop_id, resume, motion_command, control_command, other>>

\* receiveRobotState, after which update returns.
UpdateReceive ==
    /\ step = "update.receive"
    /\ \/ /\ ReceiveState
          /\ IF resume = "returned" THEN Return ELSE Goto(resume)
       \/ Silence /\ Throw("NetworkException")
    /\ UNCHANGED <<serverVars, toRobot, toClient, command, link, command_id_, received_responses_,
                   current_move, motion_id, stop_id, resume, motion_command, control_command, other>>

---------------------------------------------------------------------------
(* startMotion: the guard, the request, and its first response.            *)
CallStartMotion(modes) ==
    IF Running(cached)
    THEN /\ Throw("ControlException")
         /\ UNCHANGED <<current_move, command_id_, motion_id, toRobot>>
    ELSE /\ Goto("start.wait")
         /\ current_move' = modes
         /\ motion_id' = command_id_
         /\ SendRequest("kMove", modes)

StartWait ==
    /\ step = "start.wait"
    /\ \/ Wait(motion_id) /\ UNCHANGED <<step, thrown>>
       \/ Interrupted /\ Throw("NetworkException")
       \/ \E s \in Status :
            /\ Take(motion_id, s)
            /\ IF MoveException(s) = None THEN Goto("start.poll") ELSE Throw(MoveException(s))
    /\ UNCHANGED <<serverVars, toRobot, states, command, link, command_id_, cached, current_move,
                   motion_id, stop_id, resume, motion_command, control_command, other>>

\* Mutant of StartPoll: the loop looks at robot states only.
StartPoll_NeverPolls ==
    /\ step = "start.poll"
    /\ IF cached.modes = current_move
       THEN Return /\ UNCHANGED <<resume, motion_command, control_command>>
       ELSE CallUpdate(None, FALSE, "start.poll") /\ UNCHANGED thrown
    /\ UNCHANGED <<serverVars, netVars, command_id_, received_responses_, cached, current_move,
                   motion_id, stop_id, other>>

\* One round of the loop that waits for the robot to report the modes.
StartPoll ==
    /\ step = "start.poll"
    /\ \/ /\ cached.modes = current_move
          /\ Return
          /\ UNCHANGED <<received_responses_, toClient, resume, motion_command, control_command>>
       \/ /\ cached.modes # current_move
          /\ \/ MutexContended /\ UNCHANGED <<received_responses_, toClient>>
             \/ \E map \in Maps :
                    map[motion_id] = None /\ Read(map) /\ received_responses_' = map
          /\ CallUpdate(None, FALSE, "start.poll")
          /\ UNCHANGED thrown
       \/ /\ cached.modes # current_move
          /\ \E map \in Maps, s \in Status :
               /\ Read(map)
               /\ map[motion_id] = s
               /\ IF MoveException(s) = None
                  THEN Return /\ received_responses_' = [map EXCEPT ![motion_id] = None]
                  ELSE /\ received_responses_' = map   \* the handler throws before the erase
                       /\ Throw(IF MoveException(s) = "CommandException"
                                THEN "ControlException" ELSE MoveException(s))
          /\ UNCHANGED <<resume, motion_command, control_command>>
       \/ /\ cached.modes # current_move
          /\ Interrupted /\ Throw("NetworkException")
          /\ UNCHANGED <<resume, motion_command, control_command>>
    /\ UNCHANGED <<serverVars, toRobot, states, command, link, command_id_, cached, current_move,
                   motion_id, stop_id, other>>

---------------------------------------------------------------------------
(* throwOnMotionError: a state that does not show the current move means   *)
(* that the Move has ended and that its final response tells why.          *)
\* Mutant of MotionError: only the robot mode is looked at.
MotionError_IgnoresModes == cached.mode # "kMove"

MotionError == cached.mode # "kMove" \/ cached.modes # current_move

CallThrowOnMotionError == IF MotionError THEN Goto("error.wait") ELSE Return

ErrorWait ==
    /\ step = "error.wait"
    /\ \/ Wait(motion_id) /\ UNCHANGED <<step, thrown>>
       \/ Interrupted /\ Throw("NetworkException")
       \/ \E s \in Status :
            /\ Take(motion_id, s)
            /\ Throw(IF MoveException(s) = "CommandException"
                     THEN "ControlException" ELSE "ProtocolException")
    /\ UNCHANGED <<serverVars, toRobot, states, command, link, command_id_, cached, current_move,
                   motion_id, stop_id, resume, motion_command, control_command, other>>

---------------------------------------------------------------------------
(* finishMotion: command the end until the robot reports it, then take the *)
(* final response.                                                         *)
CallFinishMotion(control) ==
    IF ~Running(cached)
    THEN Return /\ ResetCurrentMove /\ UNCHANGED <<motion_command, control_command, resume>>
    ELSE /\ CallUpdate("finished", control, "finish.poll")
         /\ UNCHANGED <<thrown, current_move>>

FinishPoll ==
    /\ step = "finish.poll"
    /\ IF Running(cached)
       THEN CallUpdate("finished", control_command, "finish.poll")
       ELSE step' = "finish.wait" /\ UNCHANGED <<motion_command, control_command, resume>>
    /\ UNCHANGED <<serverVars, netVars, command_id_, received_responses_, cached, current_move,
                   motion_id, stop_id, thrown, other>>

\* Mutant of FinishWait: any final response is a success.
FinishWait_IgnoresStatus ==
    /\ step = "finish.wait"
    /\ \/ Wait(motion_id) /\ UNCHANGED <<step, thrown, current_move>>
       \/ (\E s \in Status : Take(motion_id, s)) /\ Return /\ ResetCurrentMove
    /\ UNCHANGED <<serverVars, toRobot, states, command, link, command_id_, cached, motion_id,
                   stop_id, resume, motion_command, control_command, other>>

\* Mutant of FinishWait: every exception is made a ControlException, not only CommandException.
FinishWait_BlamesMotion ==
    /\ step = "finish.wait"
    /\ \/ Wait(motion_id) /\ UNCHANGED <<step, thrown, current_move>>
       \/ Interrupted /\ Throw("ControlException") /\ UNCHANGED current_move
       \/ \E s \in Status :
            /\ Take(motion_id, s)
            /\ IF MoveException(s) = None
               THEN Return /\ ResetCurrentMove
               ELSE Throw("ControlException") /\ UNCHANGED current_move
    /\ UNCHANGED <<serverVars, toRobot, states, command, link, command_id_, cached, motion_id,
                   stop_id, resume, motion_command, control_command, other>>

FinishWait ==
    /\ step = "finish.wait"
    /\ \/ Wait(motion_id) /\ UNCHANGED <<step, thrown, current_move>>
       \/ Interrupted /\ Throw("NetworkException") /\ UNCHANGED current_move
       \/ \E s \in Status :
            /\ Take(motion_id, s)
            /\ IF MoveException(s) = None
               THEN Return /\ ResetCurrentMove
               ELSE /\ Throw(IF MoveException(s) = "CommandException"
                             THEN "ControlException" ELSE MoveException(s))
                    /\ UNCHANGED current_move
    /\ UNCHANGED <<serverVars, toRobot, states, command, link, command_id_, cached, motion_id,
                   stop_id, resume, motion_command, control_command, other>>

---------------------------------------------------------------------------
(* cancelMotion: stop, drain the states until the robot is idle, and throw *)
(* the Move response away if it is there.                                  *)
CallCancelMotion ==
    /\ Goto("cancel.wait")
    /\ stop_id' = command_id_
    /\ SendRequest("kStopMove", IdleModes)

CancelWait ==
    /\ step = "cancel.wait"
    /\ \/ Wait(stop_id) /\ UNCHANGED <<step, thrown>>
       \/ Interrupted /\ Throw("NetworkException")
       \/ Take(stop_id, "kSuccess") /\ Goto("cancel.receive")
       \/ \E s \in Status \ {"kSuccess"} : Take(stop_id, s) /\ Throw("ControlException")
    /\ UNCHANGED <<serverVars, toRobot, states, command, link, command_id_, cached, current_move,
                   motion_id, stop_id, resume, motion_command, control_command, other>>

\* Mutant of CancelReceive: one state is enough, whatever it shows.
CancelReceive_OneState ==
    /\ step = "cancel.receive"
    /\ ReceiveState /\ Goto("cancel.ignore")
    /\ UNCHANGED <<serverVars, toRobot, toClient, command, link, command_id_, received_responses_,
                   current_move, motion_id, stop_id, resume, motion_command, control_command, other>>

CancelReceive ==
    /\ step = "cancel.receive"
    /\ \/ ReceiveState /\ Goto(IF Running(cached') THEN "cancel.receive" ELSE "cancel.ignore")
       \/ Silence /\ Throw("NetworkException")
    /\ UNCHANGED <<serverVars, toRobot, toClient, command, link, command_id_, received_responses_,
                   current_move, motion_id, stop_id, resume, motion_command, control_command, other>>

CancelIgnore ==
    /\ step = "cancel.ignore"
    /\ \/ /\ MutexContended
          /\ UNCHANGED <<received_responses_, toClient>> /\ Return /\ ResetCurrentMove
       \/ /\ \E map \in Maps :
               Read(map) /\ received_responses_' = [map EXCEPT ![motion_id] = None]
          /\ Return /\ ResetCurrentMove
       \/ Interrupted /\ Throw("NetworkException") /\ UNCHANGED current_move
    /\ UNCHANGED <<serverVars, toRobot, states, command, link, command_id_, cached, motion_id,
                   stop_id, resume, motion_command, control_command, other>>

---------------------------------------------------------------------------
(* executeCommand in another thread: Robot::stop, automaticErrorRecovery.  *)
OtherRequest(c) ==
    /\ other = NoMotion
    /\ other' = command_id_
    /\ SendRequest(c, IdleModes)
    /\ UNCHANGED <<serverVars, toClient, states, command, link, received_responses_, cached,
                   current_move, motion_id, stop_id, step, resume, motion_command,
                   control_command, thrown>>

OtherReceive ==
    /\ other # NoMotion
    /\ \/ Wait(other) /\ UNCHANGED other
       \/ Interrupted /\ other' = NoMotion
       \/ \E s \in Status : Take(other, s) /\ other' = NoMotion
    /\ UNCHANGED <<serverVars, toRobot, states, command, link, command_id_, cached, current_move,
                   motion_id, stop_id, step, resume, motion_command, control_command, thrown>>

ImplNext ==
    \/ UpdateSend \/ UpdateClosed \/ UpdateReceive \/ StartWait \/ StartPoll \/ ErrorWait
    \/ FinishPoll \/ FinishWait \/ CancelWait \/ CancelReceive \/ CancelIgnore

---------------------------------------------------------------------------
(* Whatever Robot::Impl does with its responses, in two threads and with   *)
(* every pass of its loops in one step, are steps of the mailbox that      *)
(* Network implements, one or two in a row (Receive is a Deliver and a     *)
(* TakeFrom): it relies on nothing that reading piece by piece,            *)
(* locking and unlocking would not give it (network.h:149-259,             *)
(* robot_impl.cpp:63-96, 208-316, 393-411).                                *)
NoResponse == [id |-> NoMotion, status |-> None]
Mailbox == INSTANCE ResponseMailbox WITH
    Id <- CommandId, Message <- Response, None <- NoResponse, wire <- toClient,
    mailbox <- [id \in CommandId |->
                   IF received_responses_[id] = None THEN NoResponse
                   ELSE [id |-> id, status |-> received_responses_[id]]]
UsesMailbox == Mailbox!PassSpec
===========================================================================
