--------------------------- MODULE RobotServer ----------------------------
(***************************************************************************)
(* The robot controller libfranka talks to, modelled from how Robot::Impl  *)
(* uses it and from the behaviour its tests script: it accepts or rejects  *)
(* a Move, answers an accepted Move twice under the same command id (when  *)
(* it starts and when it ends), streams its state over UDP, and answers    *)
(* StopMove and AutomaticErrorRecovery.  TCP keeps order; UDP states may   *)
(* be delayed, lost and overtaken, and TCP and UDP are not ordered with    *)
(* respect to each other.                                                  *)
(***************************************************************************)
EXTENDS Integers, Sequences

CONSTANTS MoveModes,     \* the modes a Move request can ask for
          MaxCommands,   \* bound: command ids used in a behaviour
          MaxStates,     \* bound: robot states in flight
          Faults         \* what may go wrong: "linkLoss", "udpSilence"

\* rbk_types.h:13-36, with the values the protocol distinguishes.
MotionGeneratorMode ==
    {"kIdle", "kJointPosition", "kJointVelocity", "kCartesianPosition", "kCartesianVelocity"}
ControllerMode == {"kJointImpedance", "kCartesianImpedance", "kExternalController", "kOther"}
RobotMode == {"kIdle", "kMove", "kReflex"}

Modes == [mg : MotionGeneratorMode, ctl : ControllerMode]
IdleModes == [mg |-> "kIdle", ctl |-> "kOther"]

ASSUME MoveModesAssumption ==
    MoveModes \subseteq [mg : MotionGeneratorMode \ {"kIdle"}, ctl : ControllerMode \ {"kOther"}]
ASSUME BoundsAssumption == MaxCommands \in Nat \ {0} /\ MaxStates \in Nat \ {0}
ASSUME FaultsAssumption == Faults \subseteq {"linkLoss", "udpSilence"}

Command == {"kMove", "kStopMove", "kAutomaticErrorRecovery"}

\* service_types.h:146-159: how a Move can end, grouped by who ends it.
Rejection == {"kCommandNotPossibleRejected", "kStartAtSingularPoseRejected"}
MoveEnd == Rejection \cup {"kSuccess", "kPreempted", "kReflexAborted"}
Status == MoveEnd \cup {"kMotionStarted"}

CommandId == 1 .. MaxCommands
None == "none"            \* no response yet, no motion, no exception
NoMotion == 0             \* command id 0 is the one of Connect, never of a Move

State == [mode : RobotMode, modes : Modes]
Request == [command : Command, id : CommandId, modes : Modes]
Response == [id : CommandId, status : Status]
NoCommand == [id |-> NoMotion, finished |-> FALSE]

VARIABLES phase,      \* "idle", "accepted", "moving", "settling" or "reflex"
          active,     \* the Move in execution, or the last one
          demanded,   \* the modes that Move asked for
          rest,       \* the phase a settling robot comes to
          final,      \* history: the final response of each Move
          toRobot,    \* requests on the TCP connection
          toClient,   \* responses on the TCP connection
          states,     \* robot states in flight over UDP, oldest first
          command,    \* the newest robot command in flight over UDP
          link        \* "up" or "down"

serverVars == <<phase, active, demanded, rest, final>>
netVars == <<toRobot, toClient, states, command, link>>

ServerTypeOK ==
    /\ phase \in {"idle", "accepted", "moving", "settling", "reflex"}
    /\ active \in CommandId \cup {NoMotion}
    /\ demanded \in Modes
    /\ rest \in {"idle", "reflex"}
    /\ final \in [CommandId -> MoveEnd \cup {None}]
    /\ toRobot \in Seq(Request)
    /\ toClient \in Seq(Response)
    /\ states \in Seq(State)
    /\ command \in [id : CommandId \cup {NoMotion}, finished : BOOLEAN]
    /\ link \in {"up", "down"}

ServerInit ==
    /\ phase = "idle"
    /\ active = NoMotion
    /\ demanded = IdleModes
    /\ rest = "idle"
    /\ final = [id \in CommandId |-> None]
    /\ toRobot = <<>>
    /\ toClient = <<>>
    /\ states = <<>>
    /\ command = NoCommand
    /\ link = "up"

---------------------------------------------------------------------------
(* What a state sent in each phase may show.  While a motion ends, the     *)
(* motion generator and the controller stop one after the other, and the   *)
(* robot mode is the last to change.                                       *)
Shown ==
    CASE phase \in {"idle", "accepted"} -> {[mode |-> "kIdle", modes |-> IdleModes]}
      [] phase = "moving"   -> {[mode |-> "kMove", modes |-> demanded]}
      [] phase = "settling" -> [mode : {"kMove"},
                                modes : [mg : {demanded.mg, "kIdle"}, ctl : {demanded.ctl, "kOther"}]]
      [] phase = "reflex"   -> {[mode |-> "kReflex", modes |-> IdleModes]}

PublishState ==
    /\ link = "up"
    /\ Len(states) < MaxStates
    /\ \E s \in Shown : states' = Append(states, s)
    /\ UNCHANGED <<serverVars, toRobot, toClient, command, link>>

\* Responses r, in this order, to the request at the head of toRobot.
Answer(r) ==
    /\ toRobot' = Tail(toRobot)
    /\ toClient' = toClient \o r
    /\ UNCHANGED <<states, command, link>>

Reply(id, status) == <<[id |-> id, status |-> status]>>

Requested(c) == link = "up" /\ toRobot # <<>> /\ Head(toRobot).command = c

AcceptMove ==
    LET request == Head(toRobot) IN
    /\ Requested("kMove")
    /\ phase = "idle"
    /\ phase' = "accepted"
    /\ active' = request.id
    /\ demanded' = request.modes
    /\ Answer(Reply(request.id, "kMotionStarted"))
    /\ UNCHANGED <<rest, final>>

RejectMove ==
    LET request == Head(toRobot) IN
    /\ Requested("kMove")
    /\ \E s \in Rejection :
         /\ final' = [final EXCEPT ![request.id] = s]
         /\ Answer(Reply(request.id, s))
    /\ UNCHANGED <<phase, active, demanded, rest>>

\* The accepted Move starts to move the robot.
BeginMove ==
    /\ link = "up"
    /\ phase = "accepted"
    /\ phase' = "moving"
    /\ UNCHANGED <<active, demanded, rest, final, netVars>>

\* The Move in execution ends with status s and is answered a second time.
EndMove(s, p) ==
    /\ final' = [final EXCEPT ![active] = s]
    /\ rest' = p
    /\ phase' = IF phase = "moving" THEN "settling" ELSE p
    /\ UNCHANGED <<active, demanded>>

\* A reflex, a rejection after the first response, or a loss of the client.
AbortMove ==
    /\ link = "up"
    /\ \/ phase = "accepted" /\ EndMove("kStartAtSingularPoseRejected", "idle")
       \/ phase \in {"accepted", "moving"} /\ EndMove("kReflexAborted", "reflex")
    /\ toClient' = toClient \o Reply(active, final'[active])
    /\ UNCHANGED <<toRobot, states, command, link>>

\* The client commanded motion_generation_finished for this Move.
CompleteMove ==
    /\ link = "up"
    /\ phase = "moving"
    /\ command = [id |-> active, finished |-> TRUE]
    /\ EndMove("kSuccess", "idle")
    /\ toClient' = toClient \o Reply(active, "kSuccess")
    /\ command' = NoCommand
    /\ UNCHANGED <<toRobot, states, link>>

Settle ==
    /\ link = "up"
    /\ phase = "settling"
    /\ phase' = rest
    /\ UNCHANGED <<active, demanded, rest, final, netVars>>

\* StopMove during a motion: the preempted Move is answered as well, before
\* or after the StopMove.
StopRunningMove ==
    LET id == Head(toRobot).id
        stopped == Reply(id, "kSuccess")
        preempted == Reply(active, "kPreempted")
    IN
    /\ Requested("kStopMove")
    /\ phase \in {"accepted", "moving"}
    /\ EndMove("kPreempted", "idle")
    /\ Answer(preempted \o stopped) \/ Answer(stopped \o preempted)

\* StopMove without a motion, and AutomaticErrorRecovery.
StopNothing ==
    /\ Requested("kStopMove")
    /\ phase \notin {"accepted", "moving"}
    /\ \E s \in {"kSuccess", "kCommandNotPossibleRejected"} : Answer(Reply(Head(toRobot).id, s))
    /\ UNCHANGED serverVars

Recover ==
    /\ Requested("kAutomaticErrorRecovery")
    /\ IF phase = "reflex"
       THEN phase' = "idle" /\ Answer(Reply(Head(toRobot).id, "kSuccess"))
       ELSE UNCHANGED phase /\ Answer(Reply(Head(toRobot).id, "kCommandNotPossibleRejected"))
    /\ UNCHANGED <<active, demanded, rest, final>>

\* The robot is switched off or the cable is pulled: nothing is sent any more.
LoseLink ==
    /\ "linkLoss" \in Faults
    /\ link = "up"
    /\ link' = "down"
    /\ UNCHANGED <<serverVars, toRobot, toClient, states, command>>

ServerAnswer == AcceptMove \/ RejectMove \/ StopRunningMove \/ StopNothing \/ Recover

ServerNext ==
    \/ ServerAnswer
    \/ PublishState \/ BeginMove \/ AbortMove \/ CompleteMove \/ Settle \/ LoseLink
===========================================================================
