---------------------------- MODULE ServiceTypes --------------------------
(***************************************************************************)
(* The commands of the robot, the gripper and the vacuum gripper, the      *)
(* statuses their responses can have (research_interface), and what the    *)
(* library makes of each: a return value or an exception.  The robot's     *)
(* Move is in RobotImpl.                                                   *)
(***************************************************************************)

Device == {"robot", "gripper", "vacuum_gripper"}

Setters == {"SetCollisionBehavior", "SetJointImpedance", "SetCartesianImpedance",
            "SetGuidingMode", "SetEEToK", "SetNEToEE", "SetLoad"}
RobotCommand == Setters \cup {"StopMove", "AutomaticErrorRecovery", "LoadModelLibrary"}
GripperCommand == {"Homing", "Grasp", "Move", "Stop"}
VacuumGripperCommand == {"Vacuum", "DropOff", "Stop"}

Commands(device) ==
    CASE device = "robot" -> RobotCommand
      [] device = "gripper" -> GripperCommand
      [] device = "vacuum_gripper" -> VacuumGripperCommand

---------------------------------------------------------------------------
(* The statuses.                                                           *)

GetterSetterStatus == {"kSuccess", "kCommandNotPossibleRejected", "kInvalidArgumentRejected",
                       "kCommandRejectedDueToActivatedSafetyFunctions"}
ConnectStatus == {"kSuccess", "kIncompatibleLibraryVersion"}
StopMoveStatus == {"kSuccess", "kCommandNotPossibleRejected", "kEmergencyAborted",
                   "kReflexAborted", "kAborted", "kCommandRejectedDueToActivatedSafetyFunctions"}
RecoveryStatus == {"kSuccess", "kCommandNotPossibleRejected", "kManualErrorRecoveryRequiredRejected",
                   "kReflexAborted", "kEmergencyAborted", "kAborted",
                   "kCommandRejectedDueToActivatedSafetyFunctions"}
LoadModelStatus == {"kSuccess", "kError"}
GripperStatus == {"kSuccess", "kFail", "kUnsuccessful", "kAborted"}
VacuumGripperStatus == {"kSuccess", "kFail", "kUnsuccessful", "kAborted"}

Status(device, command) ==
    CASE command = "Connect" -> ConnectStatus
      [] device = "gripper" -> GripperStatus
      [] device = "vacuum_gripper" -> VacuumGripperStatus
      [] command \in Setters -> GetterSetterStatus
      [] command = "StopMove" -> StopMoveStatus
      [] command = "AutomaticErrorRecovery" -> RecoveryStatus
      [] command = "LoadModelLibrary" -> LoadModelStatus

---------------------------------------------------------------------------
(* The handlers of the responses.                                          *)

connect(status) ==
    CASE status = "kSuccess" -> "returns"
      [] status = "kIncompatibleLibraryVersion" -> "IncompatibleVersionException"
      [] OTHER -> "ProtocolException"

\* Mutant of executeGripperCommand: an unsuccessful command counts as done.
executeGripperCommand_Optimistic(status) ==
    CASE status \in {"kSuccess", "kUnsuccessful"} -> "true"
      [] status \in {"kFail", "kAborted"} -> "CommandException"
      [] OTHER -> "ProtocolException"

executeGripperCommand(status) ==
    CASE status = "kSuccess" -> "true"
      [] status = "kUnsuccessful" -> "false"
      [] status \in {"kFail", "kAborted"} -> "CommandException"
      [] OTHER -> "ProtocolException"

executeVacuumGripperCommand(status) ==
    CASE status = "kSuccess" -> "true"
      [] status = "kUnsuccessful" -> "false"
      [] status \in {"kFail", "kAborted"} -> "CommandException"
      [] OTHER -> "ProtocolException"

handleGetterSetterResponse(status) ==
    CASE status = "kSuccess" -> "returns"
      [] status \in {"kCommandNotPossibleRejected", "kInvalidArgumentRejected",
                     "kCommandRejectedDueToActivatedSafetyFunctions"} -> "CommandException"
      [] OTHER -> "ProtocolException"

\* Mutant of handleStopMoveResponse: no case for a stop that was aborted.
handleStopMoveResponse_NotAborted(status) ==
    CASE status = "kSuccess" -> "returns"
      [] status \in {"kCommandNotPossibleRejected", "kEmergencyAborted", "kReflexAborted",
                     "kCommandRejectedDueToActivatedSafetyFunctions"} -> "CommandException"
      [] OTHER -> "ProtocolException"

handleStopMoveResponse(status) ==
    CASE status = "kSuccess" -> "returns"
      [] status \in {"kCommandNotPossibleRejected", "kAborted", "kEmergencyAborted",
                     "kReflexAborted",
                     "kCommandRejectedDueToActivatedSafetyFunctions"} -> "CommandException"
      [] OTHER -> "ProtocolException"

handleRecoveryResponse(status) ==
    CASE status = "kSuccess" -> "returns"
      [] status \in {"kEmergencyAborted", "kReflexAborted", "kCommandNotPossibleRejected",
                     "kManualErrorRecoveryRequiredRejected", "kAborted",
                     "kCommandRejectedDueToActivatedSafetyFunctions"} -> "CommandException"
      [] OTHER -> "ProtocolException"

\* What the caller of command gets for a response with this status.
Outcome(device, command, status) ==
    CASE device = "gripper" -> executeGripperCommand(status)
      [] device = "vacuum_gripper" -> executeVacuumGripperCommand(status)
      [] command \in Setters -> handleGetterSetterResponse(status)
      [] command = "StopMove" -> handleStopMoveResponse(status)
      [] command = "AutomaticErrorRecovery" -> handleRecoveryResponse(status)
===========================================================================
