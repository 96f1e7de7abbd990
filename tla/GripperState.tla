---------------------------- MODULE GripperState --------------------------
(***************************************************************************)
(* franka::GripperState and franka::VacuumGripperState and how they are    *)
(* made from what the devices send.  A wire state is a function from field *)
(* names to values.                                                        *)
(***************************************************************************)
EXTENDS Integers

\* The fields a caller of readOnce finds.
GripperFields == {"width", "max_width", "is_grasped", "temperature", "time"}
VacuumGripperFields == {"in_control_range", "part_detached", "part_present", "device_status",
                        "actual_power", "vacuum", "time"}

\* The fields on the wire.
GripperWire == {"message_id", "width", "max_width", "is_grasped", "temperature"}
VacuumGripperWire == {"message_id", "in_control_range", "part_detached", "part_present",
                      "device_status", "actual_power", "vacuum"}

\* time is made from message_id.
convertGripperState(s) ==
    [f \in {"width", "max_width", "is_grasped", "temperature", "time"} |->
        IF f = "time" THEN s["message_id"] ELSE s[f]]

\* The switch over device_status has a case for each status; two numbers are
\* int32_t on the wire and uint16_t in the state.
convertVacuumGripperState(s) ==
    [f \in {"in_control_range", "part_detached", "part_present", "device_status",
            "actual_power", "vacuum", "time"} |->
        CASE f = "time" -> s["message_id"]
          [] f \in {"actual_power", "vacuum"} -> s[f] % 2^16
          [] OTHER -> s[f]]
===========================================================================
