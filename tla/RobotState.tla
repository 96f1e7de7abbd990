----------------------------- MODULE RobotState ---------------------------
(***************************************************************************)
(* franka::RobotState and how it is made from the state the robot sends:   *)
(* most fields are copied, the load is combined from end effector and      *)
(* external load.                                                          *)
(*                                                                         *)
(* A wire state is a function from field names to values.  Of mass points, *)
(* centres of mass and inertias one dimension is modelled, the distance    *)
(* from an axis and the inertia about it, in which -skew(c) * skew(c) is   *)
(* c * c.  A quotient is a pair <<numerator, denominator>>.                *)
(***************************************************************************)
EXTENDS Integers

\* The fields of franka::RobotState.
PoseFields == {"O_T_EE", "O_T_EE_d", "F_T_EE", "F_T_NE", "NE_T_EE", "EE_T_K"}
LoadFields == {"m_ee", "I_ee", "F_x_Cee", "m_load", "I_load", "F_x_Cload",
               "m_total", "I_total", "F_x_Ctotal"}
JointFields == {"elbow", "elbow_d", "elbow_c", "delbow_c", "ddelbow_c", "tau_J", "tau_J_d",
                "dtau_J", "q", "q_d", "dq", "dq_d", "ddq_d"}
ContactFields == {"joint_contact", "cartesian_contact", "joint_collision", "cartesian_collision",
                  "tau_ext_hat_filtered", "O_F_ext_hat_K", "K_F_ext_hat_K"}
MotionFields == {"O_dP_EE_d", "O_ddP_O", "O_T_EE_c", "O_dP_EE_c", "O_ddP_EE_c", "theta", "dtheta",
                 "current_errors", "last_motion_errors", "control_command_success_rate",
                 "robot_mode", "time"}
RobotStateFields == PoseFields \cup LoadFields \cup JointFields \cup ContactFields \cup MotionFields

---------------------------------------------------------------------------
combineCenterOfMass(m_ee, F_x_Cee, m_load, F_x_Cload) ==
    IF m_ee + m_load > 0
    THEN <<m_ee * F_x_Cee + m_load * F_x_Cload, m_ee + m_load>>
    ELSE <<0, 1>>

\* Mutant of combineInertiaTensor: the inertia of a massless load counts.
combineInertiaTensor_Massless(m_ee, F_x_Cee, I_ee, m_load, F_x_Cload, I_load, m_total, F_x_Ctotal) ==
    LET flange == (I_ee + m_ee * F_x_Cee * F_x_Cee) + (I_load + m_load * F_x_Cload * F_x_Cload)
        n == F_x_Ctotal[1]
        d == F_x_Ctotal[2]
    IN IF m_total = 0 THEN <<0, 1>> ELSE <<flange * d * d - m_total * n * n, d * d>>

\* Both inertias are moved to the flange, added, and moved to the common
\* centre of mass.
combineInertiaTensor(m_ee, F_x_Cee, I_ee, m_load, F_x_Cload, I_load, m_total, F_x_Ctotal) ==
    LET inertia_ee == IF m_ee = 0 THEN 0 ELSE I_ee
        inertia_load == IF m_load = 0 THEN 0 ELSE I_load
        flange == (inertia_ee + m_ee * F_x_Cee * F_x_Cee)
                  + (inertia_load + m_load * F_x_Cload * F_x_Cload)
        n == F_x_Ctotal[1]
        d == F_x_Ctotal[2]
    IN IF m_total = 0 THEN <<0, 1>> ELSE <<flange * d * d - m_total * n * n, d * d>>

---------------------------------------------------------------------------
\* The fields that convertRobotState copies from the wire field of the same
\* name (robot_mode through a switch with a case for each mode) ...
Copied ==
    {"O_T_EE", "O_T_EE_d", "F_T_NE", "NE_T_EE", "F_T_EE", "EE_T_K", "m_ee", "F_x_Cee", "I_ee",
     "m_load", "F_x_Cload", "I_load", "elbow", "elbow_d", "elbow_c", "delbow_c", "ddelbow_c",
     "tau_J", "tau_J_d", "dtau_J", "q", "dq", "q_d", "dq_d", "ddq_d", "joint_contact",
     "cartesian_contact", "joint_collision", "cartesian_collision", "tau_ext_hat_filtered",
     "O_F_ext_hat_K", "K_F_ext_hat_K", "O_dP_EE_d", "O_ddP_O", "O_T_EE_c", "O_dP_EE_c",
     "O_ddP_EE_c", "theta", "dtheta", "control_command_success_rate", "robot_mode"}

\* ... and those it takes from a field of another name.
Renamed == [current_errors |-> "errors", last_motion_errors |-> "reflex_reason",
            time |-> "message_id"]

WireFields == Copied \cup {Renamed[f] : f \in DOMAIN Renamed}
              \cup {"motion_generator_mode", "controller_mode"}

convertRobotState(s) ==
    LET m_total == s["m_ee"] + s["m_load"]
        F_x_Ctotal == combineCenterOfMass(s["m_ee"], s["F_x_Cee"], s["m_load"], s["F_x_Cload"])
        I_total == combineInertiaTensor(s["m_ee"], s["F_x_Cee"], s["I_ee"], s["m_load"],
                                        s["F_x_Cload"], s["I_load"], m_total, F_x_Ctotal)
    IN [f \in Copied \cup DOMAIN Renamed \cup {"m_total", "F_x_Ctotal", "I_total"} |->
            CASE f \in DOMAIN Renamed -> s[Renamed[f]]
              [] f = "m_total" -> m_total
              [] f = "F_x_Ctotal" -> F_x_Ctotal
              [] f = "I_total" -> I_total
              [] f \in Copied -> s[f]]
===========================================================================
