--------------------------- MODULE ModelLibrary ---------------------------
(***************************************************************************)
(* franka::Model on top of the functions of the model library: which       *)
(* symbol each member of ModelLibrary is loaded from, and which member     *)
(* each of the three switches over the frames calls with which arguments.  *)
(*                                                                         *)
(* What a function computes is named, not calculated: a product of         *)
(* transformations is the sequence of its factors.                         *)
(***************************************************************************)
EXTENDS RobotState, Sequences

\* The enum Frame, in its order.
kJoint1 == 0
kFlange == 7
kEndEffector == 8
kStiffness == 9
Frame == kJoint1 .. kStiffness

\* The symbol of each member: O_T_Jn is the pose of body n in the base frame,
\* Ji_J_Jn and O_J_Jn are its Jacobian in its own and in the base frame.
Symbol ==
    [joint1 |-> <<"O_T_J", 1>>, joint2 |-> <<"O_T_J", 2>>, joint3 |-> <<"O_T_J", 3>>,
     joint4 |-> <<"O_T_J", 4>>, joint5 |-> <<"O_T_J", 5>>, joint6 |-> <<"O_T_J", 6>>,
     joint7 |-> <<"O_T_J", 7>>, flange |-> <<"O_T_J", 8>>, ee |-> <<"O_T_J", 9>>,
     body_jacobian_joint1 |-> <<"Ji_J_J", 1>>, body_jacobian_joint2 |-> <<"Ji_J_J", 2>>,
     body_jacobian_joint3 |-> <<"Ji_J_J", 3>>, body_jacobian_joint4 |-> <<"Ji_J_J", 4>>,
     body_jacobian_joint5 |-> <<"Ji_J_J", 5>>, body_jacobian_joint6 |-> <<"Ji_J_J", 6>>,
     body_jacobian_joint7 |-> <<"Ji_J_J", 7>>, body_jacobian_flange |-> <<"Ji_J_J", 8>>,
     body_jacobian_ee |-> <<"Ji_J_J", 9>>,
     zero_jacobian_joint1 |-> <<"O_J_J", 1>>, zero_jacobian_joint2 |-> <<"O_J_J", 2>>,
     zero_jacobian_joint3 |-> <<"O_J_J", 3>>, zero_jacobian_joint4 |-> <<"O_J_J", 4>>,
     zero_jacobian_joint5 |-> <<"O_J_J", 5>>, zero_jacobian_joint6 |-> <<"O_J_J", 6>>,
     zero_jacobian_joint7 |-> <<"O_J_J", 7>>, zero_jacobian_flange |-> <<"O_J_J", 8>>,
     zero_jacobian_ee |-> <<"O_J_J", 9>>]

\* What the function of a member computes from the configuration q, if it gets
\* one, and the transformation ee, which only the functions with number 9 get:
\* they are about what is that far from body 8, the flange.
Compute(member, q, ee) ==
    LET of == Symbol[member][1]
        n == Symbol[member][2]
    IN [of |-> of, q |-> q, body |-> IF n = 9 THEN 8 ELSE n, ee |-> ee]

\* The three switches.
pose(frame, s) ==
    LET q == <<s["q"]>> IN
    CASE frame = kEndEffector -> Compute("ee", q, <<s["F_T_EE"]>>)
      [] frame = kStiffness -> Compute("ee", q, <<s["F_T_EE"], s["EE_T_K"]>>)
      [] OTHER -> Compute(<<"joint1", "joint2", "joint3", "joint4", "joint5", "joint6", "joint7",
                            "flange">>[frame + 1], q, <<>>)

bodyJacobian(frame, s) ==
    LET q == <<s["q"]>> IN
    CASE frame = kJoint1 -> Compute("body_jacobian_joint1", <<>>, <<>>)
      [] frame = kEndEffector -> Compute("body_jacobian_ee", q, <<s["F_T_EE"]>>)
      [] frame = kStiffness -> Compute("body_jacobian_ee", q, <<s["F_T_EE"], s["EE_T_K"]>>)
      [] OTHER -> Compute(<<"body_jacobian_joint2", "body_jacobian_joint3", "body_jacobian_joint4",
                            "body_jacobian_joint5", "body_jacobian_joint6", "body_jacobian_joint7",
                            "body_jacobian_flange">>[frame], q, <<>>)

\* Mutant of zeroJacobian: the case of the stiffness frame is a copy of the
\* end effector's.
zeroJacobian_Copied(frame, s) ==
    LET q == <<s["q"]>> IN
    CASE frame = kJoint1 -> Compute("zero_jacobian_joint1", <<>>, <<>>)
      [] frame \in {kEndEffector, kStiffness} -> Compute("zero_jacobian_ee", q, <<s["F_T_EE"]>>)
      [] OTHER -> Compute(<<"zero_jacobian_joint2", "zero_jacobian_joint3", "zero_jacobian_joint4",
                            "zero_jacobian_joint5", "zero_jacobian_joint6", "zero_jacobian_joint7",
                            "zero_jacobian_flange">>[frame], q, <<>>)

zeroJacobian(frame, s) ==
    LET q == <<s["q"]>> IN
    CASE frame = kJoint1 -> Compute("zero_jacobian_joint1", <<>>, <<>>)
      [] frame = kEndEffector -> Compute("zero_jacobian_ee", q, <<s["F_T_EE"]>>)
      [] frame = kStiffness -> Compute("zero_jacobian_ee", q, <<s["F_T_EE"], s["EE_T_K"]>>)
      [] OTHER -> Compute(<<"zero_jacobian_joint2", "zero_jacobian_joint3", "zero_jacobian_joint4",
                            "zero_jacobian_joint5", "zero_jacobian_joint6", "zero_jacobian_joint7",
                            "zero_jacobian_flange">>[frame], q, <<>>)

\* The parameters that mass, coriolis and gravity get from a robot state.
mass(s) == [q |-> s["q"], I_load |-> s["I_total"], m_load |-> s["m_total"],
            F_x_Cload |-> s["F_x_Ctotal"]]
coriolis(s) == [q |-> s["q"], dq |-> s["dq"], I_load |-> s["I_total"],
                m_load |-> s["m_total"], F_x_Cload |-> s["F_x_Ctotal"]]
gravity(s) == [q |-> s["q"], g_earth |-> s["O_ddP_O"], m_load |-> s["m_total"],
               F_x_Cload |-> s["F_x_Ctotal"]]
===========================================================================
