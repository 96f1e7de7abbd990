--------------------------- MODULE RateLimiting ---------------------------
(***************************************************************************)
(* franka::limitRate and franka::lowpassFilter for one number of a         *)
(* command, with kDeltaT as the unit of time.  Numbers are integers: the   *)
(* quotient in the acceleration limits is rounded to the inside of the     *)
(* limit and kLimitEps, which is there for such rounding, is left out.     *)
(* A Cartesian vector is followed along a line, where its norm is the      *)
(* absolute value.                                                         *)
(***************************************************************************)
EXTENDS Integers

CONSTANTS MaxJerk,                \* kMaxJointJerk, kMaxTranslationalJerk, ...
          RobotVelocityLimit,     \* what the robot enforces: 2.1750 rad/s, 2.0000 m/s, ...
          kTolNumberPacketsLost,
          MaxTorqueRate,          \* kMaxTorqueRate
          SampleRate,             \* 1 / kDeltaT, in samples per second
          GainNumerator, GainDenominator  \* the low-pass gain, between 0 and 1

\* Every kMax...Acceleration is kMax...Jerk * 2 ms, that is two sample times.
MaxAcceleration == 2 * MaxJerk
\* kJointVelocityLimitsTolerance.
Tolerance == kTolNumberPacketsLost * MaxAcceleration
\* Mutant of computeUpperLimitsJointVelocity: no room for lost packets.
computeUpperLimitsJointVelocity_NoTolerance == RobotVelocityLimit
computeUpperLimitsJointVelocity == RobotVelocityLimit - Tolerance
computeLowerLimitsJointVelocity == -(RobotVelocityLimit - Tolerance)
\* kMaxTranslationalVelocity, kMaxRotationalVelocity.
MaxCartesianVelocity == RobotVelocityLimit - Tolerance
\* kMaxElbowVelocity.
MaxElbowVelocity == RobotVelocityLimit - Tolerance

ASSUME JerkAssumption == MaxJerk \in Nat \ {0} /\ MaxTorqueRate \in Nat
ASSUME SampleAssumption == SampleRate \in Nat \ {0}
ASSUME ToleranceAssumption == kTolNumberPacketsLost \in 0 .. 3
\* Leaving the upper limit for the lower one takes more than two sample times.
ASSUME VelocityAssumption ==
    RobotVelocityLimit \in Int /\ RobotVelocityLimit - Tolerance >= 2 * MaxAcceleration
ASSUME GainAssumption ==
    /\ GainNumerator \in Nat /\ GainDenominator \in Nat
    /\ 0 < GainNumerator /\ GainNumerator <= GainDenominator

min(a, b) == IF a <= b THEN a ELSE b
max(a, b) == IF a >= b THEN a ELSE b
Abs(a) == IF a < 0 THEN -a ELSE a

---------------------------------------------------------------------------
\* limitRate for torques: by their derivative alone.
limitTorqueRate(commanded, last) ==
    last + max(min(commanded - last, MaxTorqueRate), -MaxTorqueRate)

\* Mutant of limitRate: the velocity limits alone bound the velocity.
limitRate_VelocityOnly(upper_limits_velocity, lower_limits_velocity, max_acceleration, max_jerk, commanded_velocity, last_commanded_velocity, last_commanded_acceleration) ==
    LET jerk == commanded_velocity - last_commanded_velocity - last_commanded_acceleration
    IN  max(min(last_commanded_velocity + last_commanded_acceleration
                  + max(min(jerk, max_jerk), -max_jerk),
                upper_limits_velocity),
            lower_limits_velocity)

\* Mutant of limitRate: the limits near the maximum velocity are not capped
\* by the maximum acceleration.
limitRate_NoCap(upper_limits_velocity, lower_limits_velocity, max_acceleration, max_jerk, commanded_velocity, last_commanded_velocity, last_commanded_acceleration) ==
    LET jerk == commanded_velocity - last_commanded_velocity - last_commanded_acceleration
        safe(distance) == (max_jerk * distance) \div max_acceleration
    IN  last_commanded_velocity
          + max(min(last_commanded_acceleration + max(min(jerk, max_jerk), -max_jerk),
                    safe(upper_limits_velocity - last_commanded_velocity)),
                -safe(last_commanded_velocity - lower_limits_velocity))

\* limitRate for one joint velocity; the parameters are those of the code.
limitRate(upper_limits_velocity, lower_limits_velocity, max_acceleration, max_jerk, commanded_velocity, last_commanded_velocity, last_commanded_acceleration) ==
    LET commanded_jerk == commanded_velocity - last_commanded_velocity - last_commanded_acceleration
        commanded_acceleration ==
            last_commanded_acceleration + max(min(commanded_jerk, max_jerk), -max_jerk)
        safe_max_acceleration ==
            min((max_jerk * (upper_limits_velocity - last_commanded_velocity)) \div max_acceleration,
                max_acceleration)
        safe_min_acceleration ==
            max(-((max_jerk * (last_commanded_velocity - lower_limits_velocity)) \div max_acceleration),
                -max_acceleration)
    IN  last_commanded_velocity
          + max(min(commanded_acceleration, safe_max_acceleration), safe_min_acceleration)

\* limitRate for one joint position.
limitPositionRate(upper_limits_velocity, lower_limits_velocity, max_acceleration, max_jerk, commanded_position, last_position, last_velocity, last_acceleration) ==
    last_position + limitRate(upper_limits_velocity, lower_limits_velocity, max_acceleration,
                              max_jerk, commanded_position - last_position,
                              last_velocity, last_acceleration)

\* limitRate for the vector of a Cartesian velocity: only the limit in the
\* direction of the acceleration is computed.
limitVectorRate(max_velocity, max_acceleration, max_jerk, commanded, last, last_acceleration) ==
    LET commanded_jerk == commanded - last - last_acceleration
        commanded_acceleration ==
            last_acceleration + max(min(commanded_jerk, max_jerk), -max_jerk)
        unit == IF commanded_acceleration < 0 THEN -1 ELSE 1
        distance_to_max_velocity == max_velocity - unit * last
        safe_max_acceleration ==
            min((max_jerk * distance_to_max_velocity) \div max_acceleration, max_acceleration)
    IN  IF commanded_acceleration = 0 THEN last
        ELSE last + unit * min(Abs(commanded_acceleration), safe_max_acceleration)

\* limitRate for the translation of a Cartesian pose: differentiate, limit, integrate.
limitPoseRate(commanded, last, last_velocity, last_acceleration) ==
    last + limitVectorRate(MaxCartesianVelocity, MaxAcceleration, MaxJerk, commanded - last,
                           last_velocity, last_acceleration)

\* lowpassFilter: a mean of the new and the last value, rounded to the last.
lowpassFilter(y, y_last) ==
    IF y >= y_last THEN y_last + ((GainNumerator * (y - y_last)) \div GainDenominator)
                   ELSE y_last - ((GainNumerator * (y_last - y)) \div GainDenominator)
===========================================================================
