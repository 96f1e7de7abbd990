------------------------ MODULE RateLimitingProofs ------------------------
(***************************************************************************)
(* For every jerk, velocity limit and number of tolerated losses: what the *)
(* robot desires stays inside its velocity, acceleration and jerk limits,  *)
(* and nothing that is invalid is sent.                                    *)
(*                                                                         *)
(* The key is that both forms of limitRate (for a joint, for a Cartesian   *)
(* vector) leave as much room below the velocity limit as the acceleration *)
(* they choose: v + 2d <= U for a step d > 0.  Extrapolating that step     *)
(* over the lost packets then uses up at most (lost - 1) * d above U.      *)
(***************************************************************************)
EXTENDS CommandConversion, TLAPS

U == RobotVelocityLimit - Tolerance
\* What the extrapolation of lost packets can add to U.
Excess == IF kTolNumberPacketsLost = 0 THEN 0
          ELSE (kTolNumberPacketsLost - 1) * MaxAcceleration

---------------------------------------------------------------------------
(* Integers.                                                               *)

\* Halving the distance to a limit, as J / A = 1/2 does.
LEMMA HalfOfDistance ==
    ASSUME NEW w \in Int
    PROVE  /\ (MaxJerk * w) \div MaxAcceleration \in Int
           /\ 2 * ((MaxJerk * w) \div MaxAcceleration) <= w
           /\ w <= 2 * ((MaxJerk * w) \div MaxAcceleration) + 1
<1> DEFINE q == (MaxJerk * w) \div MaxAcceleration
<1>1. MaxJerk \in Nat /\ MaxJerk > 0 /\ MaxAcceleration = 2 * MaxJerk
  BY JerkAssumption DEF MaxAcceleration
<1>2. MaxJerk * w \in Int /\ MaxAcceleration \in Int /\ MaxAcceleration > 0
  BY <1>1
<1>3. q \in Int /\ MaxAcceleration * q <= MaxJerk * w /\ MaxJerk * w < MaxAcceleration * (q + 1)
  <2> DEFINE d == MaxAcceleration  n == MaxJerk * w
  <2>1. \A m \in Int, k \in Int : k > 0 =>
           /\ m \div k \in Int
           /\ k * (m \div k) <= m
           /\ m < k * ((m \div k) + 1)
    BY Z3
  <2> QED BY <2>1, <1>2
<1>4. /\ MaxJerk * (2 * q) <= MaxJerk * w
      /\ MaxJerk * w < MaxJerk * (2 * q + 2)
  BY <1>1, <1>3
<1>5. \A j \in Int, x \in Int, y \in Int : j > 0 /\ j * x <= j * y => x <= y
  BY Z3
<1>6. \A j \in Int, x \in Int, y \in Int : j > 0 /\ j * x < j * y => x < y
  BY Z3
<1>7. 2 * q <= w
  BY <1>1, <1>3, <1>4, <1>5
<1>8. w < 2 * q + 2
  BY <1>1, <1>3, <1>4, <1>6
<1> QED BY <1>3, <1>7, <1>8

LEMMA Constants ==
    /\ MaxJerk \in Int /\ MaxJerk > 0
    /\ MaxAcceleration = 2 * MaxJerk /\ MaxAcceleration \in Int
    /\ kTolNumberPacketsLost \in 0 .. 3
    /\ U \in Int /\ U >= 2 * MaxAcceleration
    /\ Excess \in Int /\ 0 <= Excess /\ Excess <= 2 * MaxAcceleration
    /\ U + Excess <= RobotVelocityLimit
    /\ RobotVelocityLimit \in Int
<1>1. /\ MaxJerk \in Int /\ MaxJerk > 0
      /\ MaxAcceleration = 2 * MaxJerk /\ MaxAcceleration \in Int
  BY JerkAssumption DEF MaxAcceleration
<1>2. kTolNumberPacketsLost \in {0, 1, 2, 3}
  BY ToleranceAssumption
<1>3. Tolerance \in Int
  BY <1>1, <1>2 DEF Tolerance
<1>4. /\ RobotVelocityLimit \in Int
      /\ U \in Int /\ U >= 2 * MaxAcceleration
  BY <1>1, <1>3, VelocityAssumption DEF U
<1>5. /\ Excess \in Int /\ 0 <= Excess /\ Excess <= 2 * MaxAcceleration
      /\ Excess <= Tolerance
  <2>1. CASE kTolNumberPacketsLost = 0 BY <2>1, <1>1 DEF Excess, Tolerance
  <2>2. CASE kTolNumberPacketsLost = 1 BY <2>2, <1>1 DEF Excess, Tolerance
  <2>3. CASE kTolNumberPacketsLost = 2 BY <2>3, <1>1 DEF Excess, Tolerance
  <2>4. CASE kTolNumberPacketsLost = 3 BY <2>4, <1>1 DEF Excess, Tolerance
  <2> QED BY <1>2, <2>1, <2>2, <2>3, <2>4
<1>6. U + Excess <= RobotVelocityLimit
  BY <1>3, <1>4, <1>5 DEF U
<1>7. kTolNumberPacketsLost \in 0 .. 3
  BY ToleranceAssumption
<1> QED BY <1>1, <1>4, <1>5, <1>6, <1>7

---------------------------------------------------------------------------
(* One step of the velocity, of a joint or along a Cartesian line.         *)

\* d is a step from velocity v and acceleration a that respects the limits.
GoodStep(v, a, d) ==
    /\ d \in Int
    /\ -MaxAcceleration <= d /\ d <= MaxAcceleration
    /\ d > 0 => v + 2 * d <= U
    /\ d < 0 => v + 2 * d >= -U
    /\ (v <= U /\ v + a <= U /\ v >= -U /\ v + a >= -U)
          => a - MaxJerk <= d /\ d <= a + MaxJerk

\* The joint form of limitRate takes a good step, from any velocity lost
\* packets may have led to.
LEMMA limitRateStep ==
    ASSUME NEW y \in Int, NEW v \in Int, NEW a \in Int,
           -(U + Excess) <= v, v <= U + Excess,
           -MaxAcceleration <= a, a <= MaxAcceleration
    PROVE  \E d \in Int :
              /\ limitRate(U, -U, MaxAcceleration, MaxJerk, y, v, a) = v + d
              /\ GoodStep(v, a, d)
<1> DEFINE up == (MaxJerk * (U - v)) \div MaxAcceleration
           down == (MaxJerk * (v - (-U))) \div MaxAcceleration
           c == a + max(min(y - v - a, MaxJerk), -MaxJerk)
           smax == min(up, MaxAcceleration)
           smin == max(-down, -MaxAcceleration)
           d == max(min(c, smax), smin)
<1>1. up \in Int /\ 2 * up <= U - v /\ U - v <= 2 * up + 1
  <2>1. U - v \in Int
    BY Constants
  <2> QED BY <2>1, HalfOfDistance
<1>2. down \in Int /\ 2 * down <= v + U /\ v + U <= 2 * down + 1
  <2>1. v - (-U) \in Int /\ v - (-U) = v + U
    BY Constants
  <2> QED BY <2>1, HalfOfDistance
<1>3. c \in Int /\ a - MaxJerk <= c /\ c <= a + MaxJerk
  BY Constants DEF max, min
<1>4. limitRate(U, -U, MaxAcceleration, MaxJerk, y, v, a) = v + d
  BY DEF limitRate
<1> HIDE DEF up, down, c
<1>5. smax \in Int /\ smin \in Int /\ d \in Int
  BY <1>1, <1>2, <1>3, Constants DEF max, min
<1>6. /\ -MaxAcceleration <= smax /\ smax <= MaxAcceleration /\ smax <= up
      /\ smax = up \/ smax = MaxAcceleration
      /\ -MaxAcceleration <= smin /\ smin <= MaxAcceleration /\ -down <= smin
      /\ smin = -down \/ smin = -MaxAcceleration
  BY <1>1, <1>2, Constants DEF max, min
<1>7. smin <= smax
  BY <1>1, <1>2, <1>5, <1>6, Constants
<1>8. /\ smin <= d /\ d <= smax
      /\ d = c \/ (d = smax /\ smax <= c) \/ (d = smin /\ c <= smin)
  BY <1>3, <1>5, <1>7 DEF max, min
<1> HIDE DEF smax, smin, d
<1>9. /\ -MaxAcceleration <= d /\ d <= MaxAcceleration
      /\ d > 0 => v + 2 * d <= U
      /\ d < 0 => v + 2 * d >= -U
  BY <1>1, <1>2, <1>5, <1>6, <1>8, Constants
<1>10. ASSUME v <= U, v + a <= U, v >= -U, v + a >= -U
       PROVE  a - MaxJerk <= d /\ d <= a + MaxJerk
  <2>1. a - MaxJerk <= smax
    BY <1>1, <1>5, <1>6, <1>10, Constants
  <2>2. smin <= a + MaxJerk
    BY <1>2, <1>5, <1>6, <1>10, Constants
  <2> QED BY <1>3, <1>5, <1>8, <2>1, <2>2, Constants
<1>11. GoodStep(v, a, d)
  BY <1>5, <1>9, <1>10 DEF GoodStep
<1> QED BY <1>4, <1>5, <1>11

\* So does the form for Cartesian vectors, which only looks in the
\* direction of the acceleration.
LEMMA limitVectorRateStep ==
    ASSUME NEW y \in Int, NEW v \in Int, NEW a \in Int,
           -(U + Excess) <= v, v <= U + Excess,
           -MaxAcceleration <= a, a <= MaxAcceleration
    PROVE  \E d \in Int :
              /\ limitVectorRate(U, MaxAcceleration, MaxJerk, y, v, a) = v + d
              /\ GoodStep(v, a, d)
<1> DEFINE c == a + max(min(y - v - a, MaxJerk), -MaxJerk)
           r == limitVectorRate(U, MaxAcceleration, MaxJerk, y, v, a)
<1>1. c \in Int /\ a - MaxJerk <= c /\ c <= a + MaxJerk
  BY Constants DEF max, min
<1>2. CASE c = 0
  <2>1. r = v + 0
    BY <1>2 DEF limitVectorRate
  <2>2. GoodStep(v, a, 0)
    BY <1>1, <1>2, Constants DEF GoodStep
  <2> QED BY <2>1, <2>2
<1>3. CASE c > 0
  <2> DEFINE up == (MaxJerk * (U - v)) \div MaxAcceleration
             d == min(c, min(up, MaxAcceleration))
  <2>1. up \in Int /\ 2 * up <= U - v /\ U - v <= 2 * up + 1
    <3>1. U - v \in Int
      BY Constants
    <3> QED BY <3>1, HalfOfDistance
  <2>2. U - 1 * v = U - v
    BY Constants
  <2>3. r = v + 1 * d
    BY <1>1, <1>3, <2>2 DEF limitVectorRate, Abs
  <2> HIDE DEF up, c
  <2>4. d \in Int /\ d <= c /\ d <= up /\ d <= MaxAcceleration
    BY <1>1, <2>1, Constants DEF min
  <2>5. d = c \/ d = up \/ d = MaxAcceleration
    BY DEF min
  <2> HIDE DEF d
  <2>6. GoodStep(v, a, d)
    BY <1>1, <1>3, <2>1, <2>4, <2>5, Constants DEF GoodStep
  <2> QED BY <2>3, <2>4, <2>6
<1>4. CASE c < 0
  <2> DEFINE down == (MaxJerk * (U + v)) \div MaxAcceleration
             d == min(-c, min(down, MaxAcceleration))
  <2>1. down \in Int /\ 2 * down <= U + v /\ U + v <= 2 * down + 1
    BY Constants, HalfOfDistance
  <2>2. U - (-1) * v = U + v
    BY Constants
  <2>3. r = v + (-1) * d
    BY <1>1, <1>4, <2>2 DEF limitVectorRate, Abs
  <2> HIDE DEF down, c
  <2>4. d \in Int /\ d <= -c /\ d <= down /\ d <= MaxAcceleration
    BY <1>1, <2>1, Constants DEF min
  <2>5. d = -c \/ d = down \/ d = MaxAcceleration
    BY DEF min
  <2> HIDE DEF d
  <2>6. GoodStep(v, a, -d)
    BY <1>1, <1>4, <2>1, <2>4, <2>5, Constants DEF GoodStep
  <2>7. r = v + (-d)
    BY <2>3, <2>4
  <2> QED BY <2>4, <2>6, <2>7
<1> QED BY <1>1, <1>2, <1>3, <1>4

---------------------------------------------------------------------------
(* The state machine.                                                      *)

LimitInv ==
    /\ -MaxAcceleration <= last.a /\ last.a <= MaxAcceleration
    /\ -(U + Excess) <= last.v /\ last.v <= U + Excess
    /\ last.a > 0 => last.v + last.a <= U + lost * last.a
    /\ last.a < 0 => last.v + last.a >= -U + lost * last.a
    /\ ~disturbed => /\ last.v <= U /\ last.v + last.a <= U
                     /\ last.v >= -U /\ last.v + last.a >= -U

IInv ==
    /\ TypeOK
    /\ axis = None => lost = 0 /\ disturbed = FALSE /\ sent = NothingSent
    /\ ~disturbed => lost = 0
    /\ axis \in Motion => last.x = 0
    /\ writer = "writeOnce" => ~limit_rate_
    /\ OnlyValidCommands
    /\ Limiting => LimitInv

\* limitRate and lowpassFilter stay in the integers.
LEMMA FilterType ==
    ASSUME NEW y \in Int, NEW z \in Int
    PROVE  lowpassFilter(y, z) \in Int
<1>1. \A w \in Int : (GainNumerator * w) \div GainDenominator \in Int
  BY GainAssumption
<1> QED BY <1>1 DEF lowpassFilter

LEMMA limitRateType ==
    ASSUME NEW ul \in Int, NEW ll \in Int, NEW ma \in Int, ma > 0, NEW mj \in Int,
           NEW y \in Int, NEW v \in Int, NEW a \in Int
    PROVE  limitRate(ul, ll, ma, mj, y, v, a) \in Int
<1>1. /\ (mj * (ul - v)) \div ma \in Int
      /\ (mj * (v - ll)) \div ma \in Int
  <2>1. mj * (ul - v) \in Int /\ mj * (v - ll) \in Int
    OBVIOUS
  <2> QED BY <2>1
<1> QED BY <1>1 DEF limitRate, min, max

LEMMA LimitedElbowType ==
    ASSUME NEW y \in Int, last \in [x : Int, v : Int, a : Int]
    PROVE  LimitedElbow(y) \in Int
<1> DEFINE N2 == SampleRate * SampleRate
           N3 == SampleRate * N2
           N4 == N2 * N2
           r == limitRate(N3 * MaxElbowVelocity, N4 * MaxAcceleration, N4 * MaxJerk, y,
                          N2 * last.x, N3 * last.v, N3 * last.a)
<1>0. SampleRate \in Int /\ SampleRate > 0
  BY SampleAssumption
<1>1. \A i \in Int, j \in Int : i * j \in Int /\ (i > 0 /\ j > 0 => i * j > 0)
  BY Z3
<1>2. N2 \in Int /\ N2 > 0
  BY <1>0, <1>1
<1>3. N3 \in Int
  BY <1>0, <1>1, <1>2
<1>4. N4 \in Int /\ N4 > 0
  BY <1>1, <1>2
<1>5. /\ N3 * MaxElbowVelocity \in Int /\ N4 * MaxAcceleration \in Int
      /\ N4 * MaxJerk \in Int /\ N4 * MaxJerk > 0
      /\ N2 * last.x \in Int /\ N3 * last.v \in Int /\ N3 * last.a \in Int
  <2>1. MaxElbowVelocity \in Int /\ last.x \in Int /\ last.v \in Int /\ last.a \in Int
    BY Constants DEF MaxElbowVelocity, U
  <2> HIDE DEF N2, N3, N4
  <2> QED BY <1>1, <1>2, <1>3, <1>4, <2>1, Constants
<1>6. r \in Int
  <2> HIDE DEF N2, N3, N4
  <2> QED BY <1>5, limitRateType
<1>7. LimitedElbow(y) = r \div N2
  BY DEF LimitedElbow
<1> HIDE DEF N2, r
<1> QED BY <1>2, <1>6, <1>7

\* A command, before it is converted and after.
Command == [value : Int, elbow : BOOLEAN, flaw : Flaw \cup {None}]

\* The filter makes a command of a command.
LEMMA FilteredType ==
    ASSUME IInv, NEW out \in Command
    PROVE  Filtered(out) \in Command
<1>1. last \in [x : Int, v : Int, a : Int] /\ out.value \in Int
  BY DEF IInv, TypeOK, Command
<1>2. lowpassFilter(out.value, LastValue) \in Int
  BY <1>1, FilterType DEF LastValue
<1>3. ASSUME NEW y \in Int, NEW e \in Flaw \cup {None}
      PROVE  [out EXCEPT !.value = y, !.flaw = e] \in Command
  BY <1>3 DEF Command
<1>4. (IF axis = "cartesianPose" /\ out.flaw = "linearPart" THEN None ELSE out.flaw)
        \in Flaw \cup {None}
  BY DEF Command
<1> QED BY <1>2, <1>3, <1>4 DEF Filtered

\* The limits change the value of what is filtered, and nothing else.
LEMMA ConvertedFields ==
    ASSUME IInv, NEW out \in Command
    PROVE  /\ convertMotion(out).value = Limited(Filtered(out).value)
           /\ convertMotion(out).flaw = Filtered(out).flaw
           /\ convertMotion(out).elbow = Filtered(out).elbow
BY FilteredType DEF convertMotion, Command

\* With rate limiting, a command of a motion is a good step.
LEMMA MotionStep ==
    ASSUME IInv, Limiting, NEW out \in Command
    PROVE  \E d \in Int :
              /\ convertMotion(out).value = last.v + d
              /\ GoodStep(last.v, last.a, d)
<1> DEFINE z == Filtered(out).value
<1>1. /\ last.x = 0 /\ last.v \in Int /\ last.a \in Int
      /\ -(U + Excess) <= last.v /\ last.v <= U + Excess
      /\ -MaxAcceleration <= last.a /\ last.a <= MaxAcceleration
      /\ limit_rate_
  BY DEF IInv, TypeOK, Limiting, LimitInv
<1>2. z \in Int
  BY FilteredType DEF Command
<1>3. axis \in {"jointPosition", "jointVelocity", "cartesianPose", "cartesianVelocity"}
  BY DEF Limiting, Motion, Axis
<1>4. convertMotion(out).value = Limited(z)
  BY ConvertedFields
<1> HIDE DEF z
<1>5. /\ computeUpperLimitsJointVelocity = U /\ computeLowerLimitsJointVelocity = -U
      /\ MaxCartesianVelocity = U
  BY DEF computeUpperLimitsJointVelocity, computeLowerLimitsJointVelocity, MaxCartesianVelocity, U
<1>6. CASE axis \in {"jointPosition", "jointVelocity"}
  <2>1. PICK d \in Int : /\ limitRate(U, -U, MaxAcceleration, MaxJerk, z, last.v, last.a) = last.v + d
                         /\ GoodStep(last.v, last.a, d)
    BY <1>1, <1>2, limitRateStep
  <2>2. z - last.x = z /\ 0 + (last.v + d) = last.v + d
    BY <1>1, <1>2
  <2>3. Limited(z) = last.v + d
    <3>1. CASE axis = "jointVelocity"
      BY <1>1, <1>5, <2>1, <3>1 DEF Limited
    <3>2. CASE axis = "jointPosition"
      <4>1. Limited(z) = last.x + limitRate(U, -U, MaxAcceleration, MaxJerk, z - last.x, last.v, last.a)
        BY <1>1, <1>5, <3>2 DEF Limited, limitPositionRate
      <4> QED BY <4>1, <2>1, <2>2, <1>1
    <3> QED BY <1>6, <3>1, <3>2
  <2> QED BY <1>4, <2>1, <2>3
<1>7. CASE axis \in {"cartesianPose", "cartesianVelocity"}
  <2>1. PICK d \in Int : /\ limitVectorRate(U, MaxAcceleration, MaxJerk, z, last.v, last.a) = last.v + d
                         /\ GoodStep(last.v, last.a, d)
    BY <1>1, <1>2, limitVectorRateStep
  <2>2. z - last.x = z /\ 0 + (last.v + d) = last.v + d
    BY <1>1, <1>2
  <2>3. Limited(z) = last.v + d
    <3>1. CASE axis = "cartesianVelocity"
      BY <1>1, <1>5, <2>1, <3>1 DEF Limited
    <3>2. CASE axis = "cartesianPose"
      <4>1. Limited(z) = last.x + limitVectorRate(U, MaxAcceleration, MaxJerk, z - last.x, last.v, last.a)
        BY <1>1, <1>5, <3>2 DEF Limited, limitPoseRate
      <4> QED BY <4>1, <2>1, <2>2, <1>1
    <3> QED BY <1>7, <3>1, <3>2
  <2> QED BY <1>4, <2>1, <2>3
<1> QED BY <1>3, <1>6, <1>7

\* What is sent on any axis is a command.
LEMMA ConversionType ==
    ASSUME IInv, axis # None, NEW out \in Command
    PROVE  convertMotion(out) \in Command
<1> DEFINE z == Filtered(out).value
<1>1. last \in [x : Int, v : Int, a : Int] /\ axis \in Axis
  BY DEF IInv, TypeOK
<1>2. z \in Int
  BY FilteredType DEF Command
<1>3. convertMotion(out).value = Limited(z)
  BY ConvertedFields
<1>a. SUFFICES Limited(z) \in Int
  BY FilteredType DEF convertMotion, Command
<1> HIDE DEF z
<1>4. CASE ~limit_rate_
  BY <1>2, <1>3, <1>4 DEF Limited
<1>5. CASE limit_rate_ /\ axis = "torque"
  <2>1. MaxTorqueRate \in Int
    BY JerkAssumption
  <2> QED BY <1>1, <1>2, <1>3, <1>5, <2>1 DEF Limited, limitTorqueRate, min, max
<1>6. CASE limit_rate_ /\ axis = "elbow"
  BY <1>1, <1>2, <1>3, <1>6, LimitedElbowType DEF Limited
<1>7. CASE limit_rate_ /\ axis \in Motion
  <2>1. PICK d \in Int : convertMotion(out).value = last.v + d
    BY <1>7, MotionStep DEF Limiting
  <2> QED BY <1>1, <1>3, <2>1
<1> QED BY <1>1, <1>4, <1>5, <1>6, <1>7 DEF Axis, Motion

\* No motion: nothing is limited or sent.
LEMMA NoMotionInv ==
    ASSUME axis = None, writer = "control", limit_rate_ = FALSE, cutoff = "off",
           last = AtRest(0), lost = 0, disturbed = FALSE, sent = NothingSent,
           thrown \in {None, "invalid_argument", "ControlException"}
    PROVE  IInv
<1>1. last \in [x : Int, v : Int, a : Int]
  BY DEF AtRest
<1>2. sent \in [elbow : BOOLEAN, flaw : Flaw \cup {None}]
  BY DEF NothingSent
<1>3. lost \in 0 .. kTolNumberPacketsLost
  BY ToleranceAssumption
<1>4. TypeOK
  BY <1>1, <1>2, <1>3 DEF TypeOK
<1>5. OnlyValidCommands
  BY DEF OnlyValidCommands, Cartesian, None
<1>6. ~(axis \in Motion)
  BY DEF Motion, Axis, None
<1> QED BY <1>4, <1>5, <1>6 DEF IInv, Limiting

LEMMA InitInv == Init => IInv
BY NoMotionInv DEF Init

LEMMA EndInv ==
    ASSUME NEW e \in {None, "invalid_argument", "ControlException"}, End(e)
    PROVE  IInv'
<1>1. last' = AtRest(0) /\ sent' = NothingSent
  BY DEF End
<1>2. (last \in [x : Int, v : Int, a : Int])'
  BY <1>1 DEF AtRest
<1>3. (sent \in [elbow : BOOLEAN, flaw : Flaw \cup {None}])'
  BY <1>1 DEF NothingSent
<1>4. (lost \in 0 .. kTolNumberPacketsLost)'
  BY ToleranceAssumption DEF End
<1>5. TypeOK'
  BY <1>2, <1>3, <1>4 DEF TypeOK, End
<1>6. OnlyValidCommands'
  BY DEF OnlyValidCommands, Cartesian, None, End
<1>7. ~(axis \in Motion)'
  BY DEF Motion, Axis, None, End
<1> QED BY <1>1, <1>5, <1>6, <1>7 DEF IInv, Limiting, End

\* Sending keeps everything but the limits, which are the caller's.
LEMMA SendInv ==
    ASSUME IInv, axis # None, NEW out \in Command, Constructed(out), Checked(out),
           Send(out), Limiting => LimitInv'
    PROVE  IInv'
<1> USE DEF IInv
<1>1. last' \in [x : Int, v : Int, a : Int]
  BY DEF Send, Applied, TypeOK, Command
<1>2. (axis \in Motion)' => (last.x = 0)'
  BY DEF Send, Applied, Motion
<1>3. sent' = [elbow |-> out.elbow, flaw |-> out.flaw] /\ axis' = axis
  BY DEF Send
<1>4. out.elbow \in BOOLEAN /\ out.flaw \in Flaw \cup {None}
  BY DEF Command
<1>5. TypeOK'
  BY <1>1, <1>3, <1>4, ToleranceAssumption DEF TypeOK, Send
<1>6. OnlyValidCommands'
  <2>1. out.flaw \notin {"count", "nonfinite"}
    BY DEF Constructed, Checked, checkMatrix, checkFinite
  <2>2. axis = "cartesianPose" => out.flaw \notin {"linearPart", "lastRow"}
    BY DEF Checked, checkMatrix, isHomogeneousTransformation
  <2>3. Cartesian /\ out.elbow => out.flaw # "elbowSign"
    BY DEF Checked, checkElbow, hasElbow, isValidElbow
  <2>4. sent'.flaw = out.flaw /\ sent'.elbow = out.elbow /\ (Cartesian' <=> Cartesian)
    BY <1>3 DEF Cartesian
  <2> QED BY <1>3, <2>1, <2>2, <2>3, <2>4 DEF OnlyValidCommands
<1>7. Limiting' <=> Limiting
  BY DEF Limiting, Send
<1> QED BY <1>2, <1>3, <1>5, <1>6, <1>7 DEF Send

\* A good step keeps the limits.
LEMMA GoodStepLimits ==
    ASSUME IInv, Limiting, NEW d \in Int, GoodStep(last.v, last.a, d),
           NEW out \in Command, out.value = last.v + d, Send(out)
    PROVE  /\ LimitInv'
           /\ ~disturbed => Abs(last'.a - last.a) <= MaxJerk
<1>1. last.v \in Int /\ last.a \in Int
  BY DEF IInv, TypeOK
<1>2. last' = [x |-> 0, v |-> last.v + d, a |-> (last.v + d) - last.v]
  <2>1. axis # "torque" /\ axis # "elbow"
    BY DEF Limiting, Motion
  <2>2. \A y : Applied(y) = [x |-> 0, v |-> y, a |-> y - last.v]
    BY <2>1, Zenon DEF Applied
  <2>3. last' = Applied(last.v + d)
    BY DEF Send
  <2> QED BY <2>2, <2>3, Zenon
<1>3. last'.v = last.v + d /\ last'.a = d /\ lost' = 0 /\ disturbed' = disturbed
  BY <1>1, <1>2 DEF Send
<1>4. LimitInv
  BY DEF IInv
<1>5. /\ (-MaxAcceleration <= last.a /\ last.a <= MaxAcceleration)'
      /\ (-(U + Excess) <= last.v /\ last.v <= U + Excess)'
  BY <1>1, <1>3, <1>4, Constants DEF LimitInv, GoodStep
<1>6. /\ (last.a > 0 => last.v + last.a <= U + lost * last.a)'
      /\ (last.a < 0 => last.v + last.a >= -U + lost * last.a)'
  BY <1>1, <1>3, Constants DEF GoodStep
<1>7. ASSUME ~disturbed
      PROVE  /\ (last.v <= U /\ last.v + last.a <= U /\ last.v >= -U /\ last.v + last.a >= -U)'
             /\ Abs(last'.a - last.a) <= MaxJerk
  BY <1>1, <1>3, <1>4, <1>7, Constants DEF LimitInv, GoodStep, Abs
<1> QED BY <1>3, <1>5, <1>6, <1>7 DEF LimitInv

\* Losing a packet uses up the room the last step left.
LEMMA LoseInv == ASSUME IInv, Lose PROVE IInv'
<1>1. /\ last.v \in Int /\ last.a \in Int /\ lost \in 0 .. kTolNumberPacketsLost
      /\ last.x \in Int
  BY DEF IInv, TypeOK
<1>2. last' = [last EXCEPT !.v = last.v + last.a] /\ lost' = lost + 1 /\ disturbed' = TRUE
  BY DEF Lose
<1>3. /\ last'.v = last.v + last.a /\ last'.a = last.a /\ last'.x = last.x
      /\ last' \in [x : Int, v : Int, a : Int]
  BY <1>1, <1>2 DEF IInv, TypeOK
<1>4. LimitInv
  BY DEF IInv, Lose, Limiting
<1>5. lost < kTolNumberPacketsLost
  BY DEF Lose
<1>6. lost \in {0, 1, 2} /\ kTolNumberPacketsLost \in {1, 2, 3}
  BY <1>1, <1>5, Constants
<1>7. LimitInv'
  <2>1. /\ (-MaxAcceleration <= last.a /\ last.a <= MaxAcceleration)'
    BY <1>3, <1>4 DEF LimitInv
  <2>2. last.a > 0 => last.v + last.a <= U + Excess
    <3> SUFFICES ASSUME last.a > 0 PROVE last.v + last.a <= U + Excess
      OBVIOUS
    <3>1. last.v + last.a <= U + lost * last.a /\ last.a <= MaxAcceleration
      BY <1>4 DEF LimitInv
    <3>2. CASE lost = 0 BY <1>1, <3>1, <3>2, Constants
    <3>3. CASE lost = 1
      <4>1. Excess >= MaxAcceleration
        BY <1>5, <1>6, <3>3, Constants DEF Excess
      <4> QED BY <1>1, <3>1, <3>3, <4>1, Constants
    <3>4. CASE lost = 2
      <4>1. Excess = 2 * MaxAcceleration
        BY <1>5, <1>6, <3>4, Constants DEF Excess
      <4> QED BY <1>1, <3>1, <3>4, <4>1, Constants
    <3> QED BY <1>6, <3>2, <3>3, <3>4
  <2>3. last.a < 0 => last.v + last.a >= -(U + Excess)
    <3> SUFFICES ASSUME last.a < 0 PROVE last.v + last.a >= -(U + Excess)
      OBVIOUS
    <3>1. last.v + last.a >= -U + lost * last.a /\ last.a >= -MaxAcceleration
      BY <1>1, <1>4, Constants DEF LimitInv
    <3>2. CASE lost = 0 BY <1>1, <3>1, <3>2, Constants
    <3>3. CASE lost = 1
      <4>1. Excess >= MaxAcceleration
        BY <1>5, <1>6, <3>3, Constants DEF Excess
      <4> QED BY <1>1, <3>1, <3>3, <4>1, Constants
    <3>4. CASE lost = 2
      <4>1. Excess = 2 * MaxAcceleration
        BY <1>5, <1>6, <3>4, Constants DEF Excess
      <4> QED BY <1>1, <3>1, <3>4, <4>1, Constants
    <3> QED BY <1>6, <3>2, <3>3, <3>4
  <2>4. /\ (-(U + Excess) <= last.v /\ last.v <= U + Excess)'
    BY <1>1, <1>3, <1>4, <2>2, <2>3, Constants DEF LimitInv
  <2>5. (last.a > 0 => last.v + last.a <= U + lost * last.a)'
    BY <1>1, <1>2, <1>3, <1>4, <1>6, Constants DEF LimitInv
  <2>6. (last.a < 0 => last.v + last.a >= -U + lost * last.a)'
    BY <1>1, <1>2, <1>3, <1>4, <1>6, Constants DEF LimitInv
  <2> QED BY <1>2, <2>1, <2>4, <2>5, <2>6 DEF LimitInv
<1>8. TypeOK'
  BY <1>1, <1>2, <1>3, <1>5, Constants DEF Lose, IInv, TypeOK
<1>9. OnlyValidCommands'
  BY DEF Lose, IInv, OnlyValidCommands, Cartesian
<1> QED BY <1>2, <1>3, <1>7, <1>8, <1>9 DEF Lose, IInv, Motion, Axis, None

\* One round, from either writer.
LEMMA CommandInv ==
    ASSUME IInv, NEW out \in Output, Spin(out) \/ createMotionCommand(out)
    PROVE  /\ IInv'
           /\ Limiting /\ axis' = axis /\ ~disturbed' => Abs(last'.a - last.a) <= MaxJerk
<1> DEFINE sending == convertMotion(out)
<1>0. axis # None /\ out \in Command
  BY ValuesAssumption DEF Spin, createMotionCommand, Returned, Output, Command
<1>1. ASSUME End("invalid_argument") PROVE IInv' /\ ~(axis' = axis)
  BY <1>0, <1>1, EndInv DEF End
<1>2. ASSUME Constructed(out), Checked(sending), Spin(out), Send(sending)
      PROVE  /\ IInv'
             /\ Limiting /\ axis' = axis /\ ~disturbed' => Abs(last'.a - last.a) <= MaxJerk
  <2>1. sending \in Command /\ Constructed(sending)
    <3>1. sending.flaw = Filtered(out).flaw
      BY <1>0, ConvertedFields
    <3>2. Filtered(out).flaw \in {out.flaw, None}
      BY <1>0 DEF Filtered, Command
    <3> QED BY <1>0, <1>2, <3>1, <3>2, ConversionType DEF Constructed, None
  <2>2. ASSUME Limiting
        PROVE  LimitInv' /\ (~disturbed => Abs(last'.a - last.a) <= MaxJerk)
    <3>1. PICK d \in Int : sending.value = last.v + d /\ GoodStep(last.v, last.a, d)
      BY <1>0, <2>2, MotionStep
    <3> HIDE DEF sending
    <3> QED BY <1>2, <2>1, <2>2, <3>1, GoodStepLimits
  <2> HIDE DEF sending
  <2>3. IInv'
    BY <1>0, <1>2, <2>1, <2>2, SendInv
  <2>4. disturbed' = disturbed
    BY <1>2 DEF Send
  <2> QED BY <2>2, <2>3, <2>4
<1>3. ASSUME Constructed(out), Checked(out), createMotionCommand(out), Send(out)
      PROVE  IInv' /\ ~Limiting
  <2>1. ~Limiting
    BY <1>3 DEF createMotionCommand, IInv, Limiting
  <2> QED BY <1>0, <1>3, <2>1, SendInv
<1>4. CASE Spin(out)
  BY <1>1, <1>2, <1>4 DEF Spin
<1>5. CASE createMotionCommand(out)
  BY <1>1, <1>3, <1>5 DEF createMotionCommand
<1> QED BY <1>4, <1>5

LEMMA StartInv ==
    ASSUME IInv, NEW i \in Axis, NEW w \in {"control", "writeOnce"}, NEW limit \in BOOLEAN,
           NEW c \in {"off", "on", "invalid"}, Start(i, w, limit, c)
    PROVE  IInv' /\ ~Limiting
<1>1. axis = None /\ lost = 0 /\ disturbed = FALSE /\ sent = NothingSent
  BY DEF Start, IInv
<1>2. /\ axis' = i /\ lost' = 0 /\ disturbed' = FALSE /\ sent' = NothingSent /\ thrown' = None
      /\ writer' = w /\ limit_rate_' = limit /\ cutoff' = c
  BY <1>1 DEF Start
<1>3. PICK x \in Int : last' = AtRest(x) /\ (i # "elbow" => x = 0)
  <2>1. CASE i = "elbow"
    <3>1. PICK x \in Elbows : last' = AtRest(x)
      BY <2>1 DEF Start
    <3> QED BY <2>1, <3>1, ValuesAssumption
  <2>2. CASE i # "elbow"
    BY <2>2 DEF Start
  <2> QED BY <2>1, <2>2
<1>4. last' = [x |-> x, v |-> 0, a |-> 0]
  BY <1>3 DEF AtRest
<1>5. last'.x = x /\ last'.v = 0 /\ last'.a = 0 /\ last' \in [x : Int, v : Int, a : Int]
  BY <1>4
<1>6. sent'.flaw = None /\ sent' \in [elbow : BOOLEAN, flaw : Flaw \cup {None}]
  BY <1>2 DEF NothingSent
<1>7. TypeOK'
  <2>1. (lost \in 0 .. kTolNumberPacketsLost)'
    BY <1>2, ToleranceAssumption
  <2>2. (axis \in Axis \cup {None} /\ writer \in {"control", "writeOnce"})'
    BY <1>2
  <2>3. (limit_rate_ \in BOOLEAN /\ cutoff \in {"off", "on", "invalid"} /\ disturbed \in BOOLEAN)'
    BY <1>2
  <2> QED BY <1>2, <1>5, <1>6, <2>1, <2>2, <2>3 DEF TypeOK
<1>8. OnlyValidCommands'
  BY <1>6 DEF OnlyValidCommands, None
<1>9. LimitInv'
  BY <1>2, <1>5, Constants DEF LimitInv
<1>10. (axis \in Motion => last.x = 0)'
  BY <1>2, <1>3, <1>5 DEF Motion
<1>11. ~Limiting
  BY <1>1 DEF Limiting, Motion, Axis, None
<1>12. axis' # None
  BY <1>2 DEF Axis, None
<1> QED BY <1>2, <1>7, <1>8, <1>9, <1>10, <1>11, <1>12 DEF IInv, Start

\* Every step keeps the invariant and, undisturbed, the jerk.
LEMMA NextInv ==
    ASSUME IInv, [Next]_vars
    PROVE  /\ IInv'
           /\ Limiting /\ axis' = axis /\ ~disturbed' => Abs(last'.a - last.a) <= MaxJerk
<1>1. ASSUME NEW i \in Axis, NEW w \in {"control", "writeOnce"}, NEW limit \in BOOLEAN,
             NEW c \in {"off", "on", "invalid"}, Start(i, w, limit, c)
      PROVE  IInv' /\ ~Limiting
  BY <1>1, StartInv
<1>2. ASSUME NEW out \in Output, Spin(out) \/ createMotionCommand(out)
      PROVE  /\ IInv'
             /\ Limiting /\ axis' = axis /\ ~disturbed' => Abs(last'.a - last.a) <= MaxJerk
  BY <1>2, CommandInv
<1>3. ASSUME Lose PROVE IInv' /\ disturbed'
  BY <1>3, LoseInv DEF Lose
<1>4. ASSUME Reflex PROVE IInv' /\ axis' # axis
  <2>1. axis # None
    BY <1>4 DEF Reflex, ElbowJumped, None
  <2> QED BY <1>4, <2>1, EndInv DEF Reflex, End
<1>5. ASSUME Finish PROVE IInv' /\ axis' # axis
  BY <1>5, EndInv DEF Finish, End
<1>6. ASSUME UNCHANGED vars
      PROVE  IInv' /\ Abs(last'.a - last.a) <= MaxJerk
  <2>1. IInv'
    BY <1>6 DEF vars, IInv, TypeOK, OnlyValidCommands, Cartesian, Limiting, LimitInv
  <2>2. last'.a - last.a = 0
    BY <1>6 DEF vars, IInv, TypeOK
  <2> QED BY <2>1, <2>2, Constants DEF Abs
<1> QED BY <1>1, <1>2, <1>3, <1>4, <1>5, <1>6 DEF Next

\* The inductive invariant.
THEOREM Invariant == Spec => []IInv
BY InitInv, NextInv, PTL DEF Spec

\* The variables of a conversion keep their types, and a motion that threw
\* is over.
THEOREM ConversionTypeCorrect == Spec => []TypeOK
<1>1. IInv => TypeOK
  BY DEF IInv
<1> QED BY <1>1, Invariant, PTL

\* No command with NaN or infinity, no matrix that is not homogeneous once it
\* went through the filter, and no elbow with an invalid sign is sent
\* (control_loop.cpp:128-273, lowpass_filter.cpp:28-62, robot_impl.cpp:325-391).
THEOREM ChecksEveryCommand == Spec => []OnlyValidCommands
<1>1. IInv => OnlyValidCommands
  BY DEF IInv
<1> QED BY <1>1, Invariant, PTL

\* limitRate keeps the velocity limits whatever packets are lost, up to
\* kTolNumberPacketsLost in a row (rate_limiting.cpp:13-124).
THEOREM KeepsVelocityLimit == Spec => []VelocityLimitKept
<1>1. IInv => VelocityLimitKept
  <2> SUFFICES ASSUME IInv, Limiting PROVE Abs(last.v) <= RobotVelocityLimit
    BY DEF VelocityLimitKept
  <2>1. last.v \in Int /\ -(U + Excess) <= last.v /\ last.v <= U + Excess
    BY DEF IInv, TypeOK, LimitInv
  <2> QED BY <2>1, Constants DEF Abs
<1> QED BY <1>1, Invariant, PTL

\* And the acceleration limits while it recovers (rate_limiting.cpp:91-104).
THEOREM KeepsAccelerationLimit == Spec => []AccelerationLimitKept
<1>1. IInv => AccelerationLimitKept
  <2> SUFFICES ASSUME IInv, Limiting PROVE Abs(last.a) <= MaxAcceleration
    BY DEF AccelerationLimitKept
  <2>1. last.a \in Int /\ -MaxAcceleration <= last.a /\ last.a <= MaxAcceleration
    BY DEF IInv, TypeOK, LimitInv
  <2> QED BY <2>1, Constants DEF Abs
<1> QED BY <1>1, Invariant, PTL

\* Without losses it keeps the jerk limits too: braking for the velocity
\* limit never needs more (rate_limiting.cpp:91-97).
THEOREM KeepsJerkLimit == Spec => JerkLimitKept
<1>1. IInv /\ [Next]_vars
        => [Limiting /\ axis' = axis /\ ~disturbed' => Abs(last'.a - last.a) <= MaxJerk]_vars
  BY NextInv
<1> QED BY <1>1, Invariant, PTL DEF Spec, JerkLimitKept
===========================================================================
