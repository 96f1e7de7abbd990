CONSTANTS
    MaxJerk = 1
    RobotVelocityLimit = 11
    kTolNumberPacketsLost = 3
    MaxTorqueRate = 2
    SampleRate = 10
    GainNumerator = 1
    GainDenominator = 2
    Values <- MCValues
    Elbows <- MCElbows
SPECIFICATION Spec
INVARIANTS TypeOK OnlyValidCommands VelocityLimitKept AccelerationLimitKept
PROPERTY JerkLimitKept
