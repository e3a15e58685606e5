CONSTANTS
    MaxAttempts = 2
    LockDuration = 1
    IdleTimeout = 1
    MaxLifetime = 3
    ChallengeTTL = 1
    Shells = {s1, s2}
    Accounts = {alice}
    NoAccount = none
    KeyOf <- RotatedKey
    HashCost <- SameCost
    MaxClock = 1
    MaxSessions = 2
    MaxSecrets = 1
    MaxChallenges = 2
    Interactive = TRUE
    MaxCodePrompts = 1
    MaxFaults = 1
    MaxSignals = 0
SPECIFICATION ShellSpec
INVARIANTS LeftoversAccountedFor
PROPERTIES Spec OwnSessionSpared
