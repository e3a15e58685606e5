CONSTANTS
    MaxAttempts = 2
    LockDuration = 1
    IdleTimeout = 2
    MaxLifetime = 3
    ChallengeTTL = 1
    Shells = {s1}
    Accounts = {alice}
    NoAccount = none
    KeyOf <- SameKey
    HashCost <- SameCost
    MaxClock = 3
    MaxSessions = 2
    MaxSecrets = 1
    MaxChallenges = 1
    Interactive = TRUE
    MaxCodePrompts = 2
    MaxFaults = 0
    MaxSignals = 1
SPECIFICATION ShellSpec
INVARIANT RevokedAtExit
