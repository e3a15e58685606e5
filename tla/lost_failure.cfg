CONSTANTS
    MaxAttempts = 2
    LockDuration = 1
    IdleTimeout = 1
    MaxLifetime = 2
    ChallengeTTL = 1
    Shells = {s1, s2}
    Accounts = {alice}
    NoAccount = none
    KeyOf <- SameKey
    HashCost <- SameCost
    MaxClock = 3
    MaxSessions = 1
    MaxSecrets = 1
    MaxChallenges = 1
    MaxEvents = 4
SPECIFICATION AuditSpec
INVARIANTS LockAfterMaxFailures
