CONSTANTS
    MaxAttempts = 2
    LockDuration = 1
    IdleTimeout = 1
    MaxLifetime = 2
    ChallengeTTL = 1
    Shells = {s1, s2}
    Accounts = {alice}
    NoAccount = none
    KeyOf <- RotatedKey
    HashCost <- SameCost
    MaxClock = 3
    MaxSessions = 1
    MaxSecrets = 2
    MaxChallenges = 1
SPECIFICATION Spec
INVARIANTS StaleEnrollmentCanBeRedone
