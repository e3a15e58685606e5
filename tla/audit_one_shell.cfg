CONSTANTS
    MaxAttempts = 2
    LockDuration = 1
    IdleTimeout = 2
    MaxLifetime = 3
    ChallengeTTL = 1
    Shells = {s1}
    Accounts = {alice}
    NoAccount = none
    KeyOf <- SameKey
    HashCost <- SameCost
    MaxClock = 3
    MaxSessions = 1
    MaxSecrets = 2
    MaxChallenges = 1
    MaxEvents = 6
SPECIFICATION AuditSpec
INVARIANTS AuditTypeOK DeadlinesBounded CounterMatchesTrail PostureMatchesTrail StateIsExplained LockedHasNoLiveSession
PROPERTIES NoLoginWhileLocked SecondFactorHeld TwoFactorOffNeedsCode
