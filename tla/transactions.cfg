CONSTANTS
    MaxAttempts = 1
    LockDuration = 1
    IdleTimeout = 1
    MaxLifetime = 1
    ChallengeTTL = 1
    Shells = {s1, s2}
    Accounts = {alice}
    NoAccount = none
    KeyOf <- SameKey
    HashCost <- RaisedCost
    MaxClock = 2
    MaxSessions = 2
    MaxSecrets = 1
    MaxChallenges = 1
SPECIFICATION FairPgSpec
INVARIANTS PgTypeOK ServiceWaitsEmptyHanded
PROPERTIES Spec EveryCallReturns
CONSTANT MaxCalls = 5
