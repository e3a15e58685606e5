CONSTANTS
    MaxAttempts = 2
    LockDuration = 1
    IdleTimeout = 2
    MaxLifetime = 3
    ChallengeTTL = 1
    Shells = {s1, s2}
    Accounts = {alice}
    NoAccount = none
    KeyOf <- RotatedKey
    HashCost <- RaisedCost
    MaxClock = 2
    MaxSessions = 1
    MaxSecrets = 1
    MaxChallenges = 1
SPECIFICATION Spec
INVARIANTS TypeOK UserRowsCoherent LockRestartsCounter ParkedLoginConsumed VerdictUnderOwnKey
PROPERTIES RevocationIsFinal PurgeSparesLive
