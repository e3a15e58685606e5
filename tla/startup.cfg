CONSTANTS
    Old = m1
    Starters = {m1, m2}
    Nobody = nobody
    Latest <- OldAndNew
    MaxRestarts = 2
    ConnectTimeout = 8
SPECIFICATION FairStartSpec
INVARIANTS TypeOK StartTypeOK ExactlyOnce TodoIsCurrent NoGaps DoneIsCurrent WaitBounded ServesCurrentSchema
PROPERTIES Spec EveryStartEnds
CHECK_DEADLOCK FALSE
