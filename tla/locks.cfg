CONSTANTS
    t1 = t1
    t2 = t2
    Threads = {t1, t2}
    Calls <- TwoThreads
    Nobody = Nobody
SPECIFICATION FairSpec
INVARIANT GuardedRaceFree
INVARIANT FinishedFound
 
INVARIANT ReleasedAtEnd
INVARIANT NoLateDuplicate
PROPERTY CallsReturn
CHECK_DEADLOCK FALSE
