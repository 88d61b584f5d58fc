SPECIFICATION FairSpec
CONSTANTS
    Threads = {t1, t2}
    MaxRounds = 1
PROPERTIES
    EventuallyJoined
