\* Four threads: two of a kind on either side of the lock.
SPECIFICATION FairLockSpec
CONSTANTS
    t1 = t1
    t2 = t2
    t3 = t3
    t4 = t4
    Threads <- MCThreads
INVARIANTS
    MutualExclusion
    NoLostWakeup
PROPERTIES
    WritersAreNotOvertaken
    NoStarvation
