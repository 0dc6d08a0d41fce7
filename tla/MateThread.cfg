\* Every interleaving of the two threads, with up to three stale tokens and two
\* queued commands; the whole life of the mate from its creation to its release.
SPECIFICATION FairSpec
CONSTANTS
    SEM_VALUE_MAX = 3
    MESSAGE_MAX = 2
INVARIANTS TypeOK MateExclusive NoLostWakeup
PROPERTIES SleepReturns ReleaseReturns CommandServed
