SPECIFICATION FairSpec

CONSTANTS
    r1 = r1
    r2 = r2
    r3 = r3
    Readings <- TwoReadings
    MsgIds = 1
    SeqModulo = 2
    MaxFaults = 1
    QueueLength = 1
    BatchCapacity = 1
    BatchSize = 1
PROPERTIES
    Delivers
    Recovers
