SPECIFICATION Spec
SYMMETRY ReadingSymmetry
VIEW View
CONSTANTS
    r1 = r1
    r2 = r2
    r3 = r3
    Readings <- ThreeReadings
    MsgIds = 2
    SeqModulo = 3
    MaxFaults = 2
    QueueLength = 1
    BatchCapacity = 2
    BatchSize = 1
INVARIANTS
    TypeOK
    PubackMeansStored
    SparkplugOrder
    BirthsDiffer
    StatesAgree
    NoLostWakeup
PROPERTIES
    ImplementsOutbox
