SPECIFICATION Spec
CONSTANTS
    Latency = 1
    Bandwidth = 2
    Kinds <- MCKinds
    MaxCycle = 6
    MaxItems = 6
    ItemBound <- MCItemBound
INVARIANTS DiligentReaderIsSafe ReadIndexOnOldest OverrunMeansLateReader
    PollAgreesWithRead
PROPERTY PortKeepsContract
