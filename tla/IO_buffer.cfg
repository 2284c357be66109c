SPECIFICATION LiveSpec
CONSTANTS
    MaxPuts = 3
    MaxPacket = 2
    ReadSizes = {1, 2, 3}
    MaxDeadlines = 2
INVARIANTS
    BytesInOrder
    EndAfterData
    NoLostWakeup
PROPERTY
    EndIsReported
