SPECIFICATION FairSpec
CONSTANTS
    right = right
    wrong = wrong
    Pins <- MCPins
    ExpectedPin = right
    NumChunks = 2
    NumStreams = 2
    HighWater = 0
    MaxFaults = 0
PROPERTIES
    SuccessMeansDelivered
CHECK_DEADLOCK FALSE
