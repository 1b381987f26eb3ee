SPECIFICATION FairSpec
CONSTANTS
    right = right
    wrong = wrong
    Pins <- MCPins
    ExpectedPin = right
    NumChunks = 3
    NumStreams = 2
    HighWater = 1
    MaxFaults = 1
INVARIANTS
    IndInv
    CompletionSound
    BitfieldSound
    NoWriteAfterUnmap
    NoChunkDropped
    AckInBounds
    SentMeansSent
    WrongPinSendsNothing
PROPERTIES
    VerifiedDataStable
    ImplementsFileTransfer
    Delivered
    RejectedReturns
    FaultContained
CHECK_DEADLOCK FALSE
