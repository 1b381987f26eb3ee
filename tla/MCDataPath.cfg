SPECIFICATION FairSpec
CONSTANTS
    ChunkSize = 2
    LzSlack = 0
    TagSize = 1
    BitsPerByte = 2
    FileSizes = {1, 4, 5}
    NumStreams = 2
    HeaderSize = 1
    ByteValues = 4
    max_send_size = 6
    mss = 6
    IKCP_WND_RCV = 2
INVARIANTS
    FramesIntact
    CompletedIsCopied
    CompleteIsWhole
    ProgressHonest
    BitfieldFaithful
PROPERTIES
    FileArrives
CHECK_DEADLOCK FALSE
