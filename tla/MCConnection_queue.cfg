SPECIFICATION FairSpec
CONSTANTS
    snd_wnd = 4
    rcv_wnd = 4
    IKCP_WND_RCV = 4
    NumFiles = 2
    NumChunks = 1
    Scenarios <- LossOrDelay
INVARIANTS
    PausesKeepFilesApart
    ReceivedInOrder
    AnswerIsForMe
PROPERTIES
    QueueDelivered
