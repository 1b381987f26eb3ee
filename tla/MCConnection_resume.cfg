SPECIFICATION FairSpec
CONSTANTS
    snd_wnd = 4
    rcv_wnd = 4
    IKCP_WND_RCV = 4
    NumFiles = 1
    NumChunks = 1
    Scenarios <- Drop
PROPERTIES
    ResumesAfterDrop
