SPECIFICATION Spec
CONSTANTS
    snd_wnd = 4
    rcv_wnd = 4
    IKCP_WND_RCV = 4
    NumFiles = 2
    NumChunks = 1
    Scenarios <- Delay
INVARIANTS
    FilesNotMixed
