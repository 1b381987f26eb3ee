SPECIFICATION FairSpec
CONSTANTS
    snd_wnd = 2
    rcv_wnd = 1
    IKCP_WND_RCV = 1
    MaxSend <- TwoOneWay
    MaxLoss = 1
    MaxRepeat = 0
    MaxFlight = 100
PROPERTIES
    AllRead
    AllAcked
