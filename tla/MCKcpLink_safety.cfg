SPECIFICATION Spec
CONSTANTS
    snd_wnd = 2
    rcv_wnd = 2
    IKCP_WND_RCV = 1
    MaxSend <- ThreeOneWay
    MaxLoss = 0
    MaxRepeat = 1
    MaxFlight = 3
INVARIANTS
    WindowBounded
    AckedIsHeld
PROPERTIES
    ImplementsStream
