SPECIFICATION FairSpec
CONSTANTS
    Addresses = {"A", "B"}
    Names = {"x", "y"}
    Hosts <- OneOrTwo
    Users <- OtherUser
    Audience <- Sender
    Backlog = 1
    NumFiles = 1
    MaxStarts = 1
INVARIANTS
    GoneMeansQuiet
    InactiveMeansReleased
    WinsockOutlivesSockets
PROPERTIES
    SearchEnds
    ButtonComesBack
CHECK_DEADLOCK FALSE
