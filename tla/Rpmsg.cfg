SPECIFICATION Spec
CONSTANTS
    HdrWords = 2
    RPMSG_MAX_MSG_SIZE = 8
    MAX_QUEUE = 2
    MAX_CHANNEL = 2
    MSGBOX_CHANNELS = 2
    EnabledBefore <- MCEnabled
    ArmChannel = 0
    Announce <- MCAnnounce
    ArmMsgs <- MCArmMsgs
    ArmStream <- MCArmStream
    Starts <- MCStarts
INVARIANTS ReceivesIntact 
PROPERTIES AlwaysDrained InitReturns
CHECK_DEADLOCK FALSE
