SPECIFICATION EchoSpec
CONSTANTS
    Junk = Junk
    MIN_ADDR = 1
    MAX_ADDR = 5
    Byte <- MCByte
    DspMsgs <- NoMsgs
    ReadMax = {}
    ArmMsgs <- MCArmMsgs
    Greetings <- MCGreetings
    Script <- MCScript
    BufSize = 8
PROPERTIES IsLossyEcho NothingLingers EchoedInFull
