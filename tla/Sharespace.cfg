SPECIFICATION Spec
CONSTANTS
    x = x
    y = y
    Junk = Junk
    MIN_ADDR = 1
    MAX_ADDR = 5
    Byte <- MCBytes
    DspMsgs <- MCMsgs
    ArmMsgs <- MCMsgs
    ReadMax = {2}
INVARIANTS TypeOK Reserved NoCopyRace HeadsNotOverwritten
PROPERTIES ToArmIsFifo ToDspIsFifo
