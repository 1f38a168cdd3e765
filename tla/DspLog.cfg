SPECIFICATION Spec
CONSTANTS
    m1 = m1
    m2 = m2
    m3 = m3
    Msg <- MCMsg
    MsgLen <- MCMsgLen
    Size = 16
INVARIANTS StaysInside LapIsReadable
