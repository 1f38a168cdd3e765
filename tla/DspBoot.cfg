SPECIFICATION Spec
CONSTANTS
    b1 = b1
    b2 = b2
    b3 = b3
    b4 = b4
    b5 = b5
    b6 = b6
    b7 = b7
    Junk = Junk
    Zero = Zero
    Image <- MCImage
    Byte <- MCByte
    AddrMap <- MCAddrMap
    Fdt <- MCFdt
    RunDdr = {0, 7}
    DefaultVec = 7
    LocalRam = {0, 1, 2, 3}
    Addr <- MCAddr
    UART_NUM = 2
INVARIANTS RunsTheImage TellsTheTree
PROPERTY Boots
CHECK_DEADLOCK FALSE
