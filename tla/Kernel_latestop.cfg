SPECIFICATION Spec
CONSTANTS
    taskA = taskA
    taskB = taskB
    taskC = taskC
    daemon = daemon
    idle = idle
    timerX = timerX
    timerY = timerY
    Task <- MCTask
    Idle = idle
    Daemon = daemon
    configMAX_PRIORITIES = 4
    portMAX_DELAY = 15
    configINITIAL_TICK_COUNT = 13
    MaxValue = 2
    EventList <- MCEventList
    Semaphore <- MCSemaphore
    Member = {"signal", "binary"}
    Set = "set"
    Kind <- MCKind
    MaxCount <- MCMaxCount
    MaxTimes = 2
    Bit = {"1", "2", "3"}
    TasksWaitingForBits = "group"
    xLength = 5
    sbBYTES_TO_STORE_MESSAGE_LENGTH = 1
    Numbers = 6
    Timer = {timerX, timerY}
    xTimerQueue = "timers"
    configTIMER_QUEUE_LENGTH = 2
    Programs <- MCLateStop
INVARIANTS StoppedStaysStopped
