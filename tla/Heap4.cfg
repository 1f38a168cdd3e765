SPECIFICATION Spec
CONSTANTS
    t1 = t1
    t2 = t2
    Task <- MCTask
    Request = {0, 1, 2, 6, 7, 31, 32, 63}
    W = 6
    ucHeap = 3
    configTOTAL_HEAP_SIZE = 23
    portBYTE_ALIGNMENT = 2
    xHeapStructSize = 2
SYMMETRY TaskSymmetry
INVARIANTS Accounting MayBeFreed
PROPERTIES IsFirstFit
