SPECIFICATION Spec
CONSTANTS
    kMaxSize = 20
    kChunkSize = 2
    FileSizes = {0, 1, 2, 3, 4, 5}
    Zero = Zero
    MaxRuns = 2
INVARIANT WholeFileIsPrinted
CHECK_DEADLOCK FALSE
