SPECIFICATION Spec
CONSTANTS
    proc1 = proc1 proc2 = proc2
    xAcquire = xAcquire xReclaim = xReclaim yAcquire = yAcquire
    yProbe = yProbe xRemove = xRemove yInfoSweep = yInfoSweep
    Platform = "windows"
    Processes = {proc1, proc2}
    Calls = {xAcquire, xReclaim, yAcquire, xRemove, yInfoSweep, yProbe}
    Inodes = {i1, i2}
    KindOf <- MCKindOf
    ProcOf <- MCProcOf
    NoOne = NoOne
    NoInode = NoInode
SYMMETRY Symmetry
CHECK_DEADLOCK FALSE
INVARIANTS LeasesLeaveNoTrace
 
