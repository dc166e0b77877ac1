SPECIFICATION VideoSpec
CONSTANTS
    Hosts <- McHosts
    GpuMemory = {64, 128}
    Majors = {7, 8}
    Inventories <- McInventories
    Accelerators = {"videotoolbox", "qsv"}
    RpiGpuMinimum = 128
    Configs <- McConfigs
    CallerFilters = {"caller"}
    Requests <- McRequests
INVARIANTS
    VideoInv
    FramesInPlace
PROPERTY ProbeEnds
CHECK_DEADLOCK FALSE
