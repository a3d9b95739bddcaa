\* A second read of an intact checkpoint, by the same process
SPECIFICATION Spec
CONSTANTS
    daemon = daemon  script = script  t1 = t1  t2 = t2
    checkpoint = checkpoint  file = file  small = small  large = large
    Processes <- MCProcesses
    Threads <- MCThreads
    ProcessOf <- MCOneProcessOf
    Paths <- MCPaths
    Files <- MCFiles
    SafePath <- MCSafePath
    Values <- MCValues
    Large <- MCLarge
    MaxWrites = 1
PROPERTIES
    RemovesOnlyCorrupted
