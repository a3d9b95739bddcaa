\* A task's checkpoint under two writers and readers in two processes; the queue file; voices
SPECIFICATION PartSpec
CONSTANTS
    daemon = daemon  script = script  t1 = t1  t2 = t2
    checkpoint = checkpoint  file = file  small = small  large = large
    Processes <- MCProcesses
    Threads <- MCThreads
    ProcessOf <- MCProcessOf
    Paths <- MCPaths
    Files <- MCFiles
    SafePath <- MCSafePath
    Values <- MCValues
    Large <- MCLarge
    MaxWrites = 1
    None = None
    w1 = w1  w2 = w2
INVARIANTS
    TypeOK
    CommitsSurvive
    TextsKept
PROPERTIES
    CallsReturn
    QueueDrains
    ListenerStops
