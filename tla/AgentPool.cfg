SPECIFICATION Spec
CONSTANTS
    t1 = t1  t2 = t2
    None = None
    Agents <- MCAgents
    Position <- MCPosition
    Executors = {"l", "g"}
    Remote = {}
    Critical = {}
    Skills = {"code", "fix"}
    Provider <- MCProvider
    Capabilities <- MCCapabilities
    Limit <- MCLimit
    Providers <- MCProviders
    Reports <- MCReports
    Threads = {t1, t2}
    Plans <- MCPlans
    FixOrder <- MCFixOrder
    Imported = {TRUE, FALSE}
    Tearing = {FALSE}
    RetryLimit = 3
    MaxCalls = 2
INVARIANTS
    TypeOK
    BusyMeansRunning
    CountsAgree
PROPERTIES
    CallsEnd
SYMMETRY Symmetry
