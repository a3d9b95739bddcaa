SPECIFICATION MCSpec
CONSTANTS
    None = None
    Torn = Torn
    k1 = k1  k2 = k2  th = th
    t1 = t1  t2 = t2
    Threads = {t1, t2}
    Loop = "loop"
    Listener = "listener"
    Keys = {k1, k2, th}
    Volatile = {th}
    Stores = {"file", "run", "server"}
    Agents = {"a1", "a2"}
    Messages = {"asked", "silent"}
    Silent = {"silent"}
    Envelopes = {"envelope"}
    LayerNames = {"x", "y"}
    Modules = {"activity", "other", "usage"}
    Order <- MCOrder
    Trackers = {"activity", "usage"}
    HookTasks = {t1, t2}
    HookModels = {"m"}
    Class <- MCClass
    ModelBands = {"low", "high"}
    Extra = {"extra"}
    Sessions = {th}
    Blank = ""
    Modes = {"plan"}
    Toolsets = {{"gh", "docker", "distrobox"}, {"distrobox"}, {}}
    Targets = {"backend"}
    Files = {"file"}
    Reports = {{"error"}, {"high"}}
    Texts = {"good", "empty", "foreign", "cut"}
    Empty = {"empty"}
    Foreign = {"foreign"}
    Cut = {"cut"}
    Batches <- MCBatches
    Clients = {k1, k2}
    Unknown = "u"
    Usage = "usage"
    MaxHot = 1
    MaxRequests = 3
    MaxHops = 2
    MaxSends = 1
    MaxLayers = 3
    MaxSwitches = 2
    Retries = 2
    Budget = 2
    MaxCalls = 3
    MaxUses = 2
    MaxChats = 3
    MaxChecks = 2
    Fielded = {TRUE, FALSE}
    MaxTrace = 1
    Listeners = {t1, t2}
    Speakers = {"s"}
    MinSpeech = 2
    Silence = 1
INVARIANTS
    TypeOK
    DiskCurrent
    SentIsKept
    HooksPaired
    RequestsAgree
    RiskKeptFromLocal
    GivenUpStaysOut
    TokensAreOfAnswers
    AskedWhereAnswered
    GhRunsPrepared
    HealthyMeansTried
    LetThroughIsClean
    WholeUtterance
PROPERTIES
    KeepsPromise
    AskedOrderKept
    AnsweredRunsOnce
    RemovedWhenAnswered
    NothingSaidIsLost
SYMMETRY Symmetry
CHECK_DEADLOCK FALSE
