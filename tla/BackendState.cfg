SPECIFICATION MCSpec
CONSTANTS
    None = None
    q1 = q1  q2 = q2  p1 = p1  p2 = p2  a1 = a1  a2 = a2
    Requests = {q1, q2}
    Passwords = {p1, p2}
    Addresses = {a1, a2}
    CacheTTL = 1
    Latency = 1
    LockWindow = 4
    MaxFailed = 2
    MaxChanges = 2
    MaxClock = 5
    Users = {"u"}
    Lessons = {"lesson"}
    Quizzes = {"quiz"}
    Rewards = {1}
    MaxEdits = 1
INVARIANTS
    TypeOK
    PointsOnce
PROPERTIES
    DecidedByRecentRow
SYMMETRY Symmetry
CHECK_DEADLOCK FALSE
