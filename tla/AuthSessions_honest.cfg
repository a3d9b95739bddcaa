SPECIFICATION Spec
CONSTANTS
    u1 = u1  s1 = s1  s2 = s2  b1 = b1  b2 = b2  t1 = t1  q1 = q1  q2 = q2  q3 = q3
    None = None
    Users <- MCUsers
    Sessions <- MCSessions
    Browsers <- OneBrowser
    Tabs <- OneTab
    Requests <- TwoRequests
    AccessTTL = 1
    RefreshTTL = 2
    Reliable = TRUE
    MaxClock = 2
SYMMETRY Symmetry
INVARIANTS
    HonestClientKept
