SPECIFICATION MCSpec
CONSTANTS
    Sockets = {s1, s2}
    Channels = {general}
    Directs = {dm}
    Lanes = {m1, m2}
    NoRoom = NoRoom
    Faults = TRUE
    Workloads <- ClosingTabs
    Mails = {}
    MaxClock = 1
    MaxLists = 1
    ReadingLoads = {"none"}
SYMMETRY Alike
INVARIANTS
    ConnectedIsNotOffline
