SPECIFICATION MCSpec
CONSTANTS
    Sockets = {s1, s2}
    Channels = {general}
    Directs = {dm}
    Lanes = {m1, m2}
    NoRoom = NoRoom
    Faults = TRUE
    Workloads <- AllWorkloads
    Mails = {mail1, mail2}
    MaxClock = 2
    MaxLists = 2
    ReadingLoads <- AllReadingLoads
SYMMETRY Alike
INVARIANTS
    TypeOK
    LiveSocketsTracked
    NoFalseOffline
    PatientViewsAgree
    ReadIsSeen
    BadgeIsTheCount
