SPECIFICATION FairSpec
CONSTANTS
    u1 = u1
    u2 = u2
    t1 = t1
    t2 = t2
    t3 = t3
    Users = {u1, u2}
    Tabs = {t1, t2, t3}
    UserOf <- TabUsers
    f1 = f1
    f2 = f2
    s1 = s1
    s2 = s2
    w1 = w1
    Files = {f1, f2}
    Submits = {s1, s2}
    Forwarders = {w1}
    JobSlots = {f1, f2, s1, s2, w1}
    MaxKeys = 7
    MaxPosts = 4
    NoPost = 0
    Managers = {u1, u2}
    Msgs = {1, 2, 3}
    NoMsg = 0
    Emojis = {e1, e2}
    Rids = {1, 2, 3}
    Contents = {c1, c2}
    Times = {1, 2}
    PageSize = 1
    PinLoads = {pins1, pins2}
    Kinds = {"channel", "direct", "group"}
    None = None
    Refused = Refused
    Faults = TRUE
    Workloads <- TheWorkloads
CHECK_DEADLOCK FALSE
INVARIANTS
    TypeOK
    PagesSkipNothing
    FeedsAgree
    OneReactionPinsLive
    MessagesKeepFiles
    NothingLeftBehind
PROPERTIES
    PagesCatchUp
