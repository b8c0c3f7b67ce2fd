SPECIFICATION MCSpec
CONSTANTS
    u1 = u1
    u2 = u2
    u3 = u3
    Users = {u1, u2, u3}
    Links = {l1}
    NoLink = NoLink
    MaxUses = {1, 2}
    Ids = {1, 2, 3}
    NoId = 0
    Requests = {r1, r2}
    Faults = TRUE
    Workloads <- AllWorkloads
    MaxLost = 2
CHECK_DEADLOCK FALSE
SYMMETRY Slots
INVARIANTS
    TypeOK
    AdmissionsBounded
    UncrossedWhenSerial
PROPERTIES
    OwnedUnlessSelfAdded
    ContactsAreWanted
    BlocksRespected
    ArchivedWhenSerial
