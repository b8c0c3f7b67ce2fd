SPECIFICATION MCSpec
CONSTANTS
    u1 = u1
    u2 = u2
    u3 = u3
    Users = {u1, u2}
    Founder = u1
    Joined = {u2}
    RowOf <- Pair
    Channels = {general}
    Rows = {1, 2}
    NoRow = 0
    Requests = {r1, r2}
    Ops <- AllOps
    Workloads <- OwnershipWorkloads
    Faults = FALSE
SYMMETRY Slots
INVARIANTS
    AlwaysOwned
