SPECIFICATION MCSpec
CONSTANTS
    Sids = {1, 2}
    NoSid = NoSid
    Passwords = {p1, p2}
    FirstPassword = p1
    Links = {}
    NoLink = NoLink
    Requests = {r1, r2}
    Ops <- AllOps
    Workloads <- ChangingWorkload
    Faults = TRUE
    Accounts = {}
    NoOne = NoOne
    Emails = {}
    NoEmail = NoEmail
    Letters = {}
    NoLetter = NoLetter
    Calls = {}
    Failures = TRUE
SYMMETRY Slots
INVARIANTS
    OldPasswordsOut
