SPECIFICATION MCSpec
CONSTANTS
    Sids = {1, 2, 3}
    NoSid = NoSid
    Passwords = {p1, p2}
    FirstPassword = p1
    Links = {l1, l2}
    NoLink = NoLink
    Requests = {r1, r2}
    Ops <- AllOps
    Workloads <- SoundWorkloads
    Faults = TRUE
    Accounts = {a1, a2}
    NoOne = NoOne
    Emails = {m1, m2, m3}
    NoEmail = NoEmail
    Letters = {v1, v2, v3}
    NoLetter = NoLetter
    Calls = {r1, r2}
    Failures = TRUE
SYMMETRY Alike
INVARIANTS
    TypeOK
    OneHeirPerLogin
    OldPasswordsOut
    LinkSetsOnce
    ProvenEmails
