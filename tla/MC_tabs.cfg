SPECIFICATION FairTabSpec
CONSTANTS
    Sids = {1, 2, 3}
    NoSid = NoSid
    Passwords = {p1}
    FirstPassword = p1
    Links = {}
    NoLink = NoLink
    Tabs = {t1}
    Refused = Refused
    Fetches = {c1, c2}
    Requests <- TabSlots
    Ops <- TabOps
    Faults = TRUE
INVARIANTS
    TabTypeOK
    UnspentTokens
    NoSpentPairKept
PROPERTIES
    CallsSettle
