SPECIFICATION TabSpec
CONSTANTS
    Sids = {1, 2}
    NoSid = NoSid
    Passwords = {p1}
    FirstPassword = p1
    Links = {}
    NoLink = NoLink
    Tabs = {t1}
    Refused = Refused
    Fetches = {c1}
    Requests <- TabSlots
    Ops <- TabOps
    Faults = FALSE
PROPERTIES
    LoggedOutStaysOut
