SPECIFICATION MCSpec
CONSTANTS
    Users = {founder, u1, u2}
    NoUser = NoUser
    Founder = founder
    Invitations = {1, 2}
    NoInvitation = NoInvitation
    MaxUses = {1}
    Requests = {r1, r2}
    Faults = FALSE
SYMMETRY Alike
INVARIANTS
    LinkWithinMaxUses
