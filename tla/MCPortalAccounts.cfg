\* Two accounts, two requests at a time.
SPECIFICATION Spec
CONSTANTS
    a = a
    b = b
    k1 = k1
    k2 = k2
    NoUser = NoUser
    User = {a, b}
    Founder = a
    Passkey = {k1, k2}
    Explored <- Asked
    MaxInFlight = 2
    MaxInvites = 1
INVARIANTS
    AdminsHaveFactor
    TeamKeepsLeader
PROPERTIES
    LastAdminKept
CHECK_DEADLOCK FALSE
SYMMETRY Symmetry
