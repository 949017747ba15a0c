\* An administrator deleted while it demotes the other.
SPECIFICATION Spec
CONSTANTS
    a = a
    b = b
    k1 = k1
    k2 = k2
    NoUser = NoUser
    User = {a, b}
    Founder = a
    Passkey = {k1, k2}
    Explored <- Asked
    MaxInFlight = 2
    MaxInvites = 1
INVARIANTS
    SomeAdminRemains
CHECK_DEADLOCK FALSE
SYMMETRY Symmetry
