SPECIFICATION Spec
CONSTANTS
    Users = {u1, u2}
    Founder = u1
    Calls = {c1, c2, c3}
    MaxSessions = 4
SYMMETRY CallSymmetry
CHECK_DEADLOCK FALSE
INVARIANT ResetEndsSessions OneCredentialPerLine
PROPERTY OwnerStays
