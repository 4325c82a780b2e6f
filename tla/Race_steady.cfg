\* Every operation but a handover, two at a time.
CONSTANTS
    Users = {u1, u2}
    Tables = {t1}
    Realms = {r1, r2}
    Nobody = nobody
    Nowhere = nowhere
    Flaky = {}
    Racing <- NoHandover
    MaxInFlight = 2
SPECIFICATION RaceSpec
INVARIANTS RaceTypeOK OwnerIsDM GroundFollowsOwner
PROPERTIES NamedOutlives
SYMMETRY Symmetry
CHECK_DEADLOCK FALSE
