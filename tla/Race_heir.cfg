\* A handover while the heir leaves.
CONSTANTS
    Users = {u1, u2}
    Tables = {t1}
    Realms = {r1}
    Nobody = nobody
    Nowhere = nowhere
    Flaky = {}
    Racing = {"found", "join", "leave", "transfer"}
    MaxInFlight = 2
SPECIFICATION RaceSpec
INVARIANTS OwnerIsDM
CHECK_DEADLOCK FALSE
