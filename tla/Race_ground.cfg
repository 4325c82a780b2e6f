\* Everything that touches the ground of two tables, two at a time.
CONSTANTS
    Users = {u1, u2}
    Tables = {t1, t2}
    Realms = {r1, r2}
    Nobody = nobody
    Nowhere = nowhere
    Flaky = {}
    Racing = {"found", "disband", "move", "raze", "join", "transfer"}
    MaxInFlight = 2
SPECIFICATION RaceSpec
INVARIANTS GroundStands ClosedHoldsNobody
SYMMETRY Symmetry
CHECK_DEADLOCK FALSE
