CONSTANTS
    Heroes = {vex}
    Folk = {sildar}
    Block = 1
    Encounters = {e1, e2}
    Rows = {a, b}
    Points <- MCPoints
    Rolls = {5}
    MaxPips = 1
    None = none StatBlock = block Nothing = nothing
SPECIFICATION TrackerSpec
INVARIANTS TrackerTypeOK PipsOnFloor MobRollsOnce
PROPERTIES MirrorKept
SYMMETRY Symmetry
