CONSTANTS
    Heroes = {vex}
    Folk = {sildar}
    Block = 1
    Encounters = {e1, e2}
    Rows = {a, b}
    Points <- MCGrown
    Rolls = {5}
    MaxPips = 1
    None = none StatBlock = block Nothing = nothing
SPECIFICATION TrackerSpec

PROPERTIES NeverApart
SYMMETRY Symmetry
