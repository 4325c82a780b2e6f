\* docs/API.md: nothing more is sent to a hook after eight deaths in a row.
CONSTANTS
    alice = alice  tavern = tavern  castle = castle
    hers = hers  channel = channel
    d1 = d1  d2 = d2  d3 = d3  e1 = e1  e2 = e2
    Users = {alice}
    Tables = {tavern, castle}
    Hooks = {hers}
    Events = {e1, e2}
    Deliveries = {d1, d2, d3}
    MaxAttempts = 1
    DisableAfter = 1
    ClaimBatch = 2
    MaxEmbeds = 1
    MaxFaults = 0
    MaxPings = 0
    MaxDoors = 0
    None = None
    Owner <- MCOwner
    At <- MCAt
    TableOf <- MCTableOf
    Wants <- MCWants
SPECIFICATION Spec
PROPERTIES NothingAfterDisabling
CHECK_DEADLOCK FALSE
