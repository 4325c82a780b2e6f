\* Digests of two hooks over two tables: claimed, queued, rescheduled, deleted.
CONSTANTS
    alice = alice  tavern = tavern  castle = castle
    hers = hers  channel = channel
    d1 = d1  d2 = d2  d3 = d3  e1 = e1  e2 = e2
    Users = {alice}
    Tables = {tavern, castle}
    Hooks = {hers, channel}
    Events = {e1, e2}
    Deliveries = {d1, d2, d3}
    MaxAttempts = 1
    DisableAfter = 2
    ClaimBatch = 2
    MaxEmbeds = 1
    MaxFaults = 1
    MaxPings = 0
    MaxDoors = 1
    None = None
    Owner <- MCOwner
    At <- MCAt
    TableOf <- MCTableOf
    Wants <- MCWants
SPECIFICATION Spec
INVARIANTS LineOnce BatchIntact LiveBelowThreshold FailuresAreDeaths
SYMMETRY Symmetry
CHECK_DEADLOCK FALSE
