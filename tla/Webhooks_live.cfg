\* A channel of a table: retries, deaths, rollbacks, digests, deadlocks, and their progress.
CONSTANTS
    alice = alice  tavern = tavern  castle = castle
    hers = hers  channel = channel
    d1 = d1  d2 = d2  d3 = d3  e1 = e1  e2 = e2
    Users = {alice}
    Tables = {tavern}
    Hooks = {channel}
    Events = {e1}
    Deliveries = {d1, d2}
    MaxAttempts = 2
    DisableAfter = 1
    ClaimBatch = 2
    MaxEmbeds = 1
    MaxFaults = 1
    MaxPings = 1
    MaxDoors = 2
    None = None
    Owner <- MCOwner
    At <- MCAt
    TableOf <- MCTableOf
    Wants <- MCWants
SPECIFICATION FairSpec
INVARIANTS TypeOK EndsForItsReason
PROPERTIES OutcomeFinal PostsOnlyDue KeepsLedger PendingSettles HeldIsCarried
CHECK_DEADLOCK FALSE
