\* Two people, two tables and their ground: comings and goings, bans, handovers, moves,
\* sweeps and the week of an account that asked to be deleted. One of the two is somebody
\* whose sessions may fail to end.
CONSTANTS
    Users = {u1, u2}
    Tables = {t1, t2}
    Realms = {r1, r2}
    Nobody = nobody
    Nowhere = nowhere
    Flaky = {u2}
SPECIFICATION FairSpec
INVARIANTS TypeOK OwnerIsDM GroundFollowsOwner BarredStayOut NoHollowRealm LeavingIsClear TombstoneHeldClear
PROPERTIES LeavingResolves
CHECK_DEADLOCK FALSE
