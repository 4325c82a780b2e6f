\* Two people, two tables and two heroes: doors, caps, the pool and who comes and goes.
CONSTANTS
    Users = {u1, u2}
    Tables = {t1, t2}
    Heroes = {h1, h2}
    None = none
    Founder <- FirstFounds
    MaxCap = 2
SPECIFICATION Spec
INVARIANTS TypeOK SeatedByMember
PROPERTIES BornStays BarredDoor HeroesOutliveTables CapHolds
SYMMETRY Symmetry
CHECK_DEADLOCK FALSE
