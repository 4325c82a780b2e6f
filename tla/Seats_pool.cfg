\* A hero whose pregen flag outlived its offer.
CONSTANTS
    Users = {u1, u2}
    Tables = {t1}
    Heroes = {h1}
    None = none
    Founder <- FirstFounds
    MaxCap = 2
SPECIFICATION Spec
PROPERTIES PoolByOffer
CHECK_DEADLOCK FALSE
