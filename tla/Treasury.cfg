\* Two heroes and two requests at one shelf and one quest.
CONSTANTS
    sella = sella  brom = brom
    Heroes = {sella, brom}
    Lines = {rope}
    Quests = {q1}
    Requests = {a, b}
    MaxRows = 2
    Coins = {1}
    Rewards = {1}
    Orders <- MCOrders
    Ceiling = 2
    Width = 3
    MaxShelf = 1
    None = none
SPECIFICATION TreasurySpec
INVARIANTS TreasuryTypeOK CoinAddsUp QuestPaysOnce ShelfAddsUp
PROPERTIES ServedWhole
SYMMETRY Symmetry
