------------------------------ MODULE Treasury ------------------------------
(***************************************************************************)
(* Coin: the purse of a hero, the shelves it buys from, the DM's gifts and *)
(* what a quest pays, with requests in each other's way.                   *)
(*                                                                         *)
(* Source: internal/http/vendors.go, gifts.go, quests.go, quests_payout.go *)
(* and inventory.go, with their queries.                                   *)
(*                                                                         *)
(* A request is let in on what it reads, and its transaction goes on from  *)
(* there under READ COMMITTED: a SELECT sees what was committed, a row     *)
(* that is updated or selected FOR UPDATE stays the transaction's until it *)
(* ends, and what it wrote shows when it commits. Who may ask, what is in  *)
(* a pack beside its coin, and the codex are left out; a hero stays        *)
(* seated. Amounts are in the table's smallest coin.                       *)
(***************************************************************************)
EXTENDS Integers, Sequences

CONSTANTS
    Heroes, Lines, Quests,
    Requests,       \* bound: the requests that may be in flight at once
    MaxRows,        \* bound: the purses a hero may have at once
    Coins,          \* bound: what one gift, one price or one edit comes to
    Rewards,        \* bound: what the gold rewards of a quest come to
    Orders,         \* the heroes a gift or a payout names, in its order
    Ceiling,        \* purseCeiling: what a purse is filled to (2,000,000,000)
    Width,          \* what a count may not reach in 32 bits (2,147,483,648)
    MaxShelf,       \* bound: units of a line
    None            \* no line, no quest

Rows == 1..MaxRows
Count == 0..(Width - 1)

ASSUME TreasuryOK ==
    /\ MaxRows \in Nat \ {0}
    /\ Coins \subseteq Count /\ Rewards \subseteq Nat
    /\ Orders \subseteq {s \in Seq(Heroes) : s # <<>>}
    /\ \A s \in Orders : \A i, j \in DOMAIN s : s[i] = s[j] => i = j  \* "each named once"
    /\ Ceiling \in Nat /\ Width \in Nat /\ 0 < Ceiling /\ Ceiling < Width
    /\ MaxShelf \in Nat /\ None \notin Lines \cup Quests \cup Int

\* quest_status, an unfinished one being open; gone is a quest struck off.
Statuses == {"open", "completed", "gone"}

VARIABLES
    purse,        \* purse[h][i]: the coin in a purse row, 0 with no such row
    shelf,        \* vendor_stock: how many are left, None with no such row
    price,        \* what the line costs
    quest,        \* quests: status, what its gold rewards come to, whether paid_at is set
    req,          \* the requests in flight
    \* What the properties remember of what was done.
    due,          \* due[h][i]: what a hand last wrote in a row, and what came and went since
    left,         \* what a hand last put on a shelf, less what was sold since
    payouts       \* how often each quest was paid out

treasuryVars == <<purse, shelf, price, quest, req, due, left, payouts>>
ledger == <<due, left, payouts>>

\* What a transaction has written of a hero's coin: the row, 0 for one it inserts, its new
\* count, and the coin it was about.
Writes == [row : -1..MaxRows, qty : Count, by : Int]
NoWrite == [row |-> -1, qty |-> 0, by |-> 0]
NoWrites == [h \in Heroes |-> NoWrite]
Write(h, i, qty, by) == [NoWrites EXCEPT ![h] = [row |-> i, qty |-> qty, by |-> by]]

\* A request: the heroes it has yet to see to, the line or quest and the coin it is about,
\* the purse row it has seen (0 is none), and what its transaction has written.
Asked == [op : {"none", "buy", "gift", "pay", "edit", "write", "restock"},
          stage : {"in", "begun", "looked"},
          to : Seq(Heroes), what : Lines \cup Quests \cup {None},
          coin : Nat, row : 0..MaxRows, puts : [Heroes -> Writes]]

Request(op, to, what, coin, row) ==
    [op |-> op, stage |-> "in", to |-> to, what |-> what, coin |-> coin, row |-> row,
     puts |-> NoWrites]

Idle == Request("none", <<>>, None, 0, 0)

TreasuryTypeOK ==
    /\ purse \in [Heroes -> [Rows -> Count]]
    /\ shelf \in [Lines -> 0..MaxShelf \cup {None}]
    /\ price \in [Lines -> Coins]
    /\ quest \in [Quests -> [status : Statuses, gold : Nat, paid : BOOLEAN]]
    /\ req \in [Requests -> Asked]
    /\ due \in [Heroes -> [Rows -> Int]]
    /\ left \in [Lines -> Int]
    /\ payouts \in [Quests -> Nat]

TreasuryInit ==
    /\ purse = [h \in Heroes |-> [i \in Rows |-> 0]]
    /\ shelf = [l \in Lines |-> None]
    /\ price \in [Lines -> Coins]
    /\ quest = [q \in Quests |-> [status |-> "open", gold |-> 0, paid |-> FALSE]]
    /\ req = [r \in Requests |-> Idle]
    /\ due = purse
    /\ left = [l \in Lines |-> 0]
    /\ payouts = [q \in Quests |-> 0]

-----------------------------------------------------------------------------
(* Rows, locks and requests.                                               *)

Purses(h) == {i \in Rows : purse[h][i] > 0}

\* ORDER BY created_at, which is when the inserting transaction began: of two purses
\* either may come first. 0 is none.
PickPurse(h) == IF Purses(h) = {} THEN {0} ELSE Purses(h)

\* Mutant of Held: purses are read without FOR UPDATE.
HeldNoPurse(q) == IF q.stage # "in" /\ q.op \in {"buy", "pay"} THEN {q.what} ELSE {}

\* The rows a transaction holds until it ends.
Held(q) ==
    IF q.stage = "in" THEN {}
    ELSE {x \in Heroes \X Rows : q.puts[x[1]].row = x[2]}
         \cup (IF q.op \in {"buy", "pay"} THEN {q.what} ELSE {})

\* The rows a request would lock next.
Wanted(q) ==
    CASE q.op \in {"buy", "pay", "restock"} /\ q.stage = "in" -> {q.what}
      [] q.op = "edit" \/ (q.stage = "looked" /\ q.coin > 0 /\ q.row # 0)
             -> {<<q.to[1], q.row>>}
      [] OTHER -> {}

Waits(r, o) == o # r /\ Wanted(req[r]) \cap Held(req[o]) # {}
Free(r) == \A o \in Requests : ~Waits(r, o)
Untouched(x) == \A o \in Requests : x \notin Held(req[o])

LetIn(r, q) ==
    /\ req[r] = Idle
    /\ req' = [req EXCEPT ![r] = q]
    /\ UNCHANGED <<purse, shelf, price, quest, ledger>>

Answered(r) == req' = [req EXCEPT ![r] = Idle]

\* The next stage of a request, having seen row i.
Goes(r, stage, i) ==
    /\ req' = [req EXCEPT ![r] = [@ EXCEPT !.stage = stage, !.row = i]]
    /\ UNCHANGED <<purse, shelf, price, quest, ledger>>

\* A refusal, an error, a lost connection, a deadlock the database breaks: what the
\* transaction wrote is rolled back.
RollBack(r) ==
    /\ req[r] # Idle
    /\ Answered(r)
    /\ UNCHANGED <<purse, shelf, price, quest, ledger>>

About(q, h, i) ==
    \/ q.row = i /\ q.to # <<>> /\ q.to[1] = h
    \/ q.puts[h].row = i

\* An inserted row has an id that no request knows.
Spare(h) == {i \in Rows : purse[h][i] = 0 /\ \A r \in Requests : ~About(req[r], h, i)}

Lands(h, w) == IF w.row = 0 THEN CHOOSE i \in Spare(h) : TRUE ELSE w.row

Landed(ws, h, i) == ws[h] # NoWrite /\ Lands(h, ws[h]) = i

\* The coin written by a transaction is committed.
Committed(ws) ==
    /\ purse' = [h \in Heroes |-> [i \in Rows |->
           IF Landed(ws, h, i) THEN ws[h].qty ELSE purse[h][i]]]
    /\ due' = [h \in Heroes |-> [i \in Rows |->
           IF Landed(ws, h, i) THEN due[h][i] + ws[h].by ELSE due[h][i]]]

-----------------------------------------------------------------------------
(* The till (vendors.go).                                                  *)

\* BuyStock is let in on the line's price.
BuyStock(r, h, l) ==
    /\ shelf[l] # None
    /\ LetIn(r, Request("buy", <<h>>, l, price[l], 0))

\* Mutant of SoldOut: an empty shelf sells on.
SoldOutNever(l) == shelf[l] = None

SoldOut(l) == shelf[l] \in {None, 0}

\* SellStock takes the line's row, or finds the shelf empty; then the pack is read.
SellStock(r) ==
    LET q == req[r]
    IN  /\ q.op = "buy" /\ q.stage = "in" /\ Free(r)
        /\ IF SoldOut(q.what) THEN RollBack(r)
           ELSE \E i \in PickPurse(q.to[1]) : Goes(r, "looked", i)

\* The purse is read again under its lock.
CanPay(h, i, cost) == cost = 0 \/ (i # 0 /\ purse[h][i] >= cost)

\* What paying writes; an emptied purse is gone.
Payment(h, i, cost) ==
    IF cost = 0 THEN NoWrites ELSE Write(h, i, purse[h][i] - cost, -cost)

\* The coin and the goods move together or not at all.
PayForStock(r) ==
    LET q == req[r]
        h == q.to[1]
    IN  /\ q.op = "buy" /\ q.stage = "looked" /\ Free(r)
        /\ IF CanPay(h, q.row, q.coin)
           THEN /\ Committed(Payment(h, q.row, q.coin))
                /\ shelf' = [shelf EXCEPT ![q.what] = @ - 1]
                /\ left' = [left EXCEPT ![q.what] = @ - 1]
                /\ Answered(r)
                /\ UNCHANGED <<price, quest, payouts>>
           ELSE RollBack(r)

-----------------------------------------------------------------------------
(* Gifts, and what a quest pays (gifts.go, quests_payout.go).              *)

GiveGift(r, to, coin) == coin > 0 /\ LetIn(r, Request("gift", to, None, coin, 0))

BeginGift(r) == req[r].op = "gift" /\ req[r].stage = "in" /\ Goes(r, "begun", 0)

\* PayOutQuest is let in on the status and the rewards; split, or the whole to each.
PayOutQuest(r, q, to, split) ==
    LET each == IF split THEN quest[q].gold \div Len(to) ELSE quest[q].gold
    IN  /\ quest[q].status = "completed" /\ ~quest[q].paid /\ quest[q].gold > 0
        /\ LetIn(r, Request("pay", to, q, each, 0))

\* Mutant of Unpaid: paid_at is not looked at again.
UnpaidAsSeen(q) == quest[q].status # "gone"

\* "the row is claimed by whoever sets paid_at first".
Unpaid(q) == quest[q].status # "gone" /\ ~quest[q].paid

MarkQuestPaid(r) ==
    /\ req[r].op = "pay" /\ req[r].stage = "in" /\ Free(r)
    /\ IF Unpaid(req[r].what) THEN Goes(r, "begun", 0) ELSE RollBack(r)

\* fillPack reads the pack of the next hero.
LookInPack(r) ==
    /\ req[r].op \in {"gift", "pay"} /\ req[r].stage = "begun"
    /\ \E i \in PickPurse(req[r].to[1]) : Goes(r, "looked", i)

\* int32(coin): the low 32 bits.
Int32(n) == LET low == n % (2 * Width) IN IF low < Width THEN low ELSE low - 2 * Width

\* What the purse comes to.
Filled(h, i, coin) == IF i = 0 THEN Int32(coin) ELSE purse[h][i] + coin

\* Mutant of MayFill: the purse is not held to its ceiling.
MayFillAny(h, i, coin) == coin = 0 \/ i = 0 \/ purse[h][i] > 0

\* A purse there was may be gone, or full; a fresh one is not held to the ceiling, but its
\* row must count at least one.
MayFill(h, i, coin) ==
    \/ coin = 0
    \/ i = 0 /\ Filled(h, i, coin) >= 1
    \/ i # 0 /\ purse[h][i] > 0 /\ Filled(h, i, coin) <= Ceiling

\* Mutant of Put: what was put in the packs before this one is left behind.
PutLast(q) ==
    IF q.coin = 0 THEN q.puts
    ELSE [NoWrites EXCEPT ![q.to[1]] =
             [row |-> q.row, qty |-> Filled(q.to[1], q.row, q.coin), by |-> q.coin]]

\* fillPack's writes, added to the transaction's.
Put(q) ==
    LET h == q.to[1]
    IN  IF q.coin = 0 THEN q.puts
        ELSE [q.puts EXCEPT ![h] =
                 [row |-> q.row, qty |-> Filled(h, q.row, q.coin), by |-> q.coin]]

\* Bound: the rows it inserts have ids.
Room(ws) == \A h \in Heroes : ws[h].row = 0 => Spare(h) # {}

NextHero(r) ==
    LET q == req[r]
    IN  /\ req' = [req EXCEPT ![r] =
               [q EXCEPT !.stage = "begun", !.to = Tail(q.to), !.row = 0, !.puts = Put(q)]]
        /\ UNCHANGED <<purse, shelf, price, quest, ledger>>

\* The commit, after the last hero.
Handed(r) ==
    LET q == req[r]
    IN  /\ Committed(Put(q))
        /\ IF q.op = "pay"
           THEN /\ quest' = [quest EXCEPT ![q.what].paid = TRUE]
                /\ payouts' = [payouts EXCEPT ![q.what] = @ + 1]
           ELSE UNCHANGED <<quest, payouts>>
        /\ Answered(r)
        /\ UNCHANGED <<shelf, price, left>>

\* fillPack puts the coin in, under the purse's lock.
FillPack(r) ==
    LET q == req[r]
    IN  /\ q.op \in {"gift", "pay"} /\ q.stage = "looked" /\ Free(r)
        /\ IF ~MayFill(q.to[1], q.row, q.coin) \/ ~Room(Put(q)) THEN RollBack(r)
           ELSE IF Len(q.to) > 1 THEN NextHero(r) ELSE Handed(r)

-----------------------------------------------------------------------------
(* What the DM and the players write by hand.                              *)

\* AddInventoryItem, of a row named for the table's coin: the DM's alone. wouldBePurse looks
\* for a purse, and the insert follows.
AddInventoryItem(r, h, n) ==
    /\ n > 0 /\ Purses(h) = {}
    /\ LetIn(r, Request("write", <<h>>, None, n, 0))

AddPurse(r) ==
    LET h == req[r].to[1]
    IN  /\ req[r].op = "write" /\ Spare(h) # {}
        /\ Committed(Write(h, 0, req[r].coin, req[r].coin))
        /\ Answered(r)
        /\ UNCHANGED <<shelf, price, quest, left, payouts>>

\* UpdateInventoryItem writes the whole row: the count its SELECT saw, or a new one, the
\* DM's or a player's that only goes down.
UpdateInventoryItem(r, h, i, n) ==
    /\ n > 0 /\ purse[h][i] > 0
    /\ LetIn(r, Request("edit", <<h>>, None, n, i))

WriteItem(r) ==
    LET q == req[r]
        h == q.to[1]
    IN  /\ q.op = "edit" /\ Free(r)
        /\ IF purse[h][q.row] = 0 THEN RollBack(r)
           ELSE /\ purse' = [purse EXCEPT ![h][q.row] = q.coin]
                /\ due' = [due EXCEPT ![h][q.row] = q.coin]
                /\ Answered(r)
                /\ UNCHANGED <<shelf, price, quest, left, payouts>>

\* DeleteInventoryItem, of a purse.
DeleteInventoryItem(h, i) ==
    /\ purse[h][i] > 0 /\ Untouched(<<h, i>>)
    /\ purse' = [purse EXCEPT ![h][i] = 0]
    /\ due' = [due EXCEPT ![h][i] = 0]
    /\ UNCHANGED <<shelf, price, quest, req, left, payouts>>

\* AddStock: a line, with an id that no request knows.
AddStock(l, n) ==
    /\ shelf[l] = None /\ \A r \in Requests : req[r].what # l
    /\ shelf' = [shelf EXCEPT ![l] = n]
    /\ left' = [left EXCEPT ![l] = n]
    /\ UNCHANGED <<purse, price, quest, req, due, payouts>>

\* UpdateStock writes price and count: those it was given, or those it saw.
UpdateStock(r, l, n) == shelf[l] # None /\ LetIn(r, Request("restock", <<>>, l, n, 0))

WriteStock(r, p) ==
    LET l == req[r].what
    IN  /\ req[r].op = "restock" /\ Free(r)
        /\ IF shelf[l] = None THEN RollBack(r)
           ELSE /\ shelf' = [shelf EXCEPT ![l] = req[r].coin]
                /\ price' = [price EXCEPT ![l] = p]
                /\ left' = [left EXCEPT ![l] = req[r].coin]
                /\ Answered(r)
                /\ UNCHANGED <<purse, quest, due, payouts>>

DeleteStock(l) ==
    /\ shelf[l] # None /\ Untouched(l)
    /\ shelf' = [shelf EXCEPT ![l] = None]
    /\ left' = [left EXCEPT ![l] = 0]
    /\ UNCHANGED <<purse, price, quest, req, due, payouts>>

\* UpdateQuest replaces the status and, wholesale, the rewards. paid_at is not its to write.
UpdateQuest(q, status, gold) ==
    /\ quest[q].status # "gone" /\ Untouched(q)
    /\ quest' = [quest EXCEPT ![q].status = status, ![q].gold = gold]
    /\ UNCHANGED <<purse, shelf, price, req, ledger>>

DeleteQuest(q) ==
    /\ quest[q].status # "gone" /\ Untouched(q)
    /\ quest' = [quest EXCEPT ![q].status = "gone"]
    /\ UNCHANGED <<purse, shelf, price, req, ledger>>

-----------------------------------------------------------------------------
Step(r) ==
    \/ SellStock(r) \/ PayForStock(r)
    \/ BeginGift(r) \/ MarkQuestPaid(r) \/ LookInPack(r) \/ FillPack(r)
    \/ AddPurse(r) \/ WriteItem(r) \/ \E p \in Coins : WriteStock(r, p)

Ask(r) ==
    \/ \E h \in Heroes, l \in Lines : BuyStock(r, h, l)
    \/ \E to \in Orders, c \in Coins : GiveGift(r, to, c)
    \/ \E to \in Orders, q \in Quests, split \in BOOLEAN : PayOutQuest(r, q, to, split)
    \/ \E h \in Heroes, n \in Coins : AddInventoryItem(r, h, n)
    \/ \E h \in Heroes, i \in Rows : \E n \in Coins \cup {purse[h][i]} : UpdateInventoryItem(r, h, i, n)
    \/ \E l \in Lines, n \in 0..MaxShelf : UpdateStock(r, l, n)

TreasuryNext ==
    \/ \E r \in Requests : Ask(r) \/ Step(r) \/ RollBack(r)
    \/ \E h \in Heroes, i \in Rows : DeleteInventoryItem(h, i)
    \/ \E l \in Lines : DeleteStock(l) \/ \E n \in 1..MaxShelf : AddStock(l, n)
    \/ \E q \in Quests : \/ DeleteQuest(q)
                          \/ \E s \in Statuses \ {"gone"}, g \in Rewards : UpdateQuest(q, s, g)

TreasurySpec == TreasuryInit /\ [][TreasuryNext]_treasuryVars

-----------------------------------------------------------------------------
(* Safety.                                                                 *)

\* "two purchases must not both spend the same coin" (vendors.go), nor a gift and a
\* purchase lose one: a purse counts what a hand last wrote in it, what was put in since
\* and less what was taken out, whatever else was in flight.
CoinAddsUp == purse = due

\* "re-opening and re-completing it cannot pay twice" (quests_payout.go), nor two DMs at
\* the same moment.
QuestPaysOnce == \A q \in Quests : payouts[q] = IF quest[q].paid THEN 1 ELSE 0

\* A line counts what the DM last put there less what was sold since, and is never sold
\* past that: "same-line buys serialize" (vendors.sql).
ShelfAddsUp == \A l \in Lines : shelf[l] # None => shelf[l] = left[l] /\ left[l] >= 0

-----------------------------------------------------------------------------
(* What a table is promised of all this.                                   *)

\* The heroes a request sees to, whether it has yet or not.
Names(q) ==
    IF q.coin = 0 THEN {}
    ELSE {q.to[k] : k \in DOMAIN q.to} \cup {h \in Heroes : q.puts[h] # NoWrite}

\* What a request was let in to do.
Plea(q) == [op |-> q.op, to |-> Names(q), what |-> q.what, coin |-> q.coin,
            row |-> IF q.op = "edit" THEN q.row ELSE 0]

Asking == [r \in Requests |-> Plea(req[r])]

Coin == INSTANCE CoinLedger WITH ask <- Asking

\* "the coin and the goods move together or not at all" (vendors.go), "every pack changes
\* together or not at all" (gifts.go): whatever is in flight beside it, a request takes
\* effect in one step, on what it then finds, or not at all.
ServedWhole == Coin!Spec
=============================================================================
