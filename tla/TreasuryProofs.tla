-------------------------- MODULE TreasuryProofs --------------------------
(***************************************************************************)
(* What Treasury keeps for any heroes, lines, quests and requests.         *)
(*                                                                         *)
(* The inductive invariant says what a request in flight may rely on: what *)
(* it holds nobody else holds, so the count it has written still answers   *)
(* to the row, the unit it has sold is still on the shelf, and the quest   *)
(* it has marked is still unpaid.                                          *)
(***************************************************************************)
EXTENDS Treasury, TLAPS

\* A quest's rewards stay below 2^32 of the smallest coin: past that, int32 cuts a fresh
\* purse short.
NoWrap == \A g \in Rewards : g < 2 * Width

\* What the requests are by construction.
Shaped(q) ==
    /\ q \in Asked
    /\ q.op = "buy" => q.what \in Lines
    /\ q.op = "pay" => q.what \in Quests
    /\ q.op = "restock" => q.what \in Lines /\ q.coin \in 0..MaxShelf
    /\ q.op \in {"buy", "gift", "pay", "edit", "write"} => Len(q.to) > 0
    /\ q.op \in {"edit", "write"} => q.coin \in Count \ {0}
    /\ q.op = "edit" => q.row \in Rows
    /\ q.stage # "in" => q.op \in {"buy", "gift", "pay"}
    /\ q.stage = "in" \/ q.op = "buy" => q.puts = NoWrites
    /\ \A i, j \in DOMAIN q.to : q.to[i] = q.to[j] => i = j
    /\ \A i \in DOMAIN q.to : q.puts[q.to[i]] = NoWrite
    /\ \A h \in Heroes : q.puts[h].row = -1 => q.puts[h] = NoWrite
    /\ NoWrap /\ q.op \in {"gift", "pay"} => q.coin < 2 * Width
    /\ NoWrap => \A h \in Heroes : q.puts[h].row = 0 => q.puts[h].qty = q.puts[h].by

\* What it has written answers to the row it holds.
Answers(q) == \A h \in Heroes, i \in Rows :
    q.puts[h].row = i => q.puts[h].qty = purse[h][i] + q.puts[h].by

\* A unit sold is on the shelf until the sale commits.
OnShelf(q) == q.op = "buy" /\ q.stage = "looked" => shelf[q.what] \in 1..MaxShelf

\* A quest marked is unpaid until the payout commits.
Marked(q) == q.op = "pay" /\ q.stage # "in" => ~quest[q.what].paid

Fine(q) == Shaped(q) /\ Answers(q) /\ OnShelf(q) /\ Marked(q)

\* No row is held twice.
Apart == \A r, o \in Requests : r # o => Held(req[r]) \cap Held(req[o]) = {}

\* The tables, whatever is in flight.
Settled ==
    /\ TreasuryTypeOK
    /\ \A q \in Quests : quest[q].gold \in Rewards \cup {0}
    /\ QuestPaysOnce
    /\ ShelfAddsUp
    /\ NoWrap => CoinAddsUp

TreasuryInv == Settled /\ Apart /\ \A r \in Requests : Fine(req[r])

-----------------------------------------------------------------------------
(* Requests.                                                               *)

LEMMA CountInt == ASSUME NEW n \in Count PROVE n \in Int
  BY TreasuryOK DEF Count

\* A write names one hero.
LEMMA OneWrite ==
    ASSUME NEW h \in Heroes, NEW i \in -1..MaxRows, NEW n \in Count, NEW b \in Int
    PROVE  /\ Write(h, i, n, b) \in [Heroes -> Writes]
           /\ Write(h, i, n, b)[h] = [row |-> i, qty |-> n, by |-> b]
           /\ \A x \in Heroes \ {h} : Write(h, i, n, b)[x] = NoWrite
  BY TreasuryOK DEF Write, NoWrites, NoWrite, Writes, Count

LEMMA NoWritesType ==
    /\ NoWrites \in [Heroes -> Writes]
    /\ \A h \in Heroes : NoWrites[h] = NoWrite /\ NoWrites[h].row = -1
  BY TreasuryOK DEF NoWrites, NoWrite, Writes, Count

\* A request that has just been let in has what it was given.
LEMMA RequestFields ==
    ASSUME NEW op, NEW to, NEW what, NEW coin, NEW row
    PROVE  LET q == Request(op, to, what, coin, row)
           IN  /\ q.op = op /\ q.stage = "in" /\ q.to = to /\ q.what = what
               /\ q.coin = coin /\ q.row = row /\ q.puts = NoWrites
               /\ Held(q) = {} /\ Answers(q) /\ OnShelf(q) /\ Marked(q)
  <1> DEFINE q == Request(op, to, what, coin, row)
  <1>1. /\ q.op = op /\ q.stage = "in" /\ q.to = to /\ q.what = what
        /\ q.coin = coin /\ q.row = row /\ q.puts = NoWrites
      BY DEF Request
  <1>2. Held(q) = {} BY <1>1 DEF Held
  <1>3. OnShelf(q) /\ Marked(q) BY <1>1 DEF OnShelf, Marked
  <1>4. \A h \in Heroes : q.puts[h].row = -1 BY <1>1, NoWritesType
  <1>5. Answers(q) BY <1>4, TreasuryOK DEF Answers, Rows
  <1> QED BY <1>1, <1>2, <1>3, <1>5

\* Nothing is held and nothing written at the door.
LEMMA AtTheDoor ==
    ASSUME NEW q, Shaped(q), q.stage = "in"
    PROVE  Held(q) = {}
  BY DEF Held

\* Idle asks for nothing.
LEMMA IdleFine == Idle \in Asked /\ Fine(Idle) /\ Held(Idle) = {}
  <1>1. /\ Idle.op = "none" /\ Idle.stage = "in" /\ Idle.to = <<>> /\ Idle.what = None
        /\ Idle.coin = 0 /\ Idle.row = 0 /\ Idle.puts = NoWrites
        /\ Held(Idle) = {} /\ Answers(Idle) /\ OnShelf(Idle) /\ Marked(Idle)
      BY RequestFields DEF Idle
  <1>2. Idle \in Asked
      BY NoWritesType, TreasuryOK DEF Idle, Request, Asked
  <1>3. Shaped(Idle)
      BY <1>1, <1>2, NoWritesType, TreasuryOK DEF Shaped, NoWrite
  <1> QED BY <1>1, <1>2, <1>3 DEF Fine

\* When only what a request says of itself changes, it is enough that it may say so.
LEMMA OneRequest ==
    ASSUME TreasuryInv, NEW r \in Requests, NEW q \in Asked,
           req' = [req EXCEPT ![r] = q], Fine(q),
           \A o \in Requests \ {r} : Held(q) \cap Held(req[o]) = {},
           UNCHANGED <<purse, shelf, price, quest, ledger>>
    PROVE  TreasuryInv'
  <1>1. req' \in [Requests -> Asked]
      BY DEF TreasuryInv, Settled, TreasuryTypeOK
  <1>2. Settled'
      BY <1>1 DEF TreasuryInv, Settled, TreasuryTypeOK, ledger, QuestPaysOnce, ShelfAddsUp, CoinAddsUp
  <1>3. \A x \in Requests : req'[x] = IF x = r THEN q ELSE req[x]
      BY DEF TreasuryInv, Settled, TreasuryTypeOK
  <1>4. Apart'
      BY <1>3 DEF Apart, TreasuryInv
  <1>5. \A x \in Requests : Fine(req[x])'
    <2> TAKE x \in Requests
    <2>1. Fine(req'[x]) BY <1>3 DEF TreasuryInv
    <2> QED BY <2>1 DEF Fine, Shaped, Answers, OnShelf, Marked
  <1> QED BY <1>2, <1>4, <1>5 DEF TreasuryInv

LEMMA RollBackKeeps ==
    ASSUME TreasuryInv, NEW r \in Requests, RollBack(r)
    PROVE  TreasuryInv'
  <1>1. \A o \in Requests \ {r} : Held(Idle) \cap Held(req[o]) = {}
      BY IdleFine
  <1> QED BY <1>1, IdleFine, OneRequest DEF RollBack, Answered

\* Who is let in holds nothing yet.
LEMMA LetInKeeps ==
    ASSUME TreasuryInv, NEW r \in Requests, NEW q \in Asked, LetIn(r, q),
           Shaped(q), Answers(q), OnShelf(q), Marked(q), Held(q) = {}
    PROVE  TreasuryInv'
  BY OneRequest DEF LetIn, Fine

-----------------------------------------------------------------------------
(* Who is let in.                                                          *)

LEMMA Share ==
    ASSUME NEW g \in Nat, NEW n \in Nat \ {0}
    PROVE  g \div n \in Nat /\ g \div n <= g
  OBVIOUS

LEMMA CoinCounts == ASSUME NEW c \in Coins PROVE c \in Nat /\ c < 2 * Width
  BY TreasuryOK DEF Count

\* A request as it comes: shaped if what it asks for is.
LEMMA Asks ==
    ASSUME NEW op \in {"buy", "gift", "pay", "edit", "write", "restock"},
           NEW to \in Seq(Heroes), NEW what \in Lines \cup Quests \cup {None},
           NEW coin \in Nat, NEW row \in 0..MaxRows,
           op \in {"buy", "restock"} => what \in Lines,
           op = "pay" => what \in Quests,
           op = "restock" => coin \in 0..MaxShelf,
           op # "restock" => Len(to) > 0,
           op \in {"edit", "write"} => coin \in Count \ {0},
           op = "edit" => row \in Rows,
           \A i, j \in DOMAIN to : to[i] = to[j] => i = j,
           NoWrap /\ op \in {"gift", "pay"} => coin < 2 * Width
    PROVE  LET q == Request(op, to, what, coin, row)
           IN  q \in Asked /\ Shaped(q)
  <1> DEFINE q == Request(op, to, what, coin, row)
  <1>1. /\ q.op = op /\ q.stage = "in" /\ q.to = to /\ q.what = what
        /\ q.coin = coin /\ q.row = row /\ q.puts = NoWrites
      BY DEF Request
  <1>2. q \in Asked
      BY NoWritesType DEF Request, Asked
  <1>3. \A i \in DOMAIN q.to : q.puts[q.to[i]] = NoWrite
      BY <1>1, NoWritesType
  <1>4. \A h \in Heroes : q.puts[h] = NoWrite /\ q.puts[h].row = -1
      BY <1>1, NoWritesType
  <1> HIDE DEF q
  <1>5. Shaped(q)
      BY <1>1, <1>2, <1>3, <1>4 DEF Shaped
  <1> QED BY <1>2, <1>5 DEF q

LEMMA One == ASSUME NEW h \in Heroes
             PROVE  /\ <<h>> \in Seq(Heroes) /\ Len(<<h>>) > 0 /\ 0 \in 0..MaxRows
                    /\ \A i, j \in DOMAIN <<h>> : <<h>>[i] = <<h>>[j] => i = j
  BY TreasuryOK

\* The orders name each hero once.
LEMMA Named == ASSUME NEW to \in Orders
               PROVE  /\ to \in Seq(Heroes) /\ Len(to) > 0 /\ Len(to) \in Nat
                      /\ \A i, j \in DOMAIN to : to[i] = to[j] => i = j
  BY TreasuryOK

LEMMA AskKeeps ==
    ASSUME TreasuryInv, NEW r \in Requests, Ask(r)
    PROVE  TreasuryInv'
  <1>0. /\ price \in [Lines -> Coins] /\ purse \in [Heroes -> [Rows -> Count]]
        /\ quest \in [Quests -> [status : Statuses, gold : Nat, paid : BOOLEAN]]
        /\ \A q \in Quests : quest[q].gold \in Rewards \cup {0}
      BY DEF TreasuryInv, Settled, TreasuryTypeOK
  <1>1. ASSUME NEW h \in Heroes, NEW l \in Lines, BuyStock(r, h, l) PROVE TreasuryInv'
    <2>0. price[l] \in Coins BY <1>0
    <2>1. price[l] \in Nat BY <2>0, CoinCounts
    <2>2. LET q == Request("buy", <<h>>, l, price[l], 0) IN q \in Asked /\ Shaped(q)
        BY <2>1, One, Asks
    <2> QED BY <1>1, <2>2, RequestFields, LetInKeeps DEF BuyStock
  <1>2. ASSUME NEW to \in Orders, NEW c \in Coins, GiveGift(r, to, c) PROVE TreasuryInv'
    <2>1. c \in Nat /\ c < 2 * Width BY CoinCounts
    <2>2. LET q == Request("gift", to, None, c, 0) IN q \in Asked /\ Shaped(q)
        BY <2>1, Named, Asks, TreasuryOK
    <2> QED BY <1>2, <2>2, RequestFields, LetInKeeps DEF GiveGift
  <1>3. ASSUME NEW to \in Orders, NEW q \in Quests, NEW split \in BOOLEAN,
               PayOutQuest(r, q, to, split)
        PROVE  TreasuryInv'
    <2> DEFINE each == IF split THEN quest[q].gold \div Len(to) ELSE quest[q].gold
    <2>1. quest[q].gold \in Nat BY <1>0
    <2>0. Len(to) \in Nat \ {0} BY Named
    <2>2. each \in Nat /\ each <= quest[q].gold BY <2>0, <2>1, Share
    <2>3. NoWrap => quest[q].gold < 2 * Width BY <1>0, TreasuryOK DEF NoWrap
    <2>4. NoWrap => each < 2 * Width BY <2>1, <2>2, <2>3, TreasuryOK
    <2> HIDE DEF each
    <2>5. LET x == Request("pay", to, q, each, 0) IN x \in Asked /\ Shaped(x)
        BY <2>2, <2>4, Named, Asks, TreasuryOK
    <2> QED BY <1>3, <2>5, RequestFields, LetInKeeps DEF PayOutQuest, each
  <1>4. ASSUME NEW h \in Heroes, NEW n \in Coins, AddInventoryItem(r, h, n) PROVE TreasuryInv'
    <2>1. n \in Count \ {0} /\ n \in Nat BY <1>4, TreasuryOK DEF Count, AddInventoryItem
    <2>2. LET q == Request("write", <<h>>, None, n, 0) IN q \in Asked /\ Shaped(q)
        BY <2>1, One, Asks
    <2> QED BY <1>4, <2>2, RequestFields, LetInKeeps DEF AddInventoryItem
  <1>5. ASSUME NEW h \in Heroes, NEW i \in Rows, NEW n \in Coins \cup {purse[h][i]},
               UpdateInventoryItem(r, h, i, n)
        PROVE  TreasuryInv'
    <2>1. n \in Count \ {0} /\ n \in Nat /\ i \in 0..MaxRows
        BY <1>0, <1>5, TreasuryOK DEF Count, UpdateInventoryItem, Rows
    <2>2. LET q == Request("edit", <<h>>, None, n, i) IN q \in Asked /\ Shaped(q)
        BY <2>1, One, Asks
    <2> QED BY <1>5, <2>2, RequestFields, LetInKeeps DEF UpdateInventoryItem
  <1>6. ASSUME NEW l \in Lines, NEW n \in 0..MaxShelf, UpdateStock(r, l, n) PROVE TreasuryInv'
    <2>1. n \in Nat /\ <<>> \in Seq(Heroes) /\ \A i, j \in DOMAIN <<>> : <<>>[i] = <<>>[j] => i = j
        BY TreasuryOK
    <2>3. 0 \in 0..MaxRows /\ l \in Lines \cup Quests \cup {None} BY TreasuryOK
    <2>2. LET q == Request("restock", <<>>, l, n, 0) IN q \in Asked /\ Shaped(q)
        BY <2>1, <2>3, Asks
    <2> QED BY <1>6, <2>2, RequestFields, LetInKeeps DEF UpdateStock
  <1> QED BY <1>1, <1>2, <1>3, <1>4, <1>5, <1>6 DEF Ask

-----------------------------------------------------------------------------
(* What a request reads and locks.                                         *)

\* A request goes on, and holds what nobody else does.
LEMMA GoesKeeps ==
    ASSUME TreasuryInv, NEW r \in Requests, NEW i \in 0..MaxRows,
           NEW stage \in {"begun", "looked"}, Goes(r, stage, i),
           req[r].op \in {"buy", "gift", "pay"},
           req[r].stage = "in" => \A o \in Requests \ {r} :
               req[r].op \in {"buy", "pay"} => req[r].what \notin Held(req[o]),
           req[r].op = "buy" => shelf[req[r].what] \in 1..MaxShelf,
           req[r].op = "pay" => ~quest[req[r].what].paid
    PROVE  TreasuryInv'
  <1> DEFINE q == req[r]
             n == [q EXCEPT !.stage = stage, !.row = i]
  <1>1. q \in Asked /\ Fine(q) BY DEF TreasuryInv, Settled, TreasuryTypeOK
  <1>2. /\ n \in Asked /\ n.op = q.op /\ n.stage = stage /\ n.to = q.to /\ n.what = q.what
        /\ n.coin = q.coin /\ n.row = i /\ n.puts = q.puts
      BY <1>1 DEF Asked
  <1> HIDE DEF n
  <1>3. Shaped(n)
      BY <1>1, <1>2 DEF Fine, Shaped
  <1>4. Answers(n) /\ OnShelf(n) /\ Marked(n)
      BY <1>1, <1>2 DEF Fine, Answers, OnShelf, Marked
  <1>5. q.stage # "in" => Held(n) = Held(q)
      BY <1>2 DEF Held
  <1>6. q.stage = "in" => Held(n) = IF q.op \in {"buy", "pay"} THEN {q.what} ELSE {}
    <2> SUFFICES ASSUME q.stage = "in" PROVE Held(n) = IF q.op \in {"buy", "pay"} THEN {q.what} ELSE {}
        OBVIOUS
    <2>1. q.puts = NoWrites BY <1>1 DEF Fine, Shaped
    <2>2. \A h \in Heroes, k \in Rows : q.puts[h].row # k
        BY <2>1, NoWritesType, TreasuryOK DEF Rows
    <2>3. {x \in Heroes \X Rows : n.puts[x[1]].row = x[2]} = {} BY <2>2, <1>2
    <2> QED BY <2>3, <1>2 DEF Held
  <1>7. \A o \in Requests \ {r} : Held(n) \cap Held(req[o]) = {}
      BY <1>5, <1>6 DEF TreasuryInv, Apart
  <1>8. req' = [req EXCEPT ![r] = n] BY DEF Goes, n
  <1> QED BY <1>2, <1>3, <1>4, <1>7, <1>8, OneRequest DEF Goes, Fine

\* Nobody holds what a request has waited for.
LEMMA FreeHolds ==
    ASSUME NEW r \in Requests, Free(r), NEW x \in Wanted(req[r]), NEW o \in Requests \ {r}
    PROVE  x \notin Held(req[o])
  BY DEF Free, Waits

LEMMA SeesRows == ASSUME NEW h \in Heroes, NEW i \in PickPurse(h) PROVE i \in 0..MaxRows
  BY TreasuryOK DEF PickPurse, Purses, Rows

\* SELECTs and first locks: SellStock, BeginGift, MarkQuestPaid, LookInPack.
LEMMA LooksKeep ==
    ASSUME TreasuryInv, NEW r \in Requests,
           SellStock(r) \/ BeginGift(r) \/ MarkQuestPaid(r) \/ LookInPack(r)
    PROVE  TreasuryInv'
  <1> DEFINE q == req[r]
  <1>0. q \in Asked /\ Fine(q) BY DEF TreasuryInv, Settled, TreasuryTypeOK
  <1>1. CASE SellStock(r)
    <2>1. q.op = "buy" /\ q.stage = "in" /\ Free(r) BY <1>1 DEF SellStock
    <2>2. CASE SoldOut(q.what) BY <1>1, <2>2, RollBackKeeps DEF SellStock
    <2>3. CASE ~SoldOut(q.what)
      <3>1. PICK i \in PickPurse(q.to[1]) : Goes(r, "looked", i) BY <1>1, <2>3 DEF SellStock
      <3>2. q.what \in Lines /\ q.to[1] \in Heroes
          BY <1>0, <2>1 DEF Fine, Shaped, Asked
      <3>3. shelf[q.what] \in 1..MaxShelf
          BY <2>3, <3>2 DEF SoldOut, TreasuryInv, Settled, TreasuryTypeOK
      <3>4. \A o \in Requests \ {r} : q.what \notin Held(req[o])
          BY <2>1, FreeHolds DEF Wanted
      <3> QED BY <2>1, <3>1, <3>2, <3>3, <3>4, SeesRows, GoesKeeps
    <2> QED BY <2>2, <2>3
  <1>2. CASE BeginGift(r)
      BY <1>2, GoesKeeps, TreasuryOK DEF BeginGift
  <1>3. CASE MarkQuestPaid(r)
    <2>1. q.op = "pay" /\ q.stage = "in" /\ Free(r) BY <1>3 DEF MarkQuestPaid
    <2>2. CASE ~Unpaid(q.what) BY <1>3, <2>2, RollBackKeeps DEF MarkQuestPaid
    <2>3. CASE Unpaid(q.what)
      <3>1. Goes(r, "begun", 0) BY <1>3, <2>3 DEF MarkQuestPaid
      <3>2. \A o \in Requests \ {r} : q.what \notin Held(req[o])
          BY <2>1, FreeHolds DEF Wanted
      <3> QED BY <2>1, <2>3, <3>1, <3>2, GoesKeeps, TreasuryOK DEF Unpaid
    <2> QED BY <2>2, <2>3
  <1>4. CASE LookInPack(r)
    <2>1. q.op \in {"gift", "pay"} /\ q.stage = "begun" BY <1>4 DEF LookInPack
    <2>2. PICK i \in PickPurse(q.to[1]) : Goes(r, "looked", i) BY <1>4 DEF LookInPack
    <2>3. q.to[1] \in Heroes BY <1>0, <2>1 DEF Fine, Shaped, Asked
    <2>4. q.op = "pay" => ~quest[q.what].paid BY <1>0, <2>1 DEF Fine, Marked
    <2> QED BY <2>1, <2>2, <2>3, <2>4, SeesRows, GoesKeeps
  <1> QED BY <1>1, <1>2, <1>3, <1>4

-----------------------------------------------------------------------------
(* What a commit does.                                                     *)

\* What a transaction may commit: its own rows, rows that are there, and new ones there is
\* room for.
Committable(ws) ==
    /\ ws \in [Heroes -> Writes] /\ Room(ws)
    /\ \A h \in Heroes : ws[h].row = -1 => ws[h] = NoWrite

\* Where it lands is a row: the one it holds, or an empty one that no request knows.
LEMMA LandsInARow ==
    ASSUME NEW ws, Committable(ws), NEW h \in Heroes, NEW i, Landed(ws, h, i)
    PROVE  /\ i \in Rows
           /\ ws[h].row = 0 => i \in Spare(h)
           /\ ws[h].row # 0 => i = ws[h].row
  <1>1. ws[h].row \in -1..MaxRows /\ ws[h].row # -1
      BY DEF Committable, Writes, Landed
  <1>2. CASE ws[h].row = 0
    <2>1. Spare(h) # {} /\ i = CHOOSE x \in Spare(h) : TRUE
        BY <1>2 DEF Committable, Room, Landed, Lands
    <2>2. i \in Spare(h) BY <2>1
    <2> QED BY <1>2, <2>2 DEF Spare
  <1>3. CASE ws[h].row # 0
      BY <1>1, <1>3, TreasuryOK DEF Landed, Lands, Rows
  <1> QED BY <1>2, <1>3

\* Types are kept.
LEMMA CommitTypes ==
    ASSUME TreasuryTypeOK, NEW ws, Committable(ws), Committed(ws)
    PROVE  purse' \in [Heroes -> [Rows -> Count]] /\ due' \in [Heroes -> [Rows -> Int]]
  <1>1. \A h \in Heroes : ws[h].qty \in Count /\ ws[h].by \in Int
      BY DEF Committable, Writes
  <1>2. \A h \in Heroes, i \in Rows : purse[h][i] \in Count /\ due[h][i] \in Int
      BY DEF TreasuryTypeOK
  <1> QED BY <1>1, <1>2 DEF Committed

\* The rows another request has written in are not touched.
LEMMA CommitSpares ==
    ASSUME TreasuryInv, NEW r \in Requests, NEW ws, Committable(ws), Committed(ws),
           \A h \in Heroes, i \in Rows : ws[h].row = i =>
               \A o \in Requests \ {r} : <<h, i>> \notin Held(req[o]),
           NEW o \in Requests \ {r}
    PROVE  \A h \in Heroes, i \in Rows : req[o].puts[h].row = i => purse'[h][i] = purse[h][i]
  <1>0. Shaped(req[o]) BY DEF TreasuryInv, Fine
  <1> SUFFICES ASSUME NEW h \in Heroes, NEW i \in Rows, req[o].puts[h].row = i
               PROVE  purse'[h][i] = purse[h][i]
      OBVIOUS
  <1>1. req[o].stage # "in"
    <2> SUFFICES ASSUME req[o].stage = "in" PROVE FALSE OBVIOUS
    <2>1. req[o].puts = NoWrites BY <1>0 DEF Shaped
    <2> QED BY <2>1, NoWritesType, TreasuryOK DEF Rows
  <1>2. <<h, i>> \in Held(req[o]) BY <1>1 DEF Held
  <1>3. ~Landed(ws, h, i)
    <2> SUFFICES ASSUME Landed(ws, h, i) PROVE FALSE OBVIOUS
    <2>1. CASE ws[h].row = 0 BY <2>1, LandsInARow DEF Spare, About
    <2>2. CASE ws[h].row # 0 BY <1>2, <2>2, LandsInARow
    <2> QED BY <2>1, <2>2
  <1> QED BY <1>3 DEF Committed

\* A commit whose counts answer to the rows keeps the coin adding up.
LEMMA CommitAddsUp ==
    ASSUME TreasuryTypeOK, CoinAddsUp, NEW ws, Committable(ws), Committed(ws),
           \A h \in Heroes : ws[h].row = 0 => ws[h].qty = ws[h].by,
           \A h \in Heroes, i \in Rows : ws[h].row = i => ws[h].qty = purse[h][i] + ws[h].by
    PROVE  CoinAddsUp'
  <1>1. \A h \in Heroes, i \in Rows : purse[h][i] \in Int /\ due[h][i] = purse[h][i]
      BY TreasuryOK DEF TreasuryTypeOK, CoinAddsUp, Count
  <1>2. \A h \in Heroes : ws[h].qty \in Int /\ ws[h].by \in Int
    <2>1. \A h \in Heroes : ws[h].qty \in Count /\ ws[h].by \in Int BY DEF Committable, Writes
    <2> QED BY <2>1, CountInt
  <1>3. ASSUME NEW h \in Heroes, NEW i \in Rows PROVE due'[h][i] = purse'[h][i]
    <2>1. CASE ~Landed(ws, h, i) BY <1>1, <2>1 DEF Committed
    <2>2. CASE Landed(ws, h, i)
      <3>1. due'[h][i] = due[h][i] + ws[h].by /\ purse'[h][i] = ws[h].qty
          BY <2>2 DEF Committed
      <3>2. CASE ws[h].row = 0
        <4>1. purse[h][i] = 0 BY <2>2, <3>2, LandsInARow DEF Spare
        <4> QED BY <1>1, <1>2, <3>1, <3>2, <4>1
      <3>3. CASE ws[h].row # 0
        <4>1. ws[h].row = i BY <2>2, <3>3, LandsInARow
        <4> QED BY <1>1, <1>2, <3>1, <4>1
      <3> QED BY <3>2, <3>3
    <2> QED BY <2>1, <2>2
  <1>4. purse' \in [Heroes -> [Rows -> Count]] /\ due' \in [Heroes -> [Rows -> Int]]
      BY CommitTypes
  <1>5. ASSUME NEW h \in Heroes PROVE purse'[h] = due'[h]
    <2>1. /\ purse'[h] = [i \in Rows |-> purse'[h][i]]
          /\ due'[h] = [i \in Rows |-> due'[h][i]]
        BY <1>4
    <2> QED BY <1>3, <2>1
  <1> QED BY <1>4, <1>5 DEF CoinAddsUp

\* A step that ends requests, or none, keeps what the others rely on.
LEMMA EndKeeps ==
    ASSUME TreasuryInv, Settled',
           \A x \in Requests : \/ req'[x] = Idle
                               \/ /\ req'[x] = req[x]
                                  /\ Answers(req[x])' /\ OnShelf(req[x])' /\ Marked(req[x])'
    PROVE  TreasuryInv'
  <1>1. \A x \in Requests : Fine(req[x])'
    <2> TAKE x \in Requests
    <2>1. CASE req'[x] = Idle
      <3>1. Shaped(Idle) BY IdleFine DEF Fine
      <3>2. Shaped(req[x])' BY <2>1, <3>1 DEF Shaped
      <3>3. Idle.op = "none" /\ Idle.puts = NoWrites BY RequestFields DEF Idle
      <3>4. \A h \in Heroes, i \in Rows : NoWrites[h].row # i BY NoWritesType, TreasuryOK DEF Rows
      <3>5. Answers(req[x])' /\ OnShelf(req[x])' /\ Marked(req[x])'
          BY <2>1, <3>3, <3>4 DEF Answers, OnShelf, Marked
      <3> QED BY <3>2, <3>5 DEF Fine
    <2>2. CASE /\ req'[x] = req[x]
               /\ Answers(req[x])' /\ OnShelf(req[x])' /\ Marked(req[x])'
      <3>1. Shaped(req[x]) BY DEF TreasuryInv, Fine
      <3>2. Shaped(req[x])' BY <2>2, <3>1 DEF Shaped
      <3> QED BY <2>2, <3>2 DEF Fine
    <2> QED BY <2>1, <2>2
  <1>2. Apart'
    <2> SUFFICES ASSUME NEW x \in Requests, NEW y \in Requests, x # y
                 PROVE  Held(req'[x]) \cap Held(req'[y]) = {}
        BY DEF Apart
    <2>1. Held(req[x]) \cap Held(req[y]) = {} BY DEF TreasuryInv, Apart
    <2> QED BY <2>1, IdleFine
  <1> QED BY <1>1, <1>2 DEF TreasuryInv

\* An answered request leaves the others as they were.
LEMMA AnsweredRows ==
    ASSUME TreasuryInv, NEW r \in Requests, Answered(r)
    PROVE  /\ req' \in [Requests -> Asked] /\ req'[r] = Idle
           /\ \A x \in Requests \ {r} : req'[x] = req[x]
  BY IdleFine DEF Answered, TreasuryInv, Settled, TreasuryTypeOK

\* What is in the purses counts for the others as it did.
LEMMA OthersAnswer ==
    ASSUME TreasuryInv, NEW r \in Requests, NEW ws, Committable(ws), Committed(ws), Answered(r),
           \A h \in Heroes, i \in Rows : ws[h].row = i =>
               \A o \in Requests \ {r} : <<h, i>> \notin Held(req[o])
    PROVE  \A x \in Requests \ {r} : Answers(req[x])'
  <1> TAKE x \in Requests \ {r}
  <1>1. req'[x] = req[x] BY AnsweredRows
  <1>2. Answers(req[x]) BY DEF TreasuryInv, Fine
  <1>3. \A h \in Heroes, i \in Rows : req[x].puts[h].row = i => purse'[h][i] = purse[h][i]
      BY CommitSpares
  <1> QED BY <1>1, <1>2, <1>3 DEF Answers

-----------------------------------------------------------------------------
(* The till.                                                               *)

LEMMA PayKeeps ==
    ASSUME TreasuryInv, NEW r \in Requests, PayForStock(r)
    PROVE  TreasuryInv'
  <1> DEFINE q == req[r]
             h == q.to[1]
             ws == Payment(h, q.row, q.coin)
  <1>0. q \in Asked /\ Fine(q) BY DEF TreasuryInv, Settled, TreasuryTypeOK
  <1>t. TreasuryTypeOK BY DEF TreasuryInv, Settled
  <1>1. q.op = "buy" /\ q.stage = "looked" /\ Free(r) BY DEF PayForStock
  <1>2. CASE ~CanPay(h, q.row, q.coin) BY <1>2, RollBackKeeps DEF PayForStock
  <1>3. CASE CanPay(h, q.row, q.coin)
    <2>1. /\ Committed(ws) /\ Answered(r)
          /\ shelf' = [shelf EXCEPT ![q.what] = @ - 1]
          /\ left' = [left EXCEPT ![q.what] = @ - 1]
          /\ UNCHANGED <<price, quest, payouts>>
        BY <1>3 DEF PayForStock
    <2>2. /\ q.what \in Lines /\ h \in Heroes /\ q.coin \in Nat /\ q.row \in 0..MaxRows
          /\ shelf[q.what] \in 1..MaxShelf
        BY <1>0, <1>1 DEF Fine, Shaped, Asked, OnShelf
    <2>3. \/ q.coin = 0 /\ ws = NoWrites
          \/ /\ q.coin > 0 /\ q.row \in Rows /\ purse[h][q.row] \in Count
             /\ purse[h][q.row] - q.coin \in Count
             /\ ws = Write(h, q.row, purse[h][q.row] - q.coin, -q.coin)
      <3>1. CASE q.coin = 0 BY <3>1 DEF Payment
      <3>2. CASE q.coin # 0
        <4>1. q.row \in Rows /\ purse[h][q.row] >= q.coin
            BY <1>3, <2>2, <3>2 DEF CanPay, Rows
        <4>2. purse[h][q.row] \in Count BY <2>2, <4>1, <1>t DEF TreasuryTypeOK
        <4>3. purse[h][q.row] - q.coin \in Count
            BY <2>2, <4>1, <4>2, TreasuryOK DEF Count
        <4> QED BY <2>2, <3>2, <4>1, <4>2, <4>3 DEF Payment
      <3> QED BY <3>1, <3>2
    <2> HIDE DEF ws
    <2>4. /\ ws \in [Heroes -> Writes]
          /\ \A x \in Heroes : \/ ws[x] = NoWrite /\ ws[x].row = -1
                               \/ /\ x = h /\ q.coin > 0 /\ ws[x].row = q.row /\ q.row \in Rows
                                  /\ ws[x].qty = purse[h][q.row] + ws[x].by
      <3>1. CASE ws = NoWrites BY <3>1, NoWritesType
      <3>2. CASE ws # NoWrites
        <4>1. -1 \in Int /\ q.row \in -1..MaxRows /\ -q.coin \in Int /\ purse[h][q.row] \in Int
            BY <2>2, <2>3, <3>2, TreasuryOK DEF Rows, Count
        <4>2. /\ ws \in [Heroes -> Writes]
              /\ ws[h] = [row |-> q.row, qty |-> purse[h][q.row] - q.coin, by |-> -q.coin]
              /\ \A x \in Heroes \ {h} : ws[x] = NoWrite
            BY <2>2, <2>3, <3>2, <4>1, OneWrite
        <4>3. NoWrite.row = -1 BY NoWritesType, <2>2
        <4>4. ws[h].qty = purse[h][q.row] + ws[h].by BY <2>2, <4>1, <4>2
        <4>5. ws[h].row = q.row BY <4>2
        <4>6. q.coin > 0 /\ q.row \in Rows BY <2>3, <3>2
        <4>7. \A x \in Heroes \ {h} : ws[x] = NoWrite /\ ws[x].row = -1 BY <4>2, <4>3
        <4> HIDE DEF q
        <4> QED BY <4>2, <4>4, <4>5, <4>6, <4>7
      <3> QED BY <3>1, <3>2
    <2>5. Committable(ws)
        BY <2>4, TreasuryOK DEF Committable, Room, Rows
    <2>6. \A x \in Heroes, i \in Rows : ws[x].row = i =>
              \A o \in Requests \ {r} : <<x, i>> \notin Held(req[o])
      <3> SUFFICES ASSUME NEW x \in Heroes, NEW i \in Rows, ws[x].row = i,
                          NEW o \in Requests \ {r}
                   PROVE  <<x, i>> \notin Held(req[o])
          OBVIOUS
      <3>1. x = h /\ q.coin > 0 /\ i = q.row /\ q.row # 0 BY <2>4, TreasuryOK DEF Rows
      <3>2. <<x, i>> \in Wanted(q) BY <1>1, <3>1 DEF Wanted
      <3> QED BY <1>1, <3>2, FreeHolds
    <2>7. \A x \in Requests \ {r} : req'[x] = req[x] /\ Answers(req[x])'
        BY <2>1, <2>5, <2>6, OthersAnswer, AnsweredRows
    <2>8. q.what \in Held(q) BY <1>1 DEF Held
    <2>9. \A x \in Requests \ {r} : q.what \notin Held(req[x])
        BY <2>8 DEF TreasuryInv, Apart
    <2>10. \A x \in Requests \ {r} : OnShelf(req[x])'
      <3> TAKE x \in Requests \ {r}
      <3>1. OnShelf(req[x]) /\ Shaped(req[x]) BY DEF TreasuryInv, Fine
      <3>2. req[x].op = "buy" /\ req[x].stage = "looked" => req[x].what # q.what /\ req[x].what \in Lines
          BY <2>9, <3>1 DEF Held, Shaped
      <3>3. shelf \in [Lines -> 0..MaxShelf \cup {None}] BY <1>t DEF TreasuryTypeOK
      <3> QED BY <2>1, <2>2, <2>7, <3>1, <3>2, <3>3 DEF OnShelf
    <2>11. \A x \in Requests \ {r} : Marked(req[x])'
        BY <2>1, <2>7 DEF TreasuryInv, Fine, Marked
    <2>12. TreasuryTypeOK'
      <3>1. purse' \in [Heroes -> [Rows -> Count]] /\ due' \in [Heroes -> [Rows -> Int]]
          BY <1>t, <2>1, <2>5, CommitTypes
      <3>2. shelf[q.what] - 1 \in 0..MaxShelf /\ left[q.what] - 1 \in Int
          BY <2>2, <1>t, TreasuryOK DEF TreasuryTypeOK
      <3>3. shelf' \in [Lines -> 0..MaxShelf \cup {None}] /\ left' \in [Lines -> Int]
          BY <2>1, <3>2, <1>t DEF TreasuryTypeOK
      <3> QED BY <2>1, <3>1, <3>3, <1>t, AnsweredRows DEF TreasuryTypeOK
    <2>13. ShelfAddsUp'
      <3>1. ShelfAddsUp /\ shelf \in [Lines -> 0..MaxShelf \cup {None}] /\ left \in [Lines -> Int]
          BY <1>t DEF TreasuryTypeOK, TreasuryInv, Settled
      <3>2. shelf[q.what] = left[q.what] /\ shelf[q.what] # None
          BY <2>2, <3>1, TreasuryOK DEF ShelfAddsUp
      <3>3. ASSUME NEW l \in Lines, shelf'[l] # None PROVE shelf'[l] = left'[l] /\ left'[l] >= 0
          BY <2>1, <2>2, <3>1, <3>2, <3>3, TreasuryOK DEF ShelfAddsUp
      <3> QED BY <3>3 DEF ShelfAddsUp
    <2>14. NoWrap => CoinAddsUp'
      <3> SUFFICES ASSUME NoWrap PROVE CoinAddsUp' OBVIOUS
      <3>1. CoinAddsUp BY DEF TreasuryInv, Settled
      <3>2. \A x \in Heroes : ws[x].row = 0 => ws[x].qty = ws[x].by
          BY <2>4, TreasuryOK DEF Rows
      <3>3. \A x \in Heroes, i \in Rows : ws[x].row = i => ws[x].qty = purse[x][i] + ws[x].by
          BY <2>4, TreasuryOK DEF Rows
      <3> QED BY <1>t, <2>1, <2>5, <3>1, <3>2, <3>3, CommitAddsUp
    <2>15. Settled'
        BY <2>1, <2>12, <2>13, <2>14 DEF Settled, TreasuryInv, QuestPaysOnce, NoWrap
    <2> QED BY <2>1, <2>7, <2>10, <2>11, <2>15, AnsweredRows, EndKeeps
  <1> QED BY <1>2, <1>3

-----------------------------------------------------------------------------
(* Gifts and payouts.                                                      *)

LEMMA Int32Fits ==
    ASSUME NEW n \in Nat
    PROVE  /\ Int32(n) \in Int
           /\ Int32(n) >= 1 => Int32(n) \in Count
           /\ n < 2 * Width /\ Int32(n) >= 1 => Int32(n) = n
  <1>1. n % (2 * Width) \in 0..(2 * Width - 1) BY TreasuryOK
  <1>2. n < 2 * Width => n % (2 * Width) = n BY TreasuryOK
  <1> QED BY <1>1, <1>2, TreasuryOK DEF Int32, Count

\* What fillPack writes for the next hero, when it may.
LEMMA PutRows ==
    ASSUME TreasuryInv, NEW r \in Requests, req[r].op \in {"gift", "pay"},
           req[r].stage = "looked", Free(r), MayFill(req[r].to[1], req[r].row, req[r].coin)
    PROVE  LET q == req[r]
               h == q.to[1]
               ws == Put(q)
           IN  /\ h \in Heroes
               /\ ws \in [Heroes -> Writes]
               /\ \A x \in Heroes \ {h} : ws[x] = q.puts[x]
               /\ \A x \in Heroes : ws[x].row = -1 => ws[x] = NoWrite
               /\ NoWrap => \A x \in Heroes : ws[x].row = 0 => ws[x].qty = ws[x].by
               /\ \A x \in Heroes, i \in Rows : ws[x].row = i => ws[x].qty = purse[x][i] + ws[x].by
               /\ \A x \in Heroes, i \in Rows : ws[x].row = i =>
                      \A o \in Requests \ {r} : <<x, i>> \notin Held(req[o])
  <1> DEFINE q == req[r]
             h == q.to[1]
             ws == Put(q)
  <1>0. q \in Asked /\ Fine(q) BY DEF TreasuryInv, Settled, TreasuryTypeOK
  <1>1. /\ h \in Heroes /\ q.coin \in Nat /\ q.row \in 0..MaxRows /\ q.puts \in [Heroes -> Writes]
        /\ NoWrap => q.coin < 2 * Width
      BY <1>0 DEF Fine, Shaped, Asked
  <1>2. \A x \in Heroes, i \in Rows : q.puts[x].row = i =>
            \A o \in Requests \ {r} : <<x, i>> \notin Held(req[o])
    <2> SUFFICES ASSUME NEW x \in Heroes, NEW i \in Rows, q.puts[x].row = i,
                        NEW o \in Requests \ {r}
                 PROVE  <<x, i>> \notin Held(req[o])
        OBVIOUS
    <2>1. <<x, i>> \in Held(q) BY DEF Held
    <2> QED BY <2>1 DEF TreasuryInv, Apart
  <1>3. CASE q.coin = 0
    <2>1. ws = q.puts BY <1>3 DEF Put
    <2> QED BY <1>0, <1>1, <1>2, <2>1 DEF Fine, Shaped, Answers
  <1>4. CASE q.coin # 0
    <2> DEFINE w == [row |-> q.row, qty |-> Filled(h, q.row, q.coin), by |-> q.coin]
    <2>1. ws = [q.puts EXCEPT ![h] = w] BY <1>4 DEF Put
    <2>2. \/ q.row = 0 /\ Filled(h, q.row, q.coin) = Int32(q.coin) /\ Int32(q.coin) >= 1
          \/ /\ q.row \in Rows /\ Filled(h, q.row, q.coin) = purse[h][q.row] + q.coin
             /\ purse[h][q.row] + q.coin <= Ceiling
        BY <1>1, <1>4, TreasuryOK DEF MayFill, Filled, Rows
    <2>3. Filled(h, q.row, q.coin) \in Count
      <3>1. CASE q.row = 0 BY <1>1, <2>2, <3>1, Int32Fits DEF Rows
      <3>2. CASE q.row # 0
        <4>1. purse[h][q.row] \in Nat
            BY <1>1, <2>2, <3>2, TreasuryOK DEF TreasuryInv, Settled, TreasuryTypeOK, Count
        <4> QED BY <1>1, <2>2, <3>2, <4>1, TreasuryOK DEF Count
      <3> QED BY <3>1, <3>2
    <2>4. q.row \in -1..MaxRows /\ q.row # -1 BY <1>1, TreasuryOK
    <2>5. w \in Writes BY <1>1, <2>3, <2>4 DEF Writes
    <2>6. w.row = q.row /\ w.qty = Filled(h, q.row, q.coin) /\ w.by = q.coin OBVIOUS
    <2>7. NoWrap => (q.row = 0 => w.qty = w.by)
        BY <1>1, <2>2, <2>6, Int32Fits, TreasuryOK DEF Rows
    <2> HIDE DEF w
    <2>8. ws \in [Heroes -> Writes] /\ ws[h] = w /\ \A x \in Heroes \ {h} : ws[x] = q.puts[x]
        BY <1>1, <2>1, <2>5
    <2> HIDE DEF ws
    <2>9. \A x \in Heroes : ws[x].row = -1 => ws[x] = NoWrite
        BY <1>0, <2>4, <2>6, <2>8 DEF Fine, Shaped
    <2>10. NoWrap => \A x \in Heroes : ws[x].row = 0 => ws[x].qty = ws[x].by
        BY <1>0, <2>6, <2>7, <2>8 DEF Fine, Shaped
    <2>11. \A x \in Heroes, i \in Rows : ws[x].row = i => ws[x].qty = purse[x][i] + ws[x].by
        BY <1>0, <2>2, <2>6, <2>8, TreasuryOK DEF Fine, Answers, Rows
    <2>12. \A x \in Heroes, i \in Rows : ws[x].row = i =>
               \A o \in Requests \ {r} : <<x, i>> \notin Held(req[o])
      <3> SUFFICES ASSUME NEW x \in Heroes, NEW i \in Rows, ws[x].row = i,
                          NEW o \in Requests \ {r}
                   PROVE  <<x, i>> \notin Held(req[o])
          OBVIOUS
      <3>1. CASE x # h BY <1>2, <2>8, <3>1
      <3>2. CASE x = h
        <4>1. i = q.row /\ q.row # 0 /\ q.coin > 0
            BY <1>1, <1>4, <2>6, <2>8, <3>2, TreasuryOK DEF Rows
        <4>2. <<x, i>> \in Wanted(q) BY <3>2, <4>1 DEF Wanted
        <4> QED BY <4>2, FreeHolds
      <3> QED BY <3>1, <3>2
    <2> QED BY <1>1, <2>8, <2>9, <2>10, <2>11, <2>12 DEF ws
  <1> QED BY <1>3, <1>4

\* The next hero of a gift: nothing is committed yet.
LEMMA NextHeroKeeps ==
    ASSUME TreasuryInv, NEW r \in Requests, req[r].op \in {"gift", "pay"},
           req[r].stage = "looked", Free(r), MayFill(req[r].to[1], req[r].row, req[r].coin),
           Len(req[r].to) > 1, NextHero(r)
    PROVE  TreasuryInv'
  <1> DEFINE q == req[r]
             h == q.to[1]
             ws == Put(q)
             n == [q EXCEPT !.stage = "begun", !.to = Tail(q.to), !.row = 0, !.puts = ws]
  <1>0. q \in Asked /\ Fine(q) BY DEF TreasuryInv, Settled, TreasuryTypeOK
  <1>1. /\ h \in Heroes /\ ws \in [Heroes -> Writes]
        /\ \A x \in Heroes \ {h} : ws[x] = q.puts[x]
        /\ \A x \in Heroes : ws[x].row = -1 => ws[x] = NoWrite
        /\ NoWrap => \A x \in Heroes : ws[x].row = 0 => ws[x].qty = ws[x].by
        /\ \A x \in Heroes, i \in Rows : ws[x].row = i => ws[x].qty = purse[x][i] + ws[x].by
        /\ \A x \in Heroes, i \in Rows : ws[x].row = i =>
               \A o \in Requests \ {r} : <<x, i>> \notin Held(req[o])
      BY PutRows
  <1> HIDE DEF ws
  <1>2. q.to \in Seq(Heroes) /\ Len(q.to) > 1 BY <1>0 DEF Asked
  <1>3. /\ Tail(q.to) \in Seq(Heroes) /\ Len(Tail(q.to)) > 0
        /\ \A i \in DOMAIN Tail(q.to) : i + 1 \in DOMAIN q.to /\ Tail(q.to)[i] = q.to[i + 1]
        /\ 1 \in DOMAIN q.to /\ \A i \in DOMAIN Tail(q.to) : i \in Nat /\ i + 1 # 1
      BY <1>2
  <1>4. /\ n \in Asked /\ n.op = q.op /\ n.stage = "begun" /\ n.to = Tail(q.to)
        /\ n.what = q.what /\ n.coin = q.coin /\ n.row = 0 /\ n.puts = ws
    <2>1. 0 \in 0..MaxRows BY TreasuryOK
    <2>2. Tail(q.to) \in Seq(Heroes) BY <1>3
    <2> QED BY <1>0, <1>1, <2>1, <2>2 DEF Asked
  <1> HIDE DEF n
  <1>5. \A i \in DOMAIN n.to : n.to[i] \in Heroes \ {h} /\ n.puts[n.to[i]] = NoWrite
    <2> TAKE i \in DOMAIN n.to
    <2>1. i + 1 \in DOMAIN q.to /\ n.to[i] = q.to[i + 1] /\ i + 1 # 1 /\ 1 \in DOMAIN q.to
        BY <1>3, <1>4
    <2>2. q.to[i + 1] # h /\ q.puts[q.to[i + 1]] = NoWrite
        BY <1>0, <2>1 DEF Fine, Shaped
    <2>3. q.to[i + 1] \in Heroes BY <1>2, <2>1
    <2> QED BY <1>1, <1>4, <2>1, <2>2, <2>3
  <1>6. \A i, j \in DOMAIN n.to : n.to[i] = n.to[j] => i = j
    <2> TAKE i, j \in DOMAIN n.to
    <2>1. /\ i + 1 \in DOMAIN q.to /\ n.to[i] = q.to[i + 1] /\ i \in Nat
          /\ j + 1 \in DOMAIN q.to /\ n.to[j] = q.to[j + 1] /\ j \in Nat
        BY <1>3, <1>4
    <2>2. q.to[i + 1] = q.to[j + 1] => i + 1 = j + 1
        BY <1>0, <2>1 DEF Fine, Shaped
    <2> QED BY <2>1, <2>2
  <1>7. Shaped(n)
    <2>1. /\ q.op \in {"gift", "pay"} /\ (q.op = "pay" => q.what \in Quests)
          /\ (NoWrap => q.coin < 2 * Width)
        BY <1>0 DEF Fine, Shaped
    <2> QED BY <1>1, <1>3, <1>4, <1>5, <1>6, <2>1 DEF Shaped
  <1>8. Answers(n) BY <1>1, <1>4 DEF Answers
  <1>9. OnShelf(n) /\ Marked(n) BY <1>0, <1>4 DEF Fine, OnShelf, Marked
  <1>10. \A o \in Requests \ {r} : Held(n) \cap Held(req[o]) = {}
    <2> SUFFICES ASSUME NEW o \in Requests \ {r}, NEW x \in Held(n), x \in Held(req[o])
                 PROVE  FALSE
        OBVIOUS
    <2>1. CASE x \in Heroes \X Rows /\ ws[x[1]].row = x[2]
      <3>1. x[1] \in Heroes /\ x[2] \in Rows /\ x = <<x[1], x[2]>> BY <2>1
      <3>2. <<x[1], x[2]>> \notin Held(req[o]) BY <1>1, <2>1, <3>1
      <3> QED BY <3>1, <3>2
    <2>2. CASE q.op = "pay" /\ x = q.what
      <3>1. x \in Held(q) BY <2>2 DEF Held
      <3> QED BY <3>1 DEF TreasuryInv, Apart
    <2> QED BY <1>4, <2>1, <2>2 DEF Held
  <1>11. req' = [req EXCEPT ![r] = n] BY DEF NextHero, n, ws
  <1> QED BY <1>4, <1>7, <1>8, <1>9, <1>10, <1>11, OneRequest DEF NextHero, Fine

\* The commit of a gift or a payout.
LEMMA HandedKeeps ==
    ASSUME TreasuryInv, NEW r \in Requests, req[r].op \in {"gift", "pay"},
           req[r].stage = "looked", Free(r), MayFill(req[r].to[1], req[r].row, req[r].coin),
           Room(Put(req[r])), Handed(r)
    PROVE  TreasuryInv'
  <1> DEFINE q == req[r]
             h == q.to[1]
             ws == Put(q)
  <1>0. q \in Asked /\ Fine(q) BY DEF TreasuryInv, Settled, TreasuryTypeOK
  <1>t. TreasuryTypeOK BY DEF TreasuryInv, Settled
  <1>1. /\ h \in Heroes /\ ws \in [Heroes -> Writes]
        /\ \A x \in Heroes : ws[x].row = -1 => ws[x] = NoWrite
        /\ NoWrap => \A x \in Heroes : ws[x].row = 0 => ws[x].qty = ws[x].by
        /\ \A x \in Heroes, i \in Rows : ws[x].row = i => ws[x].qty = purse[x][i] + ws[x].by
        /\ \A x \in Heroes, i \in Rows : ws[x].row = i =>
               \A o \in Requests \ {r} : <<x, i>> \notin Held(req[o])
      BY PutRows
  <1>2. Committed(ws) /\ Answered(r) /\ Room(ws) /\ UNCHANGED <<shelf, price, left>>
      BY DEF Handed
  <1>3. \/ /\ q.op = "pay" /\ quest' = [quest EXCEPT ![q.what].paid = TRUE]
           /\ payouts' = [payouts EXCEPT ![q.what] = @ + 1]
        \/ q.op # "pay" /\ UNCHANGED <<quest, payouts>>
      BY DEF Handed
  <1> HIDE DEF ws
  <1>4. Committable(ws) BY <1>1, <1>2 DEF Committable
  <1>5. \A x \in Requests \ {r} : req'[x] = req[x] /\ Answers(req[x])'
      BY <1>1, <1>2, <1>4, OthersAnswer, AnsweredRows
  <1>6. \A x \in Requests \ {r} : OnShelf(req[x])'
      BY <1>2, <1>5 DEF TreasuryInv, Fine, OnShelf
  <1>7. quest \in [Quests -> [status : Statuses, gold : Nat, paid : BOOLEAN]]
        /\ payouts \in [Quests -> Nat]
      BY <1>t DEF TreasuryTypeOK
  <1>8. q.op = "pay" => q.what \in Quests /\ ~quest[q.what].paid /\ q.what \in Held(q)
      BY <1>0 DEF Fine, Shaped, Marked, Held
  <1>9. /\ quest' \in [Quests -> [status : Statuses, gold : Nat, paid : BOOLEAN]]
        /\ payouts' \in [Quests -> Nat]
        /\ \A x \in Quests : /\ quest'[x].gold = quest[x].gold
                             /\ ~(q.op = "pay" /\ x = q.what) =>
                                    quest'[x] = quest[x] /\ payouts'[x] = payouts[x]
        /\ q.op = "pay" => quest'[q.what].paid /\ payouts'[q.what] = payouts[q.what] + 1
    <2>1. CASE q.op # "pay" BY <1>3, <1>7, <2>1
    <2>2. CASE q.op = "pay"
      <3>1. /\ quest' = [quest EXCEPT ![q.what].paid = TRUE]
            /\ payouts' = [payouts EXCEPT ![q.what] = payouts[q.what] + 1]
            /\ q.what \in Quests
          BY <1>3, <1>8, <2>2
      <3>2. /\ quest' \in [Quests -> [status : Statuses, gold : Nat, paid : BOOLEAN]]
            /\ quest'[q.what].paid
            /\ \A x \in Quests : /\ quest'[x].gold = quest[x].gold
                                 /\ x # q.what => quest'[x] = quest[x]
          BY <1>7, <3>1
      <3>3. /\ payouts' \in [Quests -> Nat] /\ payouts'[q.what] = payouts[q.what] + 1
            /\ \A x \in Quests : x # q.what => payouts'[x] = payouts[x]
          BY <1>7, <3>1
      <3> QED BY <2>2, <3>2, <3>3
    <2> QED BY <2>1, <2>2
  <1>10. \A x \in Requests \ {r} : Marked(req[x])'
    <2> TAKE x \in Requests \ {r}
    <2> SUFFICES ASSUME req[x].op = "pay", req[x].stage # "in"
                 PROVE  ~quest'[req[x].what].paid
        BY <1>5 DEF Marked
    <2>1. req[x].what \in Held(req[x]) BY DEF Held
    <2>2. req[x].what \in Quests /\ ~quest[req[x].what].paid
        BY DEF TreasuryInv, Fine, Shaped, Marked
    <2>3. q.op = "pay" => req[x].what # q.what
        BY <1>8, <2>1 DEF TreasuryInv, Apart
    <2> QED BY <1>9, <2>2, <2>3
  <1>11. TreasuryTypeOK'
      BY <1>t, <1>2, <1>4, <1>9, CommitTypes, AnsweredRows DEF TreasuryTypeOK
  <1>12. QuestPaysOnce'
    <2>1. QuestPaysOnce BY DEF TreasuryInv, Settled
    <2> QED BY <1>7, <1>8, <1>9, <2>1 DEF QuestPaysOnce
  <1>13. NoWrap => CoinAddsUp'
      BY <1>t, <1>1, <1>2, <1>4, CommitAddsUp DEF TreasuryInv, Settled
  <1>14. ShelfAddsUp' BY <1>2 DEF TreasuryInv, Settled, ShelfAddsUp
  <1>15. \A x \in Quests : quest'[x].gold \in Rewards \cup {0}
      BY <1>9 DEF TreasuryInv, Settled
  <1>16. Settled' BY <1>11, <1>12, <1>13, <1>14, <1>15 DEF Settled, NoWrap
  <1> QED BY <1>2, <1>5, <1>6, <1>10, <1>16, AnsweredRows, EndKeeps

LEMMA FillKeeps ==
    ASSUME TreasuryInv, NEW r \in Requests, FillPack(r)
    PROVE  TreasuryInv'
  BY RollBackKeeps, NextHeroKeeps, HandedKeeps DEF FillPack

-----------------------------------------------------------------------------
(* What is written by hand.                                                *)

LEMMA AddPurseKeeps ==
    ASSUME TreasuryInv, NEW r \in Requests, AddPurse(r)
    PROVE  TreasuryInv'
  <1> DEFINE q == req[r]
             h == q.to[1]
             ws == Write(h, 0, q.coin, q.coin)
  <1>t. TreasuryTypeOK BY DEF TreasuryInv, Settled
  <1>0. q \in Asked /\ Fine(q) BY DEF TreasuryInv, Settled, TreasuryTypeOK
  <1>1. /\ Committed(ws) /\ Answered(r) /\ q.op = "write" /\ Spare(h) # {}
        /\ UNCHANGED <<shelf, price, quest, left, payouts>>
      BY DEF AddPurse
  <1>2. h \in Heroes /\ q.coin \in Count /\ q.coin \in Int /\ 0 \in -1..MaxRows
      BY <1>0, <1>1, CountInt, TreasuryOK DEF Fine, Shaped, Asked
  <1>3. /\ ws \in [Heroes -> Writes] /\ ws[h] = [row |-> 0, qty |-> q.coin, by |-> q.coin]
        /\ \A x \in Heroes \ {h} : ws[x] = NoWrite
      BY <1>2, OneWrite
  <1> HIDE DEF ws
  <1>4. ws[h].row = 0 /\ ws[h].qty = ws[h].by BY <1>3
  <1>5. \A x \in Heroes \ {h} : ws[x].row = -1 /\ ws[x] = NoWrite
      BY <1>3, NoWritesType
  <1>6. Committable(ws)
      BY <1>1, <1>3, <1>4, <1>5 DEF Committable, Room
  <1>7. \A x \in Heroes, i \in Rows : ws[x].row # i BY <1>4, <1>5, TreasuryOK DEF Rows
  <1>8. \A x \in Requests \ {r} : req'[x] = req[x] /\ Answers(req[x])'
      BY <1>1, <1>6, <1>7, OthersAnswer, AnsweredRows
  <1>9. \A x \in Requests \ {r} : OnShelf(req[x])' /\ Marked(req[x])'
      BY <1>1, <1>8 DEF TreasuryInv, Fine, OnShelf, Marked
  <1>10. TreasuryTypeOK'
      BY <1>t, <1>1, <1>6, CommitTypes, AnsweredRows DEF TreasuryTypeOK
  <1>11. NoWrap => CoinAddsUp'
    <2>1. \A x \in Heroes : ws[x].row = 0 => ws[x].qty = ws[x].by BY <1>4, <1>5
    <2> QED BY <1>t, <1>1, <1>6, <1>7, <2>1, CommitAddsUp DEF TreasuryInv, Settled
  <1>12. Settled'
      BY <1>1, <1>10, <1>11 DEF TreasuryInv, Settled, QuestPaysOnce, ShelfAddsUp, NoWrap
  <1> QED BY <1>1, <1>8, <1>9, <1>12, AnsweredRows, EndKeeps

\* A row nobody holds, written by hand.
LEMMA ByHand ==
    ASSUME TreasuryInv, NEW h \in Heroes, NEW i \in Rows, NEW n \in Count,
           purse' = [purse EXCEPT ![h][i] = n], due' = [due EXCEPT ![h][i] = n],
           UNCHANGED <<shelf, price, quest, left, payouts>>,
           \A x \in Requests : req'[x] = Idle \/ (req'[x] = req[x] /\ <<h, i>> \notin Held(req[x])),
           req' \in [Requests -> Asked]
    PROVE  TreasuryInv'
  <1>1. /\ purse \in [Heroes -> [Rows -> Count]] /\ due \in [Heroes -> [Rows -> Int]]
        /\ n \in Int
      BY CountInt DEF TreasuryInv, Settled, TreasuryTypeOK
  <1>2. /\ purse' \in [Heroes -> [Rows -> Count]] /\ due' \in [Heroes -> [Rows -> Int]]
        /\ \A x \in Heroes, k \in Rows : <<x, k>> # <<h, i>> => purse'[x][k] = purse[x][k]
      BY <1>1
  <1>3. CoinAddsUp => CoinAddsUp' BY DEF CoinAddsUp
  <1>4. Settled'
      BY <1>2, <1>3 DEF TreasuryInv, Settled, TreasuryTypeOK, QuestPaysOnce, ShelfAddsUp, NoWrap
  <1>5. ASSUME NEW x \in Requests, req'[x] # Idle PROVE Answers(req[x])'
    <2>1. /\ Answers(req[x]) /\ Shaped(req[x])
          /\ req'[x] = req[x] /\ <<h, i>> \notin Held(req[x])
        BY <1>5 DEF TreasuryInv, Fine
    <2>2. ASSUME NEW y \in Heroes, NEW k \in Rows, req[x].puts[y].row = k
          PROVE  purse'[y][k] = purse[y][k]
      <3>1. req[x].stage # "in"
        <4> SUFFICES ASSUME req[x].stage = "in" PROVE FALSE OBVIOUS
        <4>1. req[x].puts = NoWrites BY <2>1 DEF Shaped
        <4> QED BY <2>2, <4>1, NoWritesType, TreasuryOK DEF Rows
      <3>2. <<y, k>> \in Held(req[x]) BY <2>2, <3>1 DEF Held
      <3> QED BY <1>2, <2>1, <3>2
    <2> QED BY <2>1, <2>2 DEF Answers
  <1>6. ASSUME NEW x \in Requests, req'[x] # Idle
        PROVE  OnShelf(req[x])' /\ Marked(req[x])' /\ req'[x] = req[x]
      BY <1>6 DEF TreasuryInv, Fine, OnShelf, Marked
  <1> QED BY <1>4, <1>5, <1>6, EndKeeps

LEMMA WriteItemKeeps ==
    ASSUME TreasuryInv, NEW r \in Requests, WriteItem(r)
    PROVE  TreasuryInv'
  <1> DEFINE q == req[r]
             h == q.to[1]
  <1>0. q \in Asked /\ Fine(q) BY DEF TreasuryInv, Settled, TreasuryTypeOK
  <1>1. q.op = "edit" /\ Free(r) BY DEF WriteItem
  <1>2. CASE purse[h][q.row] = 0 BY <1>2, RollBackKeeps DEF WriteItem
  <1>3. CASE purse[h][q.row] # 0
    <2>1. h \in Heroes /\ q.row \in Rows /\ q.coin \in Count
        BY <1>0, <1>1 DEF Fine, Shaped, Asked
    <2>2. <<h, q.row>> \in Wanted(q) BY <1>1 DEF Wanted
    <2>3. \A o \in Requests \ {r} : <<h, q.row>> \notin Held(req[o])
        BY <1>1, <2>2, FreeHolds
    <2>4. /\ purse' = [purse EXCEPT ![h][q.row] = q.coin] /\ due' = [due EXCEPT ![h][q.row] = q.coin]
          /\ Answered(r) /\ UNCHANGED <<shelf, price, quest, left, payouts>>
        BY <1>3 DEF WriteItem
    <2>a. Answered(r) BY <2>4
    <2>b. /\ req' \in [Requests -> Asked] /\ req'[r] = Idle
          /\ \A x \in Requests \ {r} : req'[x] = req[x]
        BY <2>a, AnsweredRows
    <2>5. \A x \in Requests :
              req'[x] = Idle \/ (req'[x] = req[x] /\ <<h, q.row>> \notin Held(req[x]))
        BY <2>3, <2>b
    <2>6. req' \in [Requests -> Asked] BY <2>b
    <2> HIDE DEF h, q
    <2> QED BY <2>1, <2>4, <2>5, <2>6, ByHand
  <1> QED BY <1>2, <1>3

LEMMA DeleteItemKeeps ==
    ASSUME TreasuryInv, NEW h \in Heroes, NEW i \in Rows, DeleteInventoryItem(h, i)
    PROVE  TreasuryInv'
  <1>1. 0 \in Count BY TreasuryOK DEF Count
  <1>2. req \in [Requests -> Asked] BY DEF TreasuryInv, Settled, TreasuryTypeOK
  <1>3. /\ \A x \in Requests : req'[x] = req[x] /\ <<h, i>> \notin Held(req[x])
        /\ req' \in [Requests -> Asked]
        /\ purse' = [purse EXCEPT ![h][i] = 0] /\ due' = [due EXCEPT ![h][i] = 0]
        /\ UNCHANGED <<shelf, price, quest, left, payouts>>
      BY <1>2 DEF DeleteInventoryItem, Untouched
  <1> QED BY <1>1, <1>3, ByHand

Sells(q, l) == q.op = "buy" /\ q.stage = "looked" /\ q.what = l

LEMMA SellsHolds == ASSUME NEW q, NEW l, Sells(q, l) PROVE l \in Held(q)
  BY DEF Sells, Held

\* A shelf written by hand, of a line nobody is selling.
LEMMA ShelfByHand ==
    ASSUME TreasuryInv, NEW l \in Lines, NEW n \in 0..MaxShelf \cup {None}, NEW m \in Nat,
           n # None => n = m,
           shelf' = [shelf EXCEPT ![l] = n], left' = [left EXCEPT ![l] = m],
           price' \in [Lines -> Coins], UNCHANGED <<purse, quest, due, payouts>>,
           \A x \in Requests : req'[x] = Idle \/ (req'[x] = req[x] /\ ~Sells(req[x], l)),
           req' \in [Requests -> Asked]
    PROVE  TreasuryInv'
  <1>1. /\ shelf \in [Lines -> 0..MaxShelf \cup {None}] /\ left \in [Lines -> Int]
        /\ ShelfAddsUp
      BY DEF TreasuryInv, Settled, TreasuryTypeOK
  <1>2. /\ shelf' \in [Lines -> 0..MaxShelf \cup {None}] /\ left' \in [Lines -> Int]
        /\ shelf'[l] = n /\ left'[l] = m
        /\ \A k \in Lines : k # l => shelf'[k] = shelf[k] /\ left'[k] = left[k]
      BY <1>1
  <1>3. ShelfAddsUp' BY <1>1, <1>2 DEF ShelfAddsUp
  <1>4. Settled'
      BY <1>2, <1>3 DEF TreasuryInv, Settled, TreasuryTypeOK, QuestPaysOnce, CoinAddsUp, NoWrap
  <1>5. ASSUME NEW x \in Requests, req'[x] # Idle
        PROVE  req'[x] = req[x] /\ OnShelf(req[x])' /\ Marked(req[x])' /\ Answers(req[x])'
    <2>1. req'[x] = req[x] /\ ~Sells(req[x], l) /\ Fine(req[x])
        BY <1>5 DEF TreasuryInv
    <2>2. req[x].op = "buy" /\ req[x].stage = "looked" =>
              req[x].what \in Lines /\ req[x].what # l
        BY <2>1 DEF Sells, Fine, Shaped
    <2>3. OnShelf(req[x])' BY <1>2, <2>1, <2>2 DEF Fine, OnShelf
    <2> QED BY <2>1, <2>3 DEF Fine, Marked, Answers
  <1> QED BY <1>4, <1>5, EndKeeps

LEMMA WriteStockKeeps ==
    ASSUME TreasuryInv, NEW r \in Requests, NEW p \in Coins, WriteStock(r, p)
    PROVE  TreasuryInv'
  <1> DEFINE q == req[r]
             l == q.what
  <1>0. Fine(q) /\ price \in [Lines -> Coins] BY DEF TreasuryInv, Settled, TreasuryTypeOK
  <1>1. q.op = "restock" /\ Free(r) BY DEF WriteStock
  <1>2. CASE shelf[l] = None BY <1>2, RollBackKeeps DEF WriteStock
  <1>3. CASE shelf[l] # None
    <2>1. l \in Lines /\ q.coin \in 0..MaxShelf /\ q.stage = "in"
        BY <1>0, <1>1 DEF Fine, Shaped
    <2>2. \A o \in Requests \ {r} : l \notin Held(req[o])
        BY <1>1, <2>1, FreeHolds DEF Wanted
    <2>3. /\ shelf' = [shelf EXCEPT ![l] = q.coin] /\ left' = [left EXCEPT ![l] = q.coin]
          /\ price' = [price EXCEPT ![l] = p]
          /\ Answered(r) /\ UNCHANGED <<purse, quest, due, payouts>>
        BY <1>3 DEF WriteStock
    <2>4. price' \in [Lines -> Coins] BY <1>0, <2>3
    <2>5. \A x \in Requests : req'[x] = Idle \/ (req'[x] = req[x] /\ ~Sells(req[x], l))
      <3>1. Answered(r) BY <2>3
      <3>2. req'[r] = Idle /\ \A x \in Requests \ {r} : req'[x] = req[x]
          BY <3>1, AnsweredRows
      <3>3. \A x \in Requests \ {r} : ~Sells(req[x], l) BY <2>2, SellsHolds
      <3> QED BY <3>2, <3>3
    <2>7. req' \in [Requests -> Asked] BY <2>3, AnsweredRows
    <2>6. q.coin \in 0..MaxShelf \cup {None} /\ q.coin \in Nat BY <2>1, TreasuryOK
    <2> HIDE DEF l, q
    <2> QED BY <2>1, <2>3, <2>4, <2>5, <2>6, <2>7, ShelfByHand
  <1> QED BY <1>2, <1>3

LEMMA StockKeeps ==
    ASSUME TreasuryInv, NEW l \in Lines,
           DeleteStock(l) \/ \E n \in 1..MaxShelf : AddStock(l, n)
    PROVE  TreasuryInv'
  <1>0. /\ req \in [Requests -> Asked] /\ price \in [Lines -> Coins]
        /\ \A x \in Requests : Shaped(req[x])
      BY DEF TreasuryInv, Settled, TreasuryTypeOK, Fine
  <1>1. CASE DeleteStock(l)
    <2>1. \A x \in Requests : req'[x] = req[x] /\ ~Sells(req[x], l)
        BY <1>1, SellsHolds DEF DeleteStock, Untouched
    <2> QED BY <1>0, <1>1, <2>1, ShelfByHand DEF DeleteStock
  <1>2. CASE \E n \in 1..MaxShelf : AddStock(l, n)
    <2>1. PICK n \in 1..MaxShelf : AddStock(l, n) BY <1>2
    <2>2. n \in 0..MaxShelf \cup {None} /\ n \in Nat BY TreasuryOK
    <2>3. \A x \in Requests : req'[x] = req[x] /\ ~Sells(req[x], l)
        BY <2>1 DEF AddStock, Sells
    <2> QED BY <1>0, <2>1, <2>2, <2>3, ShelfByHand DEF AddStock
  <1> QED BY <1>1, <1>2

-----------------------------------------------------------------------------
(* Quests, and everything together.                                        *)

LEMMA QuestKeeps ==
    ASSUME TreasuryInv, NEW q \in Quests,
           DeleteQuest(q) \/ \E s \in Statuses \ {"gone"}, g \in Rewards : UpdateQuest(q, s, g)
    PROVE  TreasuryInv'
  <1>0. /\ quest \in [Quests -> [status : Statuses, gold : Nat, paid : BOOLEAN]]
        /\ req \in [Requests -> Asked] /\ \A x \in Quests : quest[x].gold \in Rewards \cup {0}
      BY DEF TreasuryInv, Settled, TreasuryTypeOK
  <1>1. /\ UNCHANGED <<purse, shelf, price, req, ledger>>
        /\ quest' \in [Quests -> [status : Statuses, gold : Nat, paid : BOOLEAN]]
        /\ \A x \in Quests : quest'[x].paid = quest[x].paid /\ quest'[x].gold \in Rewards \cup {0}
    <2>1. CASE DeleteQuest(q) BY <1>0, <2>1 DEF DeleteQuest, Statuses
    <2>2. CASE \E s \in Statuses \ {"gone"}, g \in Rewards : UpdateQuest(q, s, g)
      <3>1. PICK s \in Statuses \ {"gone"}, g \in Rewards : UpdateQuest(q, s, g) BY <2>2
      <3>2. g \in Nat /\ s \in Statuses BY TreasuryOK
      <3>3. /\ quest' = [quest EXCEPT ![q].status = s, ![q].gold = g]
            /\ UNCHANGED <<purse, shelf, price, req, ledger>>
          BY <3>1 DEF UpdateQuest
      <3>4. quest'[q] = [quest[q] EXCEPT !.status = s, !.gold = g]
            /\ \A x \in Quests \ {q} : quest'[x] = quest[x]
          BY <1>0, <3>3
      <3>5. quest[q] \in [status : Statuses, gold : Nat, paid : BOOLEAN] BY <1>0
      <3>6. /\ quest'[q] \in [status : Statuses, gold : Nat, paid : BOOLEAN]
            /\ quest'[q].paid = quest[q].paid /\ quest'[q].gold = g
          BY <3>2, <3>4, <3>5
      <3> QED BY <1>0, <3>3, <3>4, <3>6
    <2> QED BY <2>1, <2>2
  <1>2. Settled'
    <2>1. QuestPaysOnce' BY <1>1 DEF TreasuryInv, Settled, QuestPaysOnce, ledger
    <2> QED BY <1>1, <2>1
        DEF TreasuryInv, Settled, TreasuryTypeOK, ShelfAddsUp, CoinAddsUp, NoWrap, ledger
  <1>3. ASSUME NEW x \in Requests
        PROVE  req'[x] = req[x] /\ Answers(req[x])' /\ OnShelf(req[x])' /\ Marked(req[x])'
    <2>1. Fine(req[x]) BY DEF TreasuryInv
    <2>2. Marked(req[x])' BY <1>1, <2>1 DEF Fine, Shaped, Marked
    <2> QED BY <1>1, <2>1, <2>2 DEF Fine, Answers, OnShelf
  <1> QED BY <1>2, <1>3, EndKeeps

LEMMA TreasuryStarts == TreasuryInit => TreasuryInv
  <1> SUFFICES ASSUME TreasuryInit PROVE TreasuryInv OBVIOUS
  <1>1. \A r \in Requests : req[r] = Idle BY DEF TreasuryInit
  <1>2. 0 \in Count /\ Statuses = {"open", "completed", "gone"} BY TreasuryOK DEF Count, Statuses
  <1>3. TreasuryTypeOK BY <1>2, IdleFine DEF TreasuryInit, TreasuryTypeOK
  <1>4. Settled
      BY <1>3 DEF TreasuryInit, Settled, QuestPaysOnce, ShelfAddsUp, CoinAddsUp
  <1> QED BY <1>1, <1>4, IdleFine DEF TreasuryInv, Apart

LEMMA TreasuryStep == TreasuryInv /\ [TreasuryNext]_treasuryVars => TreasuryInv'
  <1> SUFFICES ASSUME TreasuryInv, [TreasuryNext]_treasuryVars PROVE TreasuryInv' OBVIOUS
  <1>1. ASSUME NEW r \in Requests, Step(r) PROVE TreasuryInv'
      BY <1>1, LooksKeep, PayKeeps, FillKeeps, AddPurseKeeps, WriteItemKeeps, WriteStockKeeps
      DEF Step
  <1>2. ASSUME NEW r \in Requests, Ask(r) PROVE TreasuryInv' BY <1>2, AskKeeps
  <1>3. ASSUME NEW r \in Requests, RollBack(r) PROVE TreasuryInv' BY <1>3, RollBackKeeps
  <1>4. CASE UNCHANGED treasuryVars
      BY <1>4 DEF treasuryVars, TreasuryInv, Settled, TreasuryTypeOK, QuestPaysOnce, ShelfAddsUp,
                  CoinAddsUp, NoWrap, Apart, Fine, Shaped, Answers, OnShelf, Marked
  <1> QED BY <1>1, <1>2, <1>3, <1>4, DeleteItemKeeps, StockKeeps, QuestKeeps DEF TreasuryNext

THEOREM TreasuryHolds == TreasurySpec => []TreasuryInv
  BY TreasuryStarts, TreasuryStep, PTL DEF TreasurySpec

\* The tables keep their types: a purse and a shelf count at least nothing and less than
\* 2^31, for any rewards.
THEOREM TreasuryTypeCorrect == TreasurySpec => []TreasuryTypeOK
  <1>1. TreasuryInv => TreasuryTypeOK BY DEF TreasuryInv, Settled
  <1> QED BY <1>1, TreasuryHolds, PTL

\* However many requests race, a quest is paid out once or not at all.
THEOREM QuestPaysOnceHolds == TreasurySpec => []QuestPaysOnce
  <1>1. TreasuryInv => QuestPaysOnce BY DEF TreasuryInv, Settled
  <1> QED BY <1>1, TreasuryHolds, PTL

\* A line is sold as often as it was shelved, and no more.
THEOREM ShelfAddsUpHolds == TreasurySpec => []ShelfAddsUp
  <1>1. TreasuryInv => ShelfAddsUp BY DEF TreasuryInv, Settled
  <1> QED BY <1>1, TreasuryHolds, PTL

\* No coin is lost or made by requests in each other's way, while no quest's rewards come
\* to 2^32.
THEOREM CoinAddsUpHolds == ASSUME NoWrap PROVE TreasurySpec => []CoinAddsUp
  <1>1. TreasuryInv => CoinAddsUp BY DEF TreasuryInv, Settled
  <1> QED BY <1>1, TreasuryHolds, PTL
=============================================================================
