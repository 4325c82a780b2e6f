-------------------------- MODULE CoinLedgerProofs --------------------------
(***************************************************************************)
(* Treasury implements CoinLedger: requests whose statements interleave    *)
(* are served as if each came alone, whole or not at all, for any heroes,  *)
(* lines, quests and requests.                                             *)
(*                                                                         *)
(* To TreasuryInv the invariant adds what a request's writes owe to what   *)
(* it was let in to do: the same coin for every hero seen to, in no purse  *)
(* past its ceiling, and a quest that stays on the board once it is marked.*)
(***************************************************************************)
EXTENDS TreasuryProofs

\* Each hero seen to was given the coin the request is about.
EvenHanded(q) == \A h \in Heroes : q.puts[h] # NoWrite =>
    /\ q.coin > 0 /\ q.puts[h].by = q.coin
    /\ q.puts[h].row # 0 => q.puts[h].qty <= Ceiling

\* What a request's own fields say.
Owed(q) ==
    /\ q.op \in {"buy", "write", "edit"} => Len(q.to) = 1
    /\ q.op \in {"gift", "pay"} => EvenHanded(q)

\* A quest marked stays on the board until the payout ends.
OnBoard(q) == q.op = "pay" /\ q.stage # "in" => quest[q.what].status # "gone"

WholeInv == TreasuryInv /\ \A r \in Requests : Owed(req[r]) /\ OnBoard(req[r])

-----------------------------------------------------------------------------
(* Pleas.                                                                  *)

LEMMA Typed ==
    ASSUME TreasuryInv
    PROVE  /\ req \in [Requests -> Asked]
           /\ purse \in [Heroes -> [Rows -> Count]]
           /\ price \in [Lines -> Coins]
           /\ shelf \in [Lines -> 0..MaxShelf \cup {None}]
           /\ quest \in [Quests -> [status : Statuses, gold : Nat, paid : BOOLEAN]]
           /\ \A r \in Requests : req[r] \in Asked /\ Fine(req[r])
  BY DEF TreasuryInv, Settled, TreasuryTypeOK

LEMMA PleaFields ==
    ASSUME NEW q
    PROVE  /\ Plea(q).op = q.op /\ Plea(q).to = Names(q) /\ Plea(q).what = q.what
           /\ Plea(q).coin = q.coin /\ (q.op = "edit" => Plea(q).row = q.row)
  BY DEF Plea

LEMMA IdlePlea == Plea(Idle) = Coin!Nothing
  <1>1. Idle.op = "none" /\ Idle.what = None /\ Idle.coin = 0
      BY RequestFields DEF Idle
  <1> QED BY <1>1 DEF Plea, Names, Coin!Nothing

\* Someone who asks for something has asked.
LEMMA NotNothing ==
    ASSUME NEW q, q.op # "none"
    PROVE  Plea(q) # Coin!Nothing
  <1>1. Plea(q).op # "none" BY PleaFields
  <1>2. Coin!Nothing.op = "none" BY DEF Coin!Nothing
  <1> QED BY <1>1, <1>2

\* What one request becomes is all that changes in what is asked.
LEMMA OneTurn ==
    ASSUME TreasuryInv, NEW r \in Requests, NEW q \in Asked, req' = [req EXCEPT ![r] = q]
    PROVE  /\ Asking' = [Asking EXCEPT ![r] = Plea(q)]
           /\ Asking'[r] = Plea(q) /\ Asking[r] = Plea(req[r])
  <1>1. \A x \in Requests : req'[x] = IF x = r THEN q ELSE req[x] BY Typed
  <1>2. Asking' = [x \in Requests |-> Plea(req'[x])] BY DEF Asking, Plea, Names
  <1>3. Asking = [x \in Requests |-> Plea(req[x])] BY DEF Asking
  <1>4. \A x \in Requests : Plea(req'[x]) = IF x = r THEN Plea(q) ELSE Plea(req[x])
      BY <1>1
  <1> QED BY <1>2, <1>3, <1>4

\* A request that goes on asks what it asked.
LEMMA SamePlea ==
    ASSUME TreasuryInv, NEW r \in Requests, NEW q \in Asked, req' = [req EXCEPT ![r] = q],
           Plea(q) = Plea(req[r]), UNCHANGED <<purse, shelf, price, quest>>
    PROVE  UNCHANGED Coin!vars
  <1>1. Asking' = [Asking EXCEPT ![r] = Asking[r]] BY OneTurn
  <1>2. Asking = [x \in Requests |-> Asking[x]] BY DEF Asking
  <1>3. Asking' = Asking BY <1>1, <1>2
  <1> QED BY <1>3 DEF Coin!vars

\* It comes in, or is answered.
LEMMA Turns ==
    ASSUME TreasuryInv, NEW r \in Requests, NEW q \in Asked, req' = [req EXCEPT ![r] = q],
           Plea(q) # Plea(req[r])
    PROVE  Coin!Turn(r)
  <1>1. /\ Asking' = [Asking EXCEPT ![r] = Plea(q)]
        /\ Asking'[r] = Plea(q) /\ Asking[r] = Plea(req[r])
      BY OneTurn
  <1> QED BY <1>1 DEF Coin!Turn

LEMMA Ends ==
    ASSUME TreasuryInv, NEW r \in Requests, Answered(r)
    PROVE  /\ req' = [req EXCEPT ![r] = Idle] /\ Idle \in Asked
           /\ Asking'[r] = Coin!Nothing /\ Asking[r] = Plea(req[r])
           /\ req[r].op # "none" => Coin!Turn(r)
  <1>1. req' = [req EXCEPT ![r] = Idle] /\ Idle \in Asked BY IdleFine DEF Answered
  <1>2. Asking'[r] = Coin!Nothing /\ Asking[r] = Plea(req[r]) BY <1>1, OneTurn, IdlePlea
  <1>3. req[r].op # "none" => Coin!Turn(r) BY <1>1, IdlePlea, NotNothing, Turns
  <1> QED BY <1>1, <1>2, <1>3

\* A rollback turns away, or goes unseen.
LEMMA RollBackTurns ==
    ASSUME TreasuryInv, NEW r \in Requests, RollBack(r)
    PROVE  Coin!Next \/ UNCHANGED Coin!vars
  <1>1. Answered(r) /\ UNCHANGED <<purse, shelf, price, quest>> BY DEF RollBack
  <1>2. /\ req' = [req EXCEPT ![r] = Idle] /\ Idle \in Asked /\ Asking'[r] = Coin!Nothing
      BY <1>1, Ends
  <1>3. CASE Plea(Idle) = Plea(req[r]) BY <1>1, <1>2, <1>3, SamePlea
  <1>4. CASE Plea(Idle) # Plea(req[r])
    <2>1. Coin!Turn(r) BY <1>2, <1>4, Turns
    <2>2. Coin!TurnedAway(r) BY <1>1, <1>2 DEF Coin!TurnedAway, Coin!world
    <2> QED BY <2>1, <2>2 DEF Coin!Next
  <1> QED BY <1>3, <1>4

-----------------------------------------------------------------------------
(* Who is let in.                                                          *)

LEMMA LetInAsks ==
    ASSUME TreasuryInv, NEW r \in Requests, NEW q \in Asked, LetIn(r, q), q.op # "none",
           Coin!Heard(Plea(q))
    PROVE  Coin!Next
  <1>1. /\ req[r] = Idle /\ req' = [req EXCEPT ![r] = q]
        /\ UNCHANGED <<purse, shelf, price, quest>>
      BY DEF LetIn
  <1>2. Asking'[r] = Plea(q) /\ Asking[r] = Coin!Nothing BY <1>1, OneTurn, IdlePlea
  <1>3. Coin!Turn(r) BY <1>1, IdlePlea, NotNothing, Turns
  <1>4. Coin!Ask(r) BY <1>1, <1>2 DEF Coin!Ask, Coin!world
  <1> QED BY <1>3, <1>4 DEF Coin!Next

\* A request as it comes has put nothing anywhere.
LEMMA Fresh ==
    ASSUME NEW op, NEW to \in Seq(Heroes), NEW what, NEW coin, NEW row,
           op \in {"buy", "write", "edit"} => Len(to) = 1
    PROVE  LET q == Request(op, to, what, coin, row)
           IN  /\ Owed(q) /\ OnBoard(q)
               /\ coin # 0 => \A k \in DOMAIN to : to[k] \in Names(q)
  <1> DEFINE q == Request(op, to, what, coin, row)
  <1>1. /\ q.op = op /\ q.stage = "in" /\ q.to = to /\ q.coin = coin /\ q.puts = NoWrites
      BY RequestFields
  <1>2. \A h \in Heroes : q.puts[h] = NoWrite BY <1>1, NoWritesType
  <1> HIDE DEF q
  <1>3. Owed(q) BY <1>1, <1>2 DEF Owed, EvenHanded
  <1>4. OnBoard(q) BY <1>1 DEF OnBoard
  <1>5. coin # 0 => \A k \in DOMAIN to : to[k] \in Names(q) BY <1>1 DEF Names
  <1> QED BY <1>3, <1>4, <1>5 DEF q

\* Whoever is let in may be heard, and owes nothing yet.
LEMMA AskIsHeard ==
    ASSUME TreasuryInv, NEW r \in Requests, Ask(r)
    PROVE  \E q \in Asked : /\ LetIn(r, q) /\ q.op # "none"
                            /\ Owed(q) /\ OnBoard(q) /\ Coin!Heard(Plea(q))
  <1>0. /\ price \in [Lines -> Coins] /\ purse \in [Heroes -> [Rows -> Count]]
        /\ quest \in [Quests -> [status : Statuses, gold : Nat, paid : BOOLEAN]]
      BY Typed
  <1>1. ASSUME NEW h \in Heroes, NEW l \in Lines, BuyStock(r, h, l)
        PROVE  \E q \in Asked : /\ LetIn(r, q) /\ q.op # "none"
                                /\ Owed(q) /\ OnBoard(q) /\ Coin!Heard(Plea(q))
    <2> DEFINE q == Request("buy", <<h>>, l, price[l], 0)
    <2>0. price[l] \in Coins BY <1>0
    <2>1. price[l] \in Nat BY <2>0, CoinCounts
    <2>2. q \in Asked BY <2>1, One, Asks
    <2>3. q.op = "buy" /\ q.what = l /\ q.coin = price[l] BY DEF Request
    <2>4. <<h>> \in Seq(Heroes) /\ Len(<<h>>) = 1 OBVIOUS
    <2>5. Owed(q) /\ OnBoard(q) BY <2>4, Fresh
    <2>6. LetIn(r, q) /\ shelf[l] # None BY <1>1 DEF BuyStock
    <2> HIDE DEF q
    <2>7. Coin!Heard(Plea(q)) BY <2>3, <2>6, PleaFields DEF Coin!Heard
    <2> QED BY <2>2, <2>3, <2>5, <2>6, <2>7
  <1>2. ASSUME NEW to \in Orders, NEW c \in Coins, GiveGift(r, to, c)
        PROVE  \E q \in Asked : /\ LetIn(r, q) /\ q.op # "none"
                                /\ Owed(q) /\ OnBoard(q) /\ Coin!Heard(Plea(q))
    <2> DEFINE q == Request("gift", to, None, c, 0)
    <2>1. c \in Nat /\ c < 2 * Width BY CoinCounts
    <2>2. q \in Asked BY <2>1, Named, Asks, TreasuryOK
    <2>3. q.op = "gift" /\ q.coin = c BY DEF Request
    <2>4. to \in Seq(Heroes) /\ Len(to) > 0 /\ Len(to) \in Nat BY Named
    <2>5. Owed(q) /\ OnBoard(q) /\ (c # 0 => \A k \in DOMAIN to : to[k] \in Names(q)) BY <2>4, Fresh
    <2>6. LetIn(r, q) /\ c > 0 BY <1>2 DEF GiveGift
    <2>8. 1 \in DOMAIN to BY <2>4
    <2> HIDE DEF q
    <2>9. Names(q) # {} BY <2>1, <2>5, <2>6, <2>8
    <2>7. Coin!Heard(Plea(q)) BY <2>3, <2>9, PleaFields DEF Coin!Heard
    <2> QED BY <2>2, <2>3, <2>5, <2>6, <2>7
  <1>3. ASSUME NEW to \in Orders, NEW y \in Quests, NEW split \in BOOLEAN,
               PayOutQuest(r, y, to, split)
        PROVE  \E q \in Asked : /\ LetIn(r, q) /\ q.op # "none"
                                /\ Owed(q) /\ OnBoard(q) /\ Coin!Heard(Plea(q))
    <2> DEFINE each == IF split THEN quest[y].gold \div Len(to) ELSE quest[y].gold
               q == Request("pay", to, y, each, 0)
    <2>1. quest[y].gold \in Nat BY <1>0
    <2>a. to \in Seq(Heroes) /\ Len(to) \in Nat \ {0} BY Named
    <2>b. each \in Nat /\ each <= quest[y].gold BY <2>a, <2>1, Share
    <2>c. NoWrap => each < 2 * Width
      <3>1. quest[y].gold \in Rewards \cup {0} BY DEF TreasuryInv, Settled
      <3>2. NoWrap => quest[y].gold < 2 * Width BY <2>1, <3>1, TreasuryOK DEF NoWrap
      <3> QED BY <2>1, <2>b, <3>2, TreasuryOK
    <2>6. LetIn(r, q) /\ quest[y].status = "completed" /\ ~quest[y].paid
        BY <1>3 DEF PayOutQuest
    <2> HIDE DEF each
    <2>2. q \in Asked BY <2>b, <2>c, Named, Asks, TreasuryOK
    <2>3. q.op = "pay" /\ q.what = y /\ q.coin = each BY DEF Request
    <2>5. Owed(q) /\ OnBoard(q) BY <2>a, Fresh
    <2> HIDE DEF q
    <2>7. Coin!Heard(Plea(q)) BY <2>3, <2>6, <2>b, PleaFields DEF Coin!Heard
    <2> QED BY <2>2, <2>3, <2>5, <2>6, <2>7
  <1>4. ASSUME NEW h \in Heroes, NEW n \in Coins, AddInventoryItem(r, h, n)
        PROVE  \E q \in Asked : /\ LetIn(r, q) /\ q.op # "none"
                                /\ Owed(q) /\ OnBoard(q) /\ Coin!Heard(Plea(q))
    <2> DEFINE q == Request("write", <<h>>, None, n, 0)
    <2>1. n \in Count \ {0} /\ n \in Nat BY <1>4, TreasuryOK DEF Count, AddInventoryItem
    <2>2. q \in Asked BY <2>1, One, Asks
    <2>3. q.op = "write" /\ q.coin = n BY DEF Request
    <2>4. <<h>> \in Seq(Heroes) /\ Len(<<h>>) = 1 OBVIOUS
    <2>5. Owed(q) /\ OnBoard(q) BY <2>4, Fresh
    <2>6. LetIn(r, q) BY <1>4 DEF AddInventoryItem
    <2> HIDE DEF q
    <2>7. Coin!Heard(Plea(q)) BY <2>3, PleaFields DEF Coin!Heard
    <2> QED BY <2>2, <2>3, <2>5, <2>6, <2>7
  <1>5. ASSUME NEW h \in Heroes, NEW i \in Rows, NEW n \in Coins \cup {purse[h][i]},
               UpdateInventoryItem(r, h, i, n)
        PROVE  \E q \in Asked : /\ LetIn(r, q) /\ q.op # "none"
                                /\ Owed(q) /\ OnBoard(q) /\ Coin!Heard(Plea(q))
    <2> DEFINE q == Request("edit", <<h>>, None, n, i)
    <2>1. n \in Count \ {0} /\ n \in Nat /\ i \in 0..MaxRows
        BY <1>0, <1>5, TreasuryOK DEF Count, UpdateInventoryItem, Rows
    <2>2. q \in Asked BY <2>1, One, Asks
    <2>3. q.op = "edit" /\ q.coin = n /\ q.row = i BY DEF Request
    <2>4. <<h>> \in Seq(Heroes) /\ Len(<<h>>) = 1 /\ 1 \in DOMAIN <<h>> /\ <<h>>[1] = h OBVIOUS
    <2>5. Owed(q) /\ OnBoard(q) /\ h \in Names(q) BY <2>1, <2>4, Fresh
    <2>6. LetIn(r, q) BY <1>5 DEF UpdateInventoryItem
    <2> HIDE DEF q
    <2>7. Coin!Heard(Plea(q)) BY <2>3, <2>5, PleaFields DEF Coin!Heard
    <2> QED BY <2>2, <2>3, <2>5, <2>6, <2>7
  <1>6. ASSUME NEW l \in Lines, NEW n \in 0..MaxShelf, UpdateStock(r, l, n)
        PROVE  \E q \in Asked : /\ LetIn(r, q) /\ q.op # "none"
                                /\ Owed(q) /\ OnBoard(q) /\ Coin!Heard(Plea(q))
    <2> DEFINE q == Request("restock", <<>>, l, n, 0)
    <2>1. n \in Nat /\ <<>> \in Seq(Heroes) /\ \A i, j \in DOMAIN <<>> : <<>>[i] = <<>>[j] => i = j
        BY TreasuryOK
    <2>a. 0 \in 0..MaxRows /\ l \in Lines \cup Quests \cup {None} BY TreasuryOK
    <2>2. q \in Asked BY <2>1, <2>a, Asks
    <2>3. q.op = "restock" /\ q.what = l BY DEF Request
    <2>5. Owed(q) /\ OnBoard(q) BY <2>1, Fresh
    <2>6. LetIn(r, q) /\ shelf[l] # None BY <1>6 DEF UpdateStock
    <2> HIDE DEF q
    <2>7. Coin!Heard(Plea(q)) BY <2>3, <2>6, PleaFields DEF Coin!Heard
    <2> QED BY <2>2, <2>3, <2>5, <2>6, <2>7
  <1> QED BY <1>1, <1>2, <1>3, <1>4, <1>5, <1>6 DEF Ask

-----------------------------------------------------------------------------
(* What is put in the packs.                                               *)

\* What fillPack writes is even-handed, and is written to those the request names.
LEMMA PutIsEven ==
    ASSUME TreasuryInv, NEW r \in Requests, req[r].op \in {"gift", "pay"},
           req[r].stage = "looked", Free(r), MayFill(req[r].to[1], req[r].row, req[r].coin),
           EvenHanded(req[r])
    PROVE  LET q == req[r]
               ws == Put(q)
           IN  /\ \A x \in Heroes : ws[x] # NoWrite =>
                      /\ q.coin > 0 /\ ws[x].by = q.coin
                      /\ ws[x].row # 0 => ws[x].qty <= Ceiling
               /\ q.coin # 0 => \A x \in Heroes :
                      ws[x] # NoWrite <=> x = q.to[1] \/ q.puts[x] # NoWrite
  <1> DEFINE q == req[r]
             h == q.to[1]
             ws == Put(q)
             w == [row |-> q.row, qty |-> Filled(h, q.row, q.coin), by |-> q.coin]
  <1>0. q \in Asked /\ Fine(q) BY Typed
  <1>1. /\ h \in Heroes /\ q.coin \in Nat /\ q.row \in 0..MaxRows /\ q.puts \in [Heroes -> Writes]
      BY <1>0 DEF Fine, Shaped, Asked
  <1>2. CASE q.coin = 0
    <2>1. ws = q.puts BY <1>2 DEF Put
    <2> QED BY <1>2, <2>1 DEF EvenHanded
  <1>3. CASE q.coin # 0
    <2>1. ws = [q.puts EXCEPT ![h] = w] BY <1>3 DEF Put
    <2>2. w.row = q.row /\ w.qty = Filled(h, q.row, q.coin) /\ w.by = q.coin OBVIOUS
    <2>3. q.row # 0 => Filled(h, q.row, q.coin) <= Ceiling
        BY <1>3 DEF MayFill
    <2>4. NoWrite.row = -1 BY <1>1, NoWritesType
    <2>5. w # NoWrite BY <1>1, <2>2, <2>4, TreasuryOK
    <2> HIDE DEF w, h
    <2>6. ws[h] = w /\ \A x \in Heroes \ {h} : ws[x] = q.puts[x] BY <1>1, <2>1
    <2> HIDE DEF ws
    <2>7. \A x \in Heroes : ws[x] # NoWrite =>
              q.coin > 0 /\ ws[x].by = q.coin /\ (ws[x].row # 0 => ws[x].qty <= Ceiling)
        BY <1>1, <1>3, <2>2, <2>3, <2>6 DEF EvenHanded
    <2>8. \A x \in Heroes : ws[x] # NoWrite <=> x = h \/ q.puts[x] # NoWrite
        BY <2>5, <2>6
    <2> QED BY <2>7, <2>8 DEF ws, h
  <1> QED BY <1>2, <1>3

\* A request that reads on is the same request.
LEMMA GoesOn ==
    ASSUME TreasuryInv, NEW r \in Requests, NEW i \in 0..MaxRows,
           NEW stage \in {"begun", "looked"}, Goes(r, stage, i), req[r].op # "edit", Owed(req[r]),
           req[r].op = "pay" => quest[req[r].what].status # "gone"
    PROVE  \E n \in Asked : /\ req' = [req EXCEPT ![r] = n] /\ Plea(n) = Plea(req[r])
                            /\ Owed(n) /\ OnBoard(n)
                            /\ UNCHANGED <<purse, shelf, price, quest>>
  <1> DEFINE q == req[r]
             n == [q EXCEPT !.stage = stage, !.row = i]
  <1>1. q \in Asked BY Typed
  <1>2. /\ n \in Asked /\ n.op = q.op /\ n.stage = stage /\ n.to = q.to /\ n.what = q.what
        /\ n.coin = q.coin /\ n.row = i /\ n.puts = q.puts
      BY <1>1 DEF Asked
  <1>3. req' = [req EXCEPT ![r] = n] /\ UNCHANGED <<purse, shelf, price, quest>> BY DEF Goes
  <1> HIDE DEF n
  <1>4. Plea(n) = Plea(q) BY <1>2 DEF Plea, Names
  <1>5. Owed(n) /\ OnBoard(n) BY <1>2 DEF Owed, EvenHanded, OnBoard
  <1> QED BY <1>2, <1>3, <1>4, <1>5

LEMMA LooksGoOn ==
    ASSUME WholeInv, NEW r \in Requests,
           SellStock(r) \/ BeginGift(r) \/ MarkQuestPaid(r) \/ LookInPack(r), ~RollBack(r)
    PROVE  \E n \in Asked : /\ req' = [req EXCEPT ![r] = n] /\ Plea(n) = Plea(req[r])
                            /\ Owed(n) /\ OnBoard(n)
                            /\ UNCHANGED <<purse, shelf, price, quest>>
  <1> DEFINE q == req[r]
  <1>0. TreasuryInv /\ q \in Asked /\ Fine(q) /\ Owed(q) /\ OnBoard(q) BY Typed DEF WholeInv
  <1>1. CASE SellStock(r)
    <2>1. q.op = "buy" /\ q.stage = "in" BY <1>1 DEF SellStock
    <2>2. PICK i \in PickPurse(q.to[1]) : Goes(r, "looked", i) BY <1>1 DEF SellStock
    <2>3. q.to[1] \in Heroes BY <1>0, <2>1 DEF Fine, Shaped, Asked
    <2> QED BY <1>0, <2>1, <2>2, <2>3, SeesRows, GoesOn
  <1>2. CASE BeginGift(r)
    <2>1. q.op = "gift" /\ Goes(r, "begun", 0) /\ 0 \in 0..MaxRows
        BY <1>2, TreasuryOK DEF BeginGift
    <2> QED BY <1>0, <2>1, GoesOn
  <1>3. CASE MarkQuestPaid(r)
    <2>1. q.op = "pay" /\ Unpaid(q.what) /\ Goes(r, "begun", 0) /\ 0 \in 0..MaxRows
        BY <1>3, TreasuryOK DEF MarkQuestPaid
    <2> QED BY <1>0, <2>1, GoesOn DEF Unpaid
  <1>4. CASE LookInPack(r)
    <2>1. q.op \in {"gift", "pay"} /\ q.stage = "begun" BY <1>4 DEF LookInPack
    <2>2. PICK i \in PickPurse(q.to[1]) : Goes(r, "looked", i) BY <1>4 DEF LookInPack
    <2>3. q.to[1] \in Heroes BY <1>0, <2>1 DEF Fine, Shaped, Asked
    <2>4. q.op = "pay" => quest[q.what].status # "gone" BY <1>0, <2>1 DEF OnBoard
    <2> QED BY <1>0, <2>1, <2>2, <2>3, <2>4, SeesRows, GoesOn
  <1> QED BY <1>1, <1>2, <1>3, <1>4

\* The next hero of a gift: it is the same gift.
LEMMA NextHeroGoesOn ==
    ASSUME WholeInv, NEW r \in Requests, req[r].op \in {"gift", "pay"},
           req[r].stage = "looked", Free(r), MayFill(req[r].to[1], req[r].row, req[r].coin),
           Len(req[r].to) > 1, NextHero(r)
    PROVE  \E n \in Asked : /\ req' = [req EXCEPT ![r] = n] /\ Plea(n) = Plea(req[r])
                            /\ Owed(n) /\ OnBoard(n)
                            /\ UNCHANGED <<purse, shelf, price, quest>>
  <1> DEFINE q == req[r]
             h == q.to[1]
             ws == Put(q)
             n == [q EXCEPT !.stage = "begun", !.to = Tail(q.to), !.row = 0, !.puts = ws]
  <1>0. TreasuryInv /\ q \in Asked /\ Fine(q) /\ Owed(q) /\ OnBoard(q) BY Typed DEF WholeInv
  <1>1. h \in Heroes /\ ws \in [Heroes -> Writes] BY <1>0, PutRows
  <1>2. EvenHanded(q) BY <1>0 DEF Owed
  <1>3. /\ \A x \in Heroes : ws[x] # NoWrite =>
               /\ q.coin > 0 /\ ws[x].by = q.coin
               /\ ws[x].row # 0 => ws[x].qty <= Ceiling
        /\ q.coin # 0 => \A x \in Heroes : ws[x] # NoWrite <=> x = h \/ q.puts[x] # NoWrite
      BY <1>0, <1>2, PutIsEven
  <1>4. req' = [req EXCEPT ![r] = n] /\ UNCHANGED <<purse, shelf, price, quest>>
      BY DEF NextHero
  <1> HIDE DEF ws
  <1>5. q.to \in Seq(Heroes) /\ Len(q.to) > 1 BY <1>0 DEF Asked
  <1>6. Tail(q.to) \in Seq(Heroes) BY <1>5
  <1>7. /\ n \in Asked /\ n.op = q.op /\ n.stage = "begun" /\ n.to = Tail(q.to)
        /\ n.what = q.what /\ n.coin = q.coin /\ n.row = 0 /\ n.puts = ws
    <2>1. 0 \in 0..MaxRows BY TreasuryOK
    <2> QED BY <1>0, <1>1, <1>6, <2>1 DEF Asked
  <1> HIDE DEF n
  <1>8. Names(n) = Names(q)
    <2>1. CASE q.coin = 0 BY <1>7, <2>1 DEF Names
    <2>2. CASE q.coin # 0
      <3>1. {q.to[k] : k \in DOMAIN q.to} = {h} \cup {Tail(q.to)[k] : k \in DOMAIN Tail(q.to)}
        <4>1. /\ \A k \in DOMAIN Tail(q.to) :
                     k + 1 \in DOMAIN q.to /\ Tail(q.to)[k] = q.to[k + 1]
              /\ \A k \in DOMAIN q.to :
                     k = 1 \/ (k - 1 \in DOMAIN Tail(q.to) /\ Tail(q.to)[k - 1] = q.to[k])
              /\ 1 \in DOMAIN q.to
            BY <1>5
        <4> HIDE DEF q
        <4> QED BY <4>1
      <3>2. {x \in Heroes : ws[x] # NoWrite} = {h} \cup {x \in Heroes : q.puts[x] # NoWrite}
          BY <1>1, <1>3, <2>2
      <3>3. Names(n) = {Tail(q.to)[k] : k \in DOMAIN Tail(q.to)} \cup {x \in Heroes : ws[x] # NoWrite}
          BY <1>7, <2>2 DEF Names
      <3>4. Names(q) = {q.to[k] : k \in DOMAIN q.to} \cup {x \in Heroes : q.puts[x] # NoWrite}
          BY <2>2 DEF Names
      <3> QED BY <3>1, <3>2, <3>3, <3>4
    <2> QED BY <2>1, <2>2
  <1>9. Plea(n) = Plea(q) BY <1>7, <1>8 DEF Plea
  <1>10. Owed(n) BY <1>3, <1>7 DEF Owed, EvenHanded
  <1>11. OnBoard(n) BY <1>0, <1>7 DEF OnBoard
  <1> QED BY <1>4, <1>7, <1>9, <1>10, <1>11

-----------------------------------------------------------------------------
(* Coin that moves.                                                        *)

\* A commit that gives each of some heroes the same coin, or takes it, in one row.
LEMMA CommitMoves ==
    ASSUME TreasuryTypeOK, NEW ws, Committable(ws), Committed(ws), NEW n \in Int,
           NEW to \in SUBSET Heroes,
           \A h \in Heroes : ws[h] # NoWrite <=> h \in to,
           \A h \in to : /\ ws[h].by = n
                         /\ ws[h].row = 0 => ws[h].qty = n
                         /\ \A i \in Rows : ws[h].row = i => ws[h].qty = purse[h][i] + n
                         /\ n > 0 /\ ws[h].row # 0 => ws[h].qty <= Ceiling
    PROVE  Coin!Moves(to, n)
  <1> DEFINE row == [h \in to |-> Lands(h, ws[h])]
  <1>1. \A h \in Heroes, i \in Rows : purse[h][i] \in Nat
      BY TreasuryOK DEF TreasuryTypeOK, Count
  <1>2. \A h \in Heroes : ws[h].qty \in Nat /\ ws[h].by \in Int
    <2>1. \A h \in Heroes : ws[h].qty \in Count /\ ws[h].by \in Int BY DEF Committable, Writes
    <2>2. Count \subseteq Nat BY TreasuryOK DEF Count
    <2> QED BY <2>1, <2>2
  <1>3. ASSUME NEW h \in to
        PROVE  /\ row[h] \in Rows /\ Landed(ws, h, row[h])
               /\ ws[h].qty = purse[h][row[h]] + n
               /\ n > 0 /\ purse[h][row[h]] > 0 => ws[h].qty <= Ceiling
    <2>1. h \in Heroes /\ row[h] = Lands(h, ws[h]) /\ Landed(ws, h, row[h]) BY DEF Landed
    <2> HIDE DEF row
    <2>2. /\ row[h] \in Rows
          /\ ws[h].row = 0 => row[h] \in Spare(h)
          /\ ws[h].row # 0 => row[h] = ws[h].row
        BY <2>1, LandsInARow
    <2>3. CASE ws[h].row = 0
      <3>1. purse[h][row[h]] = 0 BY <2>2, <2>3 DEF Spare
      <3> QED BY <2>1, <2>2, <2>3, <3>1
    <2>4. CASE ws[h].row # 0 BY <2>1, <2>2, <2>4
    <2> QED BY <2>3, <2>4
  <1>4. \A h \in Heroes, i \in Rows : Landed(ws, h, i) <=> h \in to /\ i = row[h]
      BY DEF Landed
  <1> HIDE DEF row
  <1>5. row \in [to -> Rows]
    <2>1. row = [h \in to |-> row[h]] BY DEF row
    <2> QED BY <1>3, <2>1
  <1>6. purse' = [h \in Heroes |-> [i \in Rows |->
            IF h \in to /\ i = row[h] THEN purse[h][i] + n ELSE purse[h][i]]]
    <2>1. ASSUME NEW h \in Heroes, NEW i \in Rows
          PROVE  (IF Landed(ws, h, i) THEN ws[h].qty ELSE purse[h][i])
                     = IF h \in to /\ i = row[h] THEN purse[h][i] + n ELSE purse[h][i]
        BY <1>3, <1>4
    <2> QED BY <2>1 DEF Committed
  <1>7. \A h \in to : /\ purse[h][row[h]] + n >= 0
                      /\ n > 0 /\ purse[h][row[h]] > 0 => purse[h][row[h]] + n <= Ceiling
    <2> TAKE h \in to
    <2>1. ws[h].qty \in Nat BY <1>2
    <2> QED BY <1>3, <2>1
  <1> QED BY <1>5, <1>6, <1>7 DEF Coin!Moves

-----------------------------------------------------------------------------
(* Every step.                                                             *)

\* A step of the ledger, or none, after which requests owe what they should.
Serves ==
    /\ [Coin!Next]_Coin!vars
    /\ \A x \in Requests : Owed(req'[x]) /\ OnBoard(req[x])'

\* The other requests owe what they owed.
LEMMA OthersOwe ==
    ASSUME WholeInv, NEW r \in Requests, NEW n \in Asked, req' = [req EXCEPT ![r] = n],
           Owed(n), OnBoard(n)', \A y \in Quests : quest'[y].status = quest[y].status
    PROVE  \A x \in Requests : Owed(req'[x]) /\ OnBoard(req[x])'
  <1> TAKE x \in Requests
  <1>0. TreasuryInv /\ Fine(req[x]) /\ Owed(req[x]) /\ OnBoard(req[x]) BY Typed DEF WholeInv
  <1>1. req'[x] = IF x = r THEN n ELSE req[x] BY <1>0, Typed
  <1>2. CASE x = r BY <1>1, <1>2 DEF OnBoard
  <1>3. CASE x # r
    <2>1. req[x].op = "pay" => req[x].what \in Quests BY <1>0 DEF Fine, Shaped
    <2> QED BY <1>0, <1>1, <1>3, <2>1 DEF OnBoard
  <1> QED BY <1>2, <1>3

LEMMA IdleOwes == Owed(Idle) /\ OnBoard(Idle)'
  <1>1. Idle.op = "none" BY RequestFields DEF Idle
  <1> QED BY <1>1 DEF Owed, OnBoard

LEMMA RollBackServes ==
    ASSUME WholeInv, NEW r \in Requests, RollBack(r)
    PROVE  Serves
  <1>1. Coin!Next \/ UNCHANGED Coin!vars BY RollBackTurns DEF WholeInv
  <1>2. req' = [req EXCEPT ![r] = Idle] /\ Idle \in Asked /\ UNCHANGED quest
      BY Ends DEF RollBack, WholeInv
  <1> QED BY <1>1, <1>2, IdleOwes, OthersOwe DEF Serves

LEMMA AskServes ==
    ASSUME WholeInv, NEW r \in Requests, Ask(r)
    PROVE  Serves
  <1>1. PICK q \in Asked : /\ LetIn(r, q) /\ q.op # "none"
                           /\ Owed(q) /\ OnBoard(q) /\ Coin!Heard(Plea(q))
      BY AskIsHeard DEF WholeInv
  <1>2. Coin!Next BY <1>1, LetInAsks DEF WholeInv
  <1>3. req' = [req EXCEPT ![r] = q] /\ UNCHANGED quest BY <1>1 DEF LetIn
  <1>4. OnBoard(q)' BY <1>1, <1>3 DEF OnBoard
  <1> QED BY <1>1, <1>2, <1>3, <1>4, OthersOwe DEF Serves

\* A request that goes on goes unseen.
LEMMA UnseenServes ==
    ASSUME WholeInv, NEW r \in Requests,
           \E n \in Asked : /\ req' = [req EXCEPT ![r] = n] /\ Plea(n) = Plea(req[r])
                           /\ Owed(n) /\ OnBoard(n)
                           /\ UNCHANGED <<purse, shelf, price, quest>>
    PROVE  Serves
  <1>1. PICK n \in Asked : /\ req' = [req EXCEPT ![r] = n] /\ Plea(n) = Plea(req[r])
                           /\ Owed(n) /\ OnBoard(n)
                           /\ UNCHANGED <<purse, shelf, price, quest>>
      OBVIOUS
  <1>2. UNCHANGED Coin!vars BY <1>1, SamePlea DEF WholeInv
  <1>3. OnBoard(n)' BY <1>1 DEF OnBoard
  <1> QED BY <1>1, <1>2, <1>3, OthersOwe DEF Serves

LEMMA LooksServe ==
    ASSUME WholeInv, NEW r \in Requests,
           SellStock(r) \/ BeginGift(r) \/ MarkQuestPaid(r) \/ LookInPack(r)
    PROVE  Serves
  BY LooksGoOn, UnseenServes, RollBackServes

\* An answer that does what was asked.
LEMMA AnswerServes ==
    ASSUME WholeInv, NEW r \in Requests, Answered(r), req[r].op # "none",
           \/ Coin!Sale(r) \/ Coin!Gift(r) \/ Coin!Payout(r)
           \/ Coin!Written(r) \/ Coin!Edited(r) \/ Coin!Restocked(r),
           \A y \in Quests : quest'[y].status = quest[y].status
    PROVE  Serves
  <1>1. /\ req' = [req EXCEPT ![r] = Idle] /\ Idle \in Asked
        /\ Asking'[r] = Coin!Nothing /\ Coin!Turn(r)
      BY Ends DEF WholeInv
  <1>2. Coin!Served(r) BY <1>1 DEF Coin!Served
  <1>3. Coin!Next BY <1>1, <1>2 DEF Coin!Next
  <1> QED BY <1>1, <1>3, IdleOwes, OthersOwe DEF Serves

LEMMA Less ==
    ASSUME NEW a \in Nat, NEW b \in Nat, b <= a, a < Width
    PROVE  a - b \in Count
  BY TreasuryOK DEF Count

LEMMA SaleServes ==
    ASSUME WholeInv, NEW r \in Requests, PayForStock(r)
    PROVE  Serves
  <1> DEFINE q == req[r]
             h == q.to[1]
             ws == Payment(h, q.row, q.coin)
  <1>0. TreasuryInv /\ q \in Asked /\ Fine(q) /\ Owed(q) BY Typed DEF WholeInv
  <1>t. TreasuryTypeOK BY <1>0 DEF TreasuryInv, Settled
  <1>1. q.op = "buy" /\ q.stage = "looked" BY DEF PayForStock
  <1>2. CASE ~CanPay(h, q.row, q.coin) BY <1>2, RollBackServes DEF PayForStock
  <1>3. CASE CanPay(h, q.row, q.coin)
    <2>1. /\ Committed(ws) /\ Answered(r)
          /\ shelf' = [shelf EXCEPT ![q.what] = @ - 1] /\ UNCHANGED <<price, quest>>
        BY <1>3 DEF PayForStock
    <2>2. /\ q.what \in Lines /\ h \in Heroes /\ q.coin \in Nat /\ q.row \in 0..MaxRows
          /\ shelf[q.what] \in 1..MaxShelf /\ q.puts = NoWrites
          /\ q.to \in Seq(Heroes) /\ Len(q.to) = 1
        BY <1>0, <1>1 DEF Fine, Shaped, Asked, OnShelf, Owed
    <2>3. Asking[r].op = "buy" /\ Asking[r].what = q.what /\ Asking[r].coin = q.coin
          /\ Asking[r].to = Names(q)
        BY <1>0, <1>1, <2>1, Ends, PleaFields
    <2>4. Names(q) = IF q.coin = 0 THEN {} ELSE {h}
      <3>1. {q.to[k] : k \in DOMAIN q.to} = {h} BY <2>2
      <3>2. {x \in Heroes : q.puts[x] # NoWrite} = {} BY <2>2, NoWritesType
      <3> QED BY <3>1, <3>2 DEF Names
    <2>5. Coin!Moves(Names(q), -q.coin)
      <3>1. CASE q.coin = 0
        <4>1. ws = NoWrites BY <3>1 DEF Payment
        <4>2. Committable(ws)
            BY <4>1, NoWritesType, TreasuryOK DEF Committable, Room
        <4>3. \A x \in Heroes : ws[x] = NoWrite BY <4>1, NoWritesType
        <4>4. Names(q) = {} /\ -q.coin \in Int BY <2>2, <2>4, <3>1
        <4> HIDE DEF ws
        <4> QED BY <1>t, <2>1, <4>2, <4>3, <4>4, CommitMoves
      <3>2. CASE q.coin # 0
        <4>1. q.row \in Rows /\ purse[h][q.row] >= q.coin
            BY <1>3, <2>2, <3>2 DEF CanPay, Rows
        <4>2. purse[h][q.row] \in Count BY <2>2, <4>1, <1>t DEF TreasuryTypeOK
        <4>3. /\ purse[h][q.row] - q.coin \in Count /\ purse[h][q.row] \in Int
              /\ -q.coin \in Int /\ q.row \in -1..MaxRows /\ q.row # -1 /\ q.row # 0
          <5>1. purse[h][q.row] \in Nat /\ purse[h][q.row] < Width
              BY <4>2, TreasuryOK DEF Count
          <5>2. purse[h][q.row] - q.coin \in Count BY <2>2, <4>1, <5>1, Less
          <5>3. q.row \in -1..MaxRows /\ q.row # -1 /\ q.row # 0
              BY <4>1, TreasuryOK DEF Rows
          <5> QED BY <2>2, <5>1, <5>2, <5>3
        <4> DEFINE n == purse[h][q.row] - q.coin
                   b == -q.coin
        <4>4. ws = Write(h, q.row, n, b) BY <3>2 DEF Payment
        <4>a. n \in Count /\ b \in Int /\ n = purse[h][q.row] + b /\ b <= 0
            BY <2>2, <4>3
        <4> HIDE DEF ws, n, b, h, q
        <4>5. /\ ws \in [Heroes -> Writes]
              /\ ws[h] = [row |-> q.row, qty |-> n, by |-> b]
              /\ \A x \in Heroes \ {h} : ws[x] = NoWrite
            BY <2>2, <4>3, <4>4, <4>a, OneWrite
        <4>6. ws[h].row = q.row /\ ws[h].qty = n /\ ws[h].by = b
            BY <4>5
        <4>7. NoWrite.row = -1 BY <2>2, NoWritesType
        <4>8. ws[h] # NoWrite BY <4>3, <4>6, <4>7
        <4>9. Committable(ws) BY <4>3, <4>5, <4>6, <4>7 DEF Committable, Room
        <4>10. Names(q) = {h} BY <2>4, <3>2
        <4>11. \A x \in Heroes : ws[x] # NoWrite <=> x \in {h} BY <2>2, <4>5, <4>8
        <4>12. \A x \in {h} : /\ ws[x].by = b
                              /\ ws[x].row = 0 => ws[x].qty = b
                              /\ \A i \in Rows : ws[x].row = i => ws[x].qty = purse[x][i] + b
                              /\ b > 0 /\ ws[x].row # 0 => ws[x].qty <= Ceiling
            BY <4>3, <4>6, <4>a
        <4>13. {h} \in SUBSET Heroes BY <2>2
        <4>14. Coin!Moves({h}, b) BY <1>t, <2>1, <4>a, <4>9, <4>11, <4>12, <4>13, CommitMoves
        <4> QED BY <4>10, <4>14 DEF b
      <3> QED BY <3>1, <3>2
    <2>6. Coin!Sale(r) BY <2>1, <2>2, <2>3, <2>5 DEF Coin!Sale
    <2> QED BY <1>1, <2>1, <2>6, AnswerServes
  <1> QED BY <1>2, <1>3

\* Who is named by a request with one hero left to see to.
LEMMA LastNames ==
    ASSUME NEW q \in Asked, Len(q.to) = 1
    PROVE  Names(q) = IF q.coin = 0 THEN {}
                      ELSE {q.to[1]} \cup {h \in Heroes : q.puts[h] # NoWrite}
  <1>1. q.to \in Seq(Heroes) BY DEF Asked
  <1>2. {q.to[k] : k \in DOMAIN q.to} = {q.to[1]} BY <1>1
  <1> QED BY <1>2 DEF Names

LEMMA HandedServes ==
    ASSUME WholeInv, NoWrap, NEW r \in Requests, req[r].op \in {"gift", "pay"},
           req[r].stage = "looked", Free(r), MayFill(req[r].to[1], req[r].row, req[r].coin),
           Room(Put(req[r])), Len(req[r].to) = 1, Handed(r)
    PROVE  Serves
  <1> DEFINE q == req[r]
             h == q.to[1]
             ws == Put(q)
  <1>0. TreasuryInv /\ q \in Asked /\ Fine(q) /\ Owed(q) /\ OnBoard(q) BY Typed DEF WholeInv
  <1>t. TreasuryTypeOK BY <1>0 DEF TreasuryInv, Settled
  <1>1. /\ h \in Heroes /\ ws \in [Heroes -> Writes]
        /\ \A x \in Heroes : ws[x].row = -1 => ws[x] = NoWrite
        /\ NoWrap => \A x \in Heroes : ws[x].row = 0 => ws[x].qty = ws[x].by
        /\ \A x \in Heroes, i \in Rows : ws[x].row = i => ws[x].qty = purse[x][i] + ws[x].by
      BY <1>0, PutRows
  <1>2. EvenHanded(q) BY <1>0 DEF Owed
  <1>3. /\ \A x \in Heroes : ws[x] # NoWrite =>
               /\ q.coin > 0 /\ ws[x].by = q.coin
               /\ ws[x].row # 0 => ws[x].qty <= Ceiling
        /\ q.coin # 0 => \A x \in Heroes : ws[x] # NoWrite <=> x = h \/ q.puts[x] # NoWrite
      BY <1>0, <1>2, PutIsEven
  <1>4. Committed(ws) /\ Answered(r) /\ Room(ws) /\ UNCHANGED <<shelf, price>>
      BY DEF Handed
  <1>5. \/ q.op = "pay" /\ quest' = [quest EXCEPT ![q.what].paid = TRUE]
        \/ q.op # "pay" /\ UNCHANGED quest
      BY DEF Handed
  <1>6. Names(q) = IF q.coin = 0 THEN {} ELSE {h} \cup {x \in Heroes : q.puts[x] # NoWrite}
      BY <1>0, LastNames
  <1>7. /\ Asking[r].op = q.op /\ Asking[r].what = q.what /\ Asking[r].coin = q.coin
        /\ Asking[r].to = Names(q)
      BY <1>0, <1>4, Ends, PleaFields
  <1>8. q.coin \in Nat /\ q.coin \in Int BY <1>0 DEF Asked
  <1>9. /\ quest \in [Quests -> [status : Statuses, gold : Nat, paid : BOOLEAN]]
        /\ q.op = "pay" => q.what \in Quests /\ quest[q.what].status # "gone" /\ ~quest[q.what].paid
      BY <1>0, Typed DEF Fine, Shaped, Marked, OnBoard
  <1> HIDE DEF ws, h, q
  <1>10. Committable(ws) BY <1>1, <1>4 DEF Committable
  <1>11. Names(q) \in SUBSET Heroes /\ \A x \in Heroes : ws[x] # NoWrite <=> x \in Names(q)
      BY <1>1, <1>3, <1>6
  <1>12. \A x \in Names(q) :
            /\ ws[x].by = q.coin
            /\ ws[x].row = 0 => ws[x].qty = q.coin
            /\ \A i \in Rows : ws[x].row = i => ws[x].qty = purse[x][i] + q.coin
            /\ q.coin > 0 /\ ws[x].row # 0 => ws[x].qty <= Ceiling
    <2> TAKE x \in Names(q)
    <2>1. x \in Heroes /\ ws[x] # NoWrite BY <1>11
    <2>2. ws[x].by = q.coin /\ (ws[x].row # 0 => ws[x].qty <= Ceiling) BY <1>3, <2>1
    <2>3. ws[x].row = 0 => ws[x].qty = q.coin BY <1>1, <2>1, <2>2
    <2>4. \A i \in Rows : ws[x].row = i => ws[x].qty = purse[x][i] + q.coin
        BY <1>1, <2>1, <2>2
    <2> QED BY <2>2, <2>3, <2>4
  <1>13. Coin!Moves(Names(q), q.coin)
      BY <1>t, <1>4, <1>8, <1>10, <1>11, <1>12, CommitMoves
  <1>14. \A y \in Quests : quest'[y].status = quest[y].status
    <2>1. CASE q.op # "pay" BY <1>5, <2>1
    <2>2. CASE q.op = "pay"
      <3>1. quest' = [quest EXCEPT ![q.what].paid = TRUE] /\ q.what \in Quests BY <1>5, <1>9, <2>2
      <3> QED BY <1>9, <3>1
    <2> QED BY <2>1, <2>2
  <1>15. q.op = "pay" => Coin!Payout(r)
      BY <1>4, <1>5, <1>7, <1>9, <1>13 DEF Coin!Payout
  <1>16. q.op = "gift" => Coin!Gift(r)
      BY <1>4, <1>5, <1>7, <1>13 DEF Coin!Gift
  <1>17. q.op = "pay" \/ q.op = "gift" BY DEF q
  <1>18. Coin!Payout(r) \/ Coin!Gift(r) BY <1>15, <1>16, <1>17
  <1> QED BY <1>4, <1>14, <1>18, AnswerServes

LEMMA OneOrMore ==
    ASSUME NEW s \in Seq(Heroes), Len(s) > 0
    PROVE  Len(s) = 1 \/ Len(s) > 1
  <1>1. Len(s) \in Nat OBVIOUS
  <1>2. \A n \in Nat : n > 0 => n = 1 \/ n > 1 OBVIOUS
  <1> QED BY <1>1, <1>2, Zenon

LEMMA FillServes ==
    ASSUME WholeInv, NoWrap, NEW r \in Requests, FillPack(r)
    PROVE  Serves
  <1> DEFINE q == req[r]
             h == q.to[1]
  <1>0. q \in Asked /\ Fine(q) BY Typed DEF WholeInv
  <1>1. q.op \in {"gift", "pay"} /\ q.stage = "looked" /\ Free(r) BY DEF FillPack
  <1>2. Len(q.to) = 1 \/ Len(q.to) > 1
    <2>1. q.to \in Seq(Heroes) /\ Len(q.to) > 0 BY <1>0, <1>1 DEF Fine, Shaped, Asked
    <2> QED BY <2>1, OneOrMore
  <1>3. CASE ~MayFill(h, q.row, q.coin) \/ ~Room(Put(q))
      BY <1>3, RollBackServes DEF FillPack
  <1>4. CASE MayFill(h, q.row, q.coin) /\ Room(Put(q)) /\ Len(q.to) > 1
    <2>1. NextHero(r) BY <1>4 DEF FillPack
    <2> QED BY <1>1, <1>4, <2>1, NextHeroGoesOn, UnseenServes
  <1>5. CASE MayFill(h, q.row, q.coin) /\ Room(Put(q)) /\ ~(Len(q.to) > 1)
    <2>1. Handed(r) BY <1>5 DEF FillPack
    <2>2. Len(q.to) = 1 BY <1>2, <1>5, Zenon
    <2> QED BY <1>1, <1>5, <2>1, <2>2, HandedServes
  <1> QED BY <1>3, <1>4, <1>5

-----------------------------------------------------------------------------
(* What is written by hand.                                                *)

\* The one hero of a row written by hand.
LEMMA OneName ==
    ASSUME NEW q \in Asked, Len(q.to) = 1, q.coin # 0
    PROVE  q.to[1] \in Heroes /\ q.to[1] \in Names(q)
  <1>1. q.to \in Seq(Heroes) BY DEF Asked
  <1> QED BY <1>1 DEF Names

LEMMA AddPurseServes ==
    ASSUME WholeInv, NEW r \in Requests, AddPurse(r)
    PROVE  Serves
  <1> DEFINE q == req[r]
             h == q.to[1]
             ws == Write(h, 0, q.coin, q.coin)
  <1>0. TreasuryInv /\ q \in Asked /\ Fine(q) /\ Owed(q) BY Typed DEF WholeInv
  <1>1. /\ Committed(ws) /\ Answered(r) /\ q.op = "write" /\ Spare(h) # {}
        /\ UNCHANGED <<shelf, price, quest>>
      BY DEF AddPurse
  <1>2. /\ q.coin \in Count \ {0} /\ q.coin \in Count /\ q.coin \in Int /\ q.coin # 0
        /\ 0 \in -1..MaxRows /\ Len(q.to) = 1
      BY <1>0, <1>1, CountInt, TreasuryOK DEF Fine, Shaped, Owed
  <1>3. h \in Heroes /\ h \in Names(q) BY <1>0, <1>2, OneName
  <1>4. Asking[r].op = "write" /\ Asking[r].coin = q.coin /\ Asking[r].to = Names(q)
      BY <1>0, <1>1, Ends, PleaFields
  <1> HIDE DEF ws, h, q
  <1>5. /\ ws \in [Heroes -> Writes] /\ ws[h] = [row |-> 0, qty |-> q.coin, by |-> q.coin]
        /\ \A x \in Heroes \ {h} : ws[x] = NoWrite
      BY <1>2, <1>3, OneWrite DEF ws
  <1>6. ws[h].row = 0 /\ ws[h].qty = q.coin BY <1>5
  <1>7. ws[h] # NoWrite BY <1>3, <1>6, NoWritesType
  <1>8. PICK i \in Rows : i = Lands(h, ws[h]) /\ purse[h][i] = 0
    <2>1. Lands(h, ws[h]) \in Spare(h) BY <1>1, <1>6 DEF Lands
    <2> QED BY <2>1 DEF Spare
  <1>9. purse' = [purse EXCEPT ![h][i] = q.coin]
    <2>1. purse \in [Heroes -> [Rows -> Count]] BY <1>0, Typed
    <2>2. \A x \in Heroes, k \in Rows : Landed(ws, x, k) <=> x = h /\ k = i
        BY <1>5, <1>7, <1>8 DEF Landed
    <2>3. purse' = [x \in Heroes |-> [k \in Rows |->
              IF Landed(ws, x, k) THEN ws[x].qty ELSE purse[x][k]]]
        BY <1>1 DEF Committed
    <2>4. purse' = [x \in Heroes |-> [k \in Rows |->
              IF x = h /\ k = i THEN q.coin ELSE purse[x][k]]]
        BY <1>6, <2>2, <2>3
    <2>5. [purse EXCEPT ![h][i] = q.coin] = [x \in Heroes |-> [k \in Rows |->
              IF x = h /\ k = i THEN q.coin ELSE purse[x][k]]]
        BY <1>3, <2>1
    <2> QED BY <2>4, <2>5
  <1>10. Coin!Written(r) BY <1>1, <1>3, <1>4, <1>8, <1>9 DEF Coin!Written
  <1>11. req[r].op # "none" BY <1>1 DEF q
  <1> QED BY <1>1, <1>10, <1>11, AnswerServes

LEMMA WriteItemServes ==
    ASSUME WholeInv, NEW r \in Requests, WriteItem(r)
    PROVE  Serves
  <1> DEFINE q == req[r]
             h == q.to[1]
  <1>0. TreasuryInv /\ q \in Asked /\ Fine(q) /\ Owed(q) BY Typed DEF WholeInv
  <1>1. q.op = "edit" BY DEF WriteItem
  <1>2. CASE purse[h][q.row] = 0 BY <1>2, RollBackServes DEF WriteItem
  <1>3. CASE purse[h][q.row] # 0
    <2>1. /\ purse' = [purse EXCEPT ![h][q.row] = q.coin] /\ Answered(r)
          /\ UNCHANGED <<shelf, price, quest>>
        BY <1>3 DEF WriteItem
    <2>2. q.row \in Rows /\ q.coin # 0 /\ Len(q.to) = 1
        BY <1>0, <1>1 DEF Fine, Shaped, Owed
    <2>3. h \in Heroes /\ h \in Names(q) BY <1>0, <2>2, OneName
    <2>4. /\ Asking[r].op = "edit" /\ Asking[r].coin = q.coin /\ Asking[r].to = Names(q)
          /\ Asking[r].row = q.row
        BY <1>0, <1>1, <2>1, Ends, PleaFields
    <2>5. purse[h][q.row] > 0
      <3>1. purse[h][q.row] \in Count BY <1>0, <2>2, <2>3, Typed
      <3> QED BY <1>3, <3>1, TreasuryOK DEF Count
    <2> HIDE DEF h
    <2>6. Coin!Edited(r) BY <2>1, <2>3, <2>4, <2>5 DEF Coin!Edited
    <2> QED BY <1>1, <2>1, <2>6, AnswerServes
  <1> QED BY <1>2, <1>3

LEMMA WriteStockServes ==
    ASSUME WholeInv, NEW r \in Requests, NEW p \in Coins, WriteStock(r, p)
    PROVE  Serves
  <1> DEFINE q == req[r]
             l == q.what
  <1>0. TreasuryInv /\ q \in Asked BY Typed DEF WholeInv
  <1>1. q.op = "restock" BY DEF WriteStock
  <1>2. CASE shelf[l] = None BY <1>2, RollBackServes DEF WriteStock
  <1>3. CASE shelf[l] # None
    <2>1. /\ shelf' = [shelf EXCEPT ![l] = q.coin] /\ price' = [price EXCEPT ![l] = p]
          /\ Answered(r) /\ UNCHANGED <<purse, quest>>
        BY <1>3 DEF WriteStock
    <2>2. Asking[r].op = "restock" /\ Asking[r].coin = q.coin /\ Asking[r].what = l
        BY <1>0, <1>1, <2>1, Ends, PleaFields
    <2>3. Coin!Restocked(r) BY <1>3, <2>1, <2>2 DEF Coin!Restocked
    <2> QED BY <1>1, <2>1, <2>3, AnswerServes
  <1> QED BY <1>2, <1>3

\* What no request has a part in.
LEMMA NoRequest ==
    ASSUME WholeInv, UNCHANGED req,
           \A y \in Quests : quest'[y].status # quest[y].status => Untouched(y) \/ quest'[y].status # "gone"
    PROVE  Asking' = Asking /\ \A x \in Requests : Owed(req'[x]) /\ OnBoard(req[x])'
  <1>1. Asking' = Asking BY DEF Asking, Plea, Names
  <1>2. ASSUME NEW x \in Requests PROVE Owed(req'[x]) /\ OnBoard(req[x])'
    <2>1. Fine(req[x]) /\ Owed(req[x]) /\ OnBoard(req[x]) BY Typed DEF WholeInv
    <2>2. ASSUME req[x].op = "pay", req[x].stage # "in" PROVE quest'[req[x].what].status # "gone"
      <3>1. req[x].what \in Quests /\ quest[req[x].what].status # "gone"
          BY <2>1, <2>2 DEF Fine, Shaped, OnBoard
      <3>2. ~Untouched(req[x].what) BY <2>2 DEF Untouched, Held
      <3> QED BY <3>1, <3>2
    <2> QED BY <2>1, <2>2 DEF OnBoard
  <1> QED BY <1>1, <1>2

LEMMA ByHandServes ==
    ASSUME WholeInv,
           \/ \E h \in Heroes, i \in Rows : DeleteInventoryItem(h, i)
           \/ \E l \in Lines : DeleteStock(l) \/ \E n \in 1..MaxShelf : AddStock(l, n)
    PROVE  Serves
  <1>1. UNCHANGED <<req, quest>> BY DEF DeleteInventoryItem, DeleteStock, AddStock
  <1>2. Asking' = Asking /\ \A x \in Requests : Owed(req'[x]) /\ OnBoard(req[x])'
      BY <1>1, NoRequest
  <1>3. ASSUME NEW h \in Heroes, NEW i \in Rows, DeleteInventoryItem(h, i) PROVE Coin!Next
    <2>1. Coin!ThrownOut(h, i) BY <1>2, <1>3 DEF DeleteInventoryItem, Coin!ThrownOut
    <2> QED BY <2>1 DEF Coin!Next
  <1>4. ASSUME NEW l \in Lines, DeleteStock(l) \/ \E n \in 1..MaxShelf : AddStock(l, n)
        PROVE  Coin!Next
    <2>1. Coin!Shelved(l) BY <1>2, <1>4 DEF DeleteStock, AddStock, Coin!Shelved
    <2> QED BY <2>1 DEF Coin!Next
  <1> QED BY <1>2, <1>3, <1>4 DEF Serves

LEMMA QuestServes ==
    ASSUME WholeInv, NEW q \in Quests,
           DeleteQuest(q) \/ \E s \in Statuses \ {"gone"}, g \in Rewards : UpdateQuest(q, s, g)
    PROVE  Serves
  <1>0. quest \in [Quests -> [status : Statuses, gold : Nat, paid : BOOLEAN]]
      BY Typed DEF WholeInv
  <1>1. UNCHANGED <<purse, shelf, price, req>> /\ Untouched(q) /\ quest[q].status # "gone"
      BY DEF DeleteQuest, UpdateQuest
  <1>2. \A y \in Quests \ {q} : quest'[y] = quest[y]
      BY <1>0 DEF DeleteQuest, UpdateQuest
  <1>3. Asking' = Asking /\ \A x \in Requests : Owed(req'[x]) /\ OnBoard(req[x])'
      BY <1>1, <1>2, NoRequest
  <1>4. Coin!Rewritten(q)
      BY <1>1, <1>3 DEF DeleteQuest, UpdateQuest, Statuses, Coin!Rewritten
  <1> QED BY <1>3, <1>4 DEF Coin!Next, Serves

-----------------------------------------------------------------------------
(* All together.                                                           *)

LEMMA WholeStarts == TreasuryInit => WholeInv /\ Coin!Init
  <1> SUFFICES ASSUME TreasuryInit PROVE WholeInv /\ Coin!Init OBVIOUS
  <1>1. \A r \in Requests : req[r] = Idle BY DEF TreasuryInit
  <1>2. Idle.op = "none" BY RequestFields DEF Idle
  <1>3. \A r \in Requests : Owed(req[r]) /\ OnBoard(req[r]) BY <1>1, <1>2 DEF Owed, OnBoard
  <1>4. Asking = [r \in Requests |-> Coin!Nothing] BY <1>1, IdlePlea DEF Asking
  <1>5. Coin!Init BY <1>4 DEF TreasuryInit, Coin!Init
  <1> QED BY <1>3, <1>5, TreasuryStarts DEF WholeInv

\* Every step of the tables is one of the ledger, or goes unseen, and leaves the invariant.
THEOREM WholeStep ==
    ASSUME NoWrap
    PROVE  WholeInv /\ [TreasuryNext]_treasuryVars => WholeInv' /\ [Coin!Next]_Coin!vars
  <1> SUFFICES ASSUME WholeInv, [TreasuryNext]_treasuryVars
               PROVE  WholeInv' /\ [Coin!Next]_Coin!vars
      OBVIOUS
  <1>1. TreasuryInv' BY TreasuryStep DEF WholeInv
  <1>2. ASSUME NEW r \in Requests, Step(r) PROVE Serves
      BY <1>2, LooksServe, SaleServes, FillServes, AddPurseServes, WriteItemServes, WriteStockServes
      DEF Step
  <1>3. ASSUME UNCHANGED treasuryVars PROVE Serves
    <2>1. UNCHANGED <<purse, shelf, price, quest, req>> BY <1>3 DEF treasuryVars
    <2>2. Asking' = Asking /\ \A x \in Requests : Owed(req'[x]) /\ OnBoard(req[x])'
        BY <2>1, NoRequest
    <2> QED BY <2>1, <2>2 DEF Serves, Coin!vars
  <1>4. Serves
      BY <1>2, <1>3, AskServes, RollBackServes, ByHandServes, QuestServes DEF TreasuryNext
  <1>5. \A x \in Requests : Owed(req[x])' BY <1>4 DEF Serves, Owed, EvenHanded
  <1> QED BY <1>1, <1>4, <1>5 DEF Serves, WholeInv

\* Treasury implements CoinLedger: a request takes effect in one step or not at all,
\* while no quest's rewards come to 2^32.
THEOREM ServedWholeHolds == ASSUME NoWrap PROVE TreasurySpec => ServedWhole
  BY WholeStarts, WholeStep, PTL DEF TreasurySpec, ServedWhole, Coin!Spec
=============================================================================
