----------------------------- MODULE CoinLedger -----------------------------
(***************************************************************************)
(* What a table is promised of its coin, with no transaction, no lock and  *)
(* no row read twice: a request that was let in is served at one instant,  *)
(* whole, on the purses, shelves and quests as they are then; or it is     *)
(* turned away and changes nothing.                                        *)
(*                                                                         *)
(* Source: the promises of internal/http/vendors.go, gifts.go,             *)
(* quests_payout.go and inventory.go.                                      *)
(***************************************************************************)
EXTENDS Integers

CONSTANTS Heroes, Rows, Lines, Quests, Requests, Coins, Rewards, MaxShelf, Ceiling, None

VARIABLES
    purse, shelf, price, quest,    \* as committed: see Treasury
    ask        \* what each request has been let in to do: for whom, about what, with what coin

world == <<purse, shelf, price, quest>>
vars == <<purse, shelf, price, quest, ask>>

Nothing == [op |-> "none", to |-> {}, what |-> None, coin |-> 0, row |-> 0]

Init ==
    /\ purse = [h \in Heroes |-> [i \in Rows |-> 0]]
    /\ shelf = [l \in Lines |-> None]
    /\ price \in [Lines -> Coins]
    /\ quest = [q \in Quests |-> [status |-> "open", gold |-> 0, paid |-> FALSE]]
    /\ ask = [r \in Requests |-> Nothing]

\* What a request may be let in for.
Heard(a) ==
    \/ a.op = "buy" /\ shelf[a.what] # None /\ a.coin = price[a.what]
    \/ a.op = "gift" /\ a.coin \in Coins /\ a.to # {}
    \/ a.op = "pay" /\ quest[a.what].status = "completed" /\ ~quest[a.what].paid
                    /\ a.coin <= quest[a.what].gold
    \/ a.op = "write" /\ a.coin \in Coins
    \/ a.op = "edit" /\ \E h \in a.to : a.coin \in Coins \cup {purse[h][a.row]}
    \/ a.op = "restock" /\ shelf[a.what] # None

\* One request is let in, or answered.
Turn(r) == ask'[r] # ask[r] /\ ask' = [ask EXCEPT ![r] = ask'[r]]

Ask(r) == ask[r] = Nothing /\ Heard(ask'[r]) /\ UNCHANGED world

TurnedAway(r) == ask'[r] = Nothing /\ UNCHANGED world

\* Coin comes to, or leaves, one purse of each of these heroes, and nobody else's: none is
\* overdrawn, and none that was there is filled past its ceiling.
Moves(to, n) ==
    \E row \in [to -> Rows] :
        /\ purse' = [h \in Heroes |-> [i \in Rows |->
               IF h \in to /\ i = row[h] THEN purse[h][i] + n ELSE purse[h][i]]]
        /\ \A h \in to : LET was == purse[h][row[h]] IN
               /\ was + n >= 0
               /\ n > 0 /\ was > 0 => was + n <= Ceiling

\* The coin and the unit, or neither.
Sale(r) ==
    /\ ask[r].op = "buy"
    /\ shelf[ask[r].what] \in 1..MaxShelf
    /\ shelf' = [shelf EXCEPT ![ask[r].what] = @ - 1]
    /\ Moves(ask[r].to, -ask[r].coin)
    /\ UNCHANGED <<price, quest>>

\* Every hero named, or none.
Gift(r) ==
    /\ ask[r].op = "gift"
    /\ Moves(ask[r].to, ask[r].coin)
    /\ UNCHANGED <<shelf, price, quest>>

\* The same, once for a quest.
Payout(r) ==
    LET q == ask[r].what
    IN  /\ ask[r].op = "pay"
        /\ quest[q].status # "gone" /\ ~quest[q].paid
        /\ quest' = [quest EXCEPT ![q].paid = TRUE]
        /\ Moves(ask[r].to, ask[r].coin)
        /\ UNCHANGED <<shelf, price>>

\* A purse of its own, which leaves the others alone.
Written(r) ==
    /\ ask[r].op = "write"
    /\ \E h \in ask[r].to, i \in Rows :
           purse[h][i] = 0 /\ purse' = [purse EXCEPT ![h][i] = ask[r].coin]
    /\ UNCHANGED <<shelf, price, quest>>

Edited(r) ==
    /\ ask[r].op = "edit"
    /\ \E h \in ask[r].to :
           /\ purse[h][ask[r].row] > 0
           /\ purse' = [purse EXCEPT ![h][ask[r].row] = ask[r].coin]
    /\ UNCHANGED <<shelf, price, quest>>

Restocked(r) ==
    LET l == ask[r].what
    IN  /\ ask[r].op = "restock"
        /\ shelf[l] # None
        /\ shelf' = [shelf EXCEPT ![l] = ask[r].coin]
        /\ \E p \in Coins : price' = [price EXCEPT ![l] = p]
        /\ UNCHANGED <<purse, quest>>

\* What is thrown out, shelved, edited or struck off by hand, in one statement.
ThrownOut(h, i) ==
    /\ purse[h][i] > 0
    /\ purse' = [purse EXCEPT ![h][i] = 0]
    /\ UNCHANGED <<shelf, price, quest, ask>>

Shelved(l) ==
    /\ \/ shelf[l] = None /\ \E n \in 1..MaxShelf : shelf' = [shelf EXCEPT ![l] = n]
       \/ shelf[l] # None /\ shelf' = [shelf EXCEPT ![l] = None]
    /\ UNCHANGED <<purse, price, quest, ask>>

Rewritten(q) ==
    /\ quest[q].status # "gone"
    /\ \/ quest' = [quest EXCEPT ![q].status = "gone"]
       \/ \E s \in {"open", "completed"}, g \in Rewards :
              quest' = [quest EXCEPT ![q].status = s, ![q].gold = g]
    /\ UNCHANGED <<purse, shelf, price, ask>>

Served(r) ==
    /\ ask'[r] = Nothing
    /\ Sale(r) \/ Gift(r) \/ Payout(r) \/ Written(r) \/ Edited(r) \/ Restocked(r)

Next ==
    \/ \E r \in Requests : Turn(r) /\ (Ask(r) \/ Served(r) \/ TurnedAway(r))
    \/ \E h \in Heroes, i \in Rows : ThrownOut(h, i)
    \/ \E l \in Lines : Shelved(l)
    \/ \E q \in Quests : Rewritten(q)

Spec == Init /\ [][Next]_vars
=============================================================================
