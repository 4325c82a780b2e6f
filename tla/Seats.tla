------------------------------- MODULE Seats -------------------------------
(***************************************************************************)
(* Where a hero sits, and whose it is: the seat, the barred door, the      *)
(* pool of pre-made heroes, and what becomes of them all when a person     *)
(* leaves a table, a table is struck or an account is purged.              *)
(*                                                                         *)
(* Source: internal/http/heroes.go, seating.go, pregens.go, characters.go, *)
(* internal/accounts and their queries.                                    *)
(*                                                                         *)
(* A request is one step here. Memberships are Tables' business and appear *)
(* with what seats depend on: the role, the table's owner (who stays the   *)
(* same: a handover touches no hero) and being struck. A hero that is      *)
(* deleted leaves an id that may be used again: nothing refers to it.      *)
(***************************************************************************)
EXTENDS Naturals, FiniteSets

CONSTANTS
    Users, Tables, Heroes,
    Founder,      \* who founded each table, and owns it
    None,         \* no person, no table
    MaxCap        \* bound: heroes one player may seat (10 in the code)

ASSUME SeatsOK ==
    /\ Founder \in [Tables -> Users]
    /\ None \notin Users \cup Tables
    /\ MaxCap \in Nat \ {0}
    /\ IsFiniteSet(Heroes)

VARIABLES
    role,         \* memberships: role[t][u], "none" without a row
    open,         \* tables that are not struck
    gone,         \* purged accounts
    hero,         \* characters rows
    door,         \* seat_requests: the table whose door a hero waits at
    barred,       \* tables with require_seating_approval
    cap,          \* max_seated_per_player
    ender         \* history: by whose act, or purge, the last step struck sheets; None, by nobody's

vars == <<role, open, gone, hero, door, barred, cap, ender>>

HeroRows == [
    owner : Users \cup {None},        \* None: no such row
    seat : Tables \cup {None},        \* campaign_id
    born : BOOLEAN,                   \* table_born
    offeredBy : Users \cup {None}]    \* pregen_by

NoHero == [owner |-> None, seat |-> None, born |-> FALSE, offeredBy |-> None]

TypeOK ==
    /\ role \in [Tables -> [Users -> {"none", "player", "dm"}]]
    /\ open \subseteq Tables
    /\ gone \subseteq Users
    /\ hero \in [Heroes -> HeroRows]
    /\ door \in [Heroes -> Tables \cup {None}]
    /\ barred \subseteq Tables
    /\ cap \in [Tables -> 1..MaxCap]
    /\ ender \in Users \cup {None}

Init ==
    /\ role = [t \in Tables |-> [u \in Users |-> IF u = Founder[t] THEN "dm" ELSE "none"]]
    /\ open = Tables
    /\ gone = {}
    /\ hero = [h \in Heroes |-> NoHero]
    /\ door = [h \in Heroes |-> None]
    /\ barred = {}
    /\ cap = [t \in Tables |-> 1]
    /\ ender = None

-----------------------------------------------------------------------------
(* Helpers.                                                                *)

There(h) == hero[h].owner # None
Member(u, t) == role[t][u] # "none"
Runs(u, t) == u \notin gone /\ role[t][u] = "dm"

\* Seated and flagged; and in the pool while its author still holds it.
Pregen(c) == c.seat # None /\ c.offeredBy # None
InPool(c) == Pregen(c) /\ c.owner = c.offeredBy

\* h takes one of its owner's seats at its table.
TakesSeat(c) == c.seat # None /\ ~c.born /\ ~InPool(c)
SeatsTaken(hs, u, t) == {h \in Heroes : TakesSeat(hs[h]) /\ hs[h].owner = u /\ hs[h].seat = t}

\* Mutant of SeatFree: a seat too many.
SeatFreeOneMore(u, t, h) == Cardinality(SeatsTaken(hero, u, t) \ {h}) <= cap[t]

\* CountSeatedByOwner, of everyone but h, against the table's cap.
SeatFree(u, t, h) == Cardinality(SeatsTaken(hero, u, t) \ {h}) < cap[t]

\* Rows deleted, and their seat_requests with them.
Deleted(hs, gs) == [h \in Heroes |-> IF h \in gs THEN NoHero ELSE hs[h]]
DoorsOf(hs, ds) == [h \in Heroes |-> IF hs[h].owner = None THEN None ELSE ds[h]]

Unseated(hs, gs) == [h \in Heroes |-> IF h \in gs THEN [hs[h] EXCEPT !.seat = None] ELSE hs[h]]

\* What u has seated at t.
HeldAt(hs, u, t) == {h \in Heroes : hs[h].owner = u /\ hs[h].seat = t}
BornOf(hs) == {h \in Heroes : hs[h].born}

\* Mutant of TableLeft: the heroes are unseated before the table-born are struck.
TableLeftUnseatsFirst(hs, u, t) ==
    LET away == Unseated(hs, HeldAt(hs, u, t))
    IN  Deleted(away, HeldAt(away, u, t) \cap BornOf(away))

\* accounts.LeaveTable on the sheets: the table-born die, the rest are unseated.
TableLeft(hs, u, t) ==
    LET left == Deleted(hs, HeldAt(hs, u, t) \cap BornOf(hs))
    IN  Unseated(left, HeldAt(left, u, t))

\* ... and DeleteSeatRequestsOfUser.
DoorsLeft(hs, ds, u, t) ==
    [h \in Heroes |-> IF hs[h].owner = u /\ ds[h] = t THEN None ELSE ds[h]]

-----------------------------------------------------------------------------
(* Making and unmaking sheets (heroes.go, characters.go).                  *)

Made(h, row) ==
    /\ ~There(h)
    /\ hero' = [hero EXCEPT ![h] = row]
    /\ UNCHANGED <<role, open, gone, door, barred, cap>>
    /\ ender' = None

CreateMyCharacter(u, h) == u \notin gone /\ Made(h, [NoHero EXCEPT !.owner = u])

\* CreateCharacter: a DM's quick-add is born at the table.
QuickAdd(u, t, h) ==
    Runs(u, t) /\ Made(h, [NoHero EXCEPT !.owner = u, !.seat = t, !.born = TRUE])

Struck(u, gs) ==
    /\ hero' = Deleted(hero, gs)
    /\ door' = DoorsOf(hero', door)
    /\ UNCHANGED <<role, open, gone, barred, cap>>
    /\ ender' = u

\* Mutant of DeleteCharacter: the DM of a table strikes whatever sits at it.
DeleteCharacterSeated(u, h) ==
    /\ There(h) /\ u \notin gone
    /\ \/ hero[h].owner = u
       \/ hero[h].seat # None /\ Runs(u, hero[h].seat)
    /\ Struck(u, {h})

DeleteCharacter(u, h) ==
    /\ There(h) /\ u \notin gone
    /\ \/ hero[h].owner = u
       \/ hero[h].born /\ hero[h].seat # None /\ Runs(u, hero[h].seat)
    /\ Struck(u, {h})

-----------------------------------------------------------------------------
(* The seat and the door (heroes.go, seating.go).                          *)

Seated(h, t) ==
    /\ hero' = [hero EXCEPT ![h].seat = t]
    /\ door' = [door EXCEPT ![h] = None]
    /\ UNCHANGED <<role, open, gone, barred, cap>>
    /\ ender' = None

Knocked(h, t) ==
    /\ door' = [door EXCEPT ![h] = t]
    /\ UNCHANGED <<role, open, gone, hero, barred, cap>>
    /\ ender' = None

MaySeat(u, h, t) ==
    /\ There(h) /\ u \notin gone /\ hero[h].owner = u /\ ~hero[h].born
    /\ Member(u, t) /\ SeatFree(u, t, h)

\* Mutant of SeatCharacter: the door is not asked.
SeatCharacterOpen(u, h, t) == MaySeat(u, h, t) /\ Seated(h, t)

\* SeatCharacter with a table: the owner's act; a barred door makes a player wait.
SeatCharacter(u, h, t) ==
    /\ MaySeat(u, h, t)
    /\ IF t \in barred /\ role[t][u] # "dm" THEN Knocked(h, t) ELSE Seated(h, t)

\* SeatCharacter with none: the owner's, or the DM's of the seat; it withdraws a request too.
Unseat(u, h) ==
    /\ There(h) /\ u \notin gone /\ ~hero[h].born
    /\ hero[h].owner = u \/ (hero[h].seat # None /\ Runs(u, hero[h].seat))
    /\ Seated(h, None)

\* Mutant of ApproveSeatRequest: the membership is not looked up again.
ApproveSeatRequestBlind(u, h) ==
    /\ door[h] # None /\ Runs(u, door[h])
    /\ SeatFree(hero[h].owner, door[h], h)
    /\ Seated(h, door[h])

\* ApproveSeatRequest: the player may have gone, or the seats have filled, meanwhile.
ApproveSeatRequest(u, h) ==
    /\ door[h] # None /\ Runs(u, door[h])
    /\ \/ /\ ~Member(hero[h].owner, door[h])
          /\ Knocked(h, None)
       \/ /\ Member(hero[h].owner, door[h])
          /\ SeatFree(hero[h].owner, door[h], h)
          /\ Seated(h, door[h])

DenySeatRequest(u, h) == door[h] # None /\ Runs(u, door[h]) /\ Knocked(h, None)

SetSeatingApproval(u, t) ==
    /\ Runs(u, t)
    /\ barred' = IF t \in barred THEN barred \ {t} ELSE barred \cup {t}
    /\ UNCHANGED <<role, open, gone, hero, door, cap>>
    /\ ender' = None

\* Mutant of SetMaxSeatedPerPlayer: no lower bound.
SetMaxSeatedPerPlayerZero(u, t) ==
    /\ Runs(u, t)
    /\ \E n \in 0..MaxCap \ {cap[t]} : cap' = [cap EXCEPT ![t] = n]
    /\ UNCHANGED <<role, open, gone, hero, door, barred>>
    /\ ender' = None

\* "Lowering it never unseats anyone."
SetMaxSeatedPerPlayer(u, t) ==
    /\ Runs(u, t)
    /\ \E n \in 1..MaxCap \ {cap[t]} : cap' = [cap EXCEPT ![t] = n]
    /\ UNCHANGED <<role, open, gone, hero, door, barred>>
    /\ ender' = None

-----------------------------------------------------------------------------
(* Pre-made heroes (pregens.go).                                           *)

Changed(h, row) ==
    /\ hero' = [hero EXCEPT ![h] = row]
    /\ UNCHANGED <<role, open, gone, door, barred, cap>>
    /\ ender' = None

OfferPregen(u, t, h) ==
    /\ Runs(u, t) /\ There(h)
    /\ hero[h].owner = u /\ ~hero[h].born
    /\ hero[h].offeredBy = None /\ hero[h].seat = None
    /\ Changed(h, [hero[h] EXCEPT !.seat = t, !.offeredBy = u])

WithdrawPregen(u, h) ==
    /\ There(h) /\ InPool(hero[h]) /\ Runs(u, hero[h].seat)
    /\ Changed(h, [hero[h] EXCEPT !.seat = None, !.offeredBy = None])

ClaimPregen(u, h) ==
    /\ There(h) /\ InPool(hero[h]) /\ u \notin gone
    /\ Member(u, hero[h].seat) /\ u # hero[h].offeredBy
    /\ SeatFree(u, hero[h].seat, h)
    /\ Changed(h, [hero[h] EXCEPT !.owner = u])

\* By the player who holds it, or a DM of its table; it goes back to its author.
ReleasePregen(u, h) ==
    /\ There(h) /\ Pregen(hero[h]) /\ ~InPool(hero[h]) /\ u \notin gone
    /\ hero[h].owner = u \/ Runs(u, hero[h].seat)
    /\ Changed(h, [hero[h] EXCEPT !.owner = hero[h].offeredBy])

-----------------------------------------------------------------------------
(* Comings and goings.                                                     *)

Join(u, t) ==
    /\ u \notin gone /\ t \in open /\ ~Member(u, t)
    /\ role' = [role EXCEPT ![t][u] = "player"]
    /\ UNCHANGED <<open, gone, hero, door, barred, cap>>
    /\ ender' = None

Appoint(t, v, as) ==
    /\ t \in open /\ role[t][v] \notin {"none", as} /\ v # Founder[t]
    /\ role' = [role EXCEPT ![t][v] = as]
    /\ UNCHANGED <<open, gone, hero, door, barred, cap>>
    /\ ender' = None

\* A kick, a ban or a walk-out: accounts.LeaveTable.
LeaveTable(u, t) ==
    /\ t \in open /\ Member(u, t) /\ u # Founder[t]
    /\ role' = [role EXCEPT ![t][u] = "none"]
    /\ hero' = TableLeft(hero, u, t)
    /\ door' = DoorsLeft(hero', DoorsOf(hero', door), u, t)
    /\ UNCHANGED <<open, gone, barred, cap>>
    /\ ender' = None

\* The rows gs go with the table, and what hangs from it: memberships and requests.
TableStruck(t, gs) ==
    LET left == Deleted(hero, gs)
        away == Unseated(left, {h \in Heroes : left[h].seat = t})
    IN  /\ t \in open
        /\ open' = open \ {t}
        /\ role' = [role EXCEPT ![t] = [u \in Users |-> "none"]]
        /\ hero' = away
        /\ door' = [h \in Heroes |-> IF door[h] = t THEN None ELSE DoorsOf(hero', door)[h]]
        /\ UNCHANGED <<gone, barred, cap>>
        /\ ender' = None

\* deleteCampaignTx: the table-born die, and heroes are unseated.
DisbandTable(t) == TableStruck(t, {h \in Heroes : hero[h].seat = t /\ hero[h].born})

\* Purge: every table is left, and then the heroes go. The row of the person stays, and
\* with it the name in pregen_by.
Purge(u) ==
    /\ u \notin gone /\ \A t \in open : Founder[t] # u
    /\ hero' = Deleted(hero, {h \in Heroes : hero[h].owner = u})
    /\ door' = DoorsOf(hero', door)
    /\ role' = [t \in Tables |-> [role[t] EXCEPT ![u] = "none"]]
    /\ gone' = gone \cup {u}
    /\ UNCHANGED <<open, barred, cap>>
    /\ ender' = u

-----------------------------------------------------------------------------
AtTable(u, t) ==
    \/ SetSeatingApproval(u, t) \/ SetMaxSeatedPerPlayer(u, t)
    \/ Join(u, t) \/ LeaveTable(u, t)
    \/ \E as \in {"player", "dm"} : Appoint(t, u, as)
    \/ \E h \in Heroes : \/ QuickAdd(u, t, h)
                         \/ SeatCharacter(u, h, t) \/ OfferPregen(u, t, h)

OfHero(u, h) ==
    \/ CreateMyCharacter(u, h) \/ DeleteCharacter(u, h)
    \/ Unseat(u, h) \/ ApproveSeatRequest(u, h) \/ DenySeatRequest(u, h)
    \/ WithdrawPregen(u, h) \/ ClaimPregen(u, h) \/ ReleasePregen(u, h)

Next ==
    \/ \E u \in Users :
          \/ \E t \in Tables : AtTable(u, t)
          \/ \E h \in Heroes : OfHero(u, h)
          \/ Purge(u)
    \/ \E t \in Tables : DisbandTable(t)

Spec == Init /\ [][Next]_vars

-----------------------------------------------------------------------------
(* Safety.                                                                 *)

\* Whoever holds a sheet seated at a table, outside the pool of pre-made heroes, is a
\* member there: through knocking, approval, claims, kicks and purges
\* (LeaveTable unseats, ApproveSeatRequest looks again).
SeatedByMember ==
    \A h \in Heroes :
        There(h) /\ hero[h].seat # None /\ ~InPool(hero[h]) => Member(hero[h].owner, hero[h].seat)

\* "This table seats N heroes per player" (#171): whatever the door, nobody comes to hold
\* one seat more than the cap of that moment; lowering the cap unseats nobody.
CapHolds ==
    [][\A h \in Heroes :
          LET u == hero'[h].owner
              t == hero'[h].seat
          IN  /\ TakesSeat(hero'[h])
              /\ ~(TakesSeat(hero[h]) /\ hero[h].owner = u /\ hero[h].seat = t)
              => Cardinality(SeatsTaken(hero', u, t)) <= cap[t]]_vars

\* A table-born character "was born at the table and cannot leave it" (heroes.go): as
\* long as its row is there it sits where it was made.
BornStays ==
    [][\A h \in Heroes :
          There(h) /\ hero[h].born /\ hero'[h].owner # None
              => hero'[h].seat = hero[h].seat]_vars

\* At a barred door nothing new is seated but what waited there, or is a DM's.
BarredDoor ==
    [][\A h \in Heroes, t \in barred :
          hero[h].seat # t /\ hero'[h].seat = t
              => door[h] = t \/ role[t][hero'[h].owner] = "dm"]_vars

\* "A kicked player's heroes go back to resting in My Heroes, never deleted"
\* (members.sql), and so do a struck table's. Whatever else goes on, a hero ends by an
\* act of its owner of that moment, or by their purge: not by the DM at whose table it
\* sits, nor by who offered it or held it before, nor by a table's end.
HeroesOutliveTables ==
    [][\A h \in Heroes :
          There(h) /\ ~hero[h].born /\ hero'[h].owner = None
              => ender' = hero[h].owner]_vars

-----------------------------------------------------------------------------
(* What the queries say and the code does not do.                          *)

\* A hero that was unseated "falls back onto the shelf as an ordinary hero"
\* (characters.sql): a pool gains a hero only when it is offered, or released.
PoolByOffer ==
    [][\A h \in Heroes :
          InPool(hero'[h]) /\ ~InPool(hero[h])
              => hero[h].offeredBy = None \/ Pregen(hero[h])]_vars
=============================================================================
