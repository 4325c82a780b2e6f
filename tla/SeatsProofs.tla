---------------------------- MODULE SeatsProofs ----------------------------
(***************************************************************************)
(* What Seats keeps for any number of people, tables and heroes: seats are *)
(* held by members, within the cap of the table, the table-born stay where *)
(* they were born, a barred door bars, and tables do not destroy heroes.   *)
(*                                                                         *)
(* The inductive invariant is the type, SeatedByMember itself, what waits  *)
(* at the doors and what is offered: only heroes, never the table-born.    *)
(***************************************************************************)
EXTENDS Seats, FiniteSetTheorems, TLAPS

\* Who waits at a door is a hero (MaySeat), and its request goes with its row.
WaitersAreHeroes == \A h \in Heroes : door[h] # None => There(h) /\ ~hero[h].born

\* Nothing born at a table is in a pool, or was.
BornUnoffered == \A h \in Heroes : There(h) /\ hero[h].born => hero[h].offeredBy = None

IInv == TypeOK /\ SeatedByMember /\ WaitersAreHeroes /\ BornUnoffered

-----------------------------------------------------------------------------
(* What becomes of each sheet when its table or its person goes.           *)

\* Unseated, or struck if it was born at the table.
Benched(c) == IF c.born THEN NoHero ELSE [c EXCEPT !.seat = None]

\* NoHero is a row like another: nobody's, and nowhere.
LEMMA NoHeroRow == /\ NoHero \in HeroRows
                   /\ NoHero.owner = None /\ NoHero.seat = None /\ NoHero.born = FALSE
                   /\ NoHero.offeredBy = None
  BY DEF NoHero, HeroRows

\* A benched sheet is a row too: nobody's, or its owner's, and without a seat.
LEMMA BenchedRow ==
    ASSUME NEW c \in HeroRows
    PROVE  Benched(c) \in HeroRows /\ Benched(c).seat = None /\ Benched(c).owner \in {None, c.owner}
  BY NoHeroRow DEF Benched, HeroRows

\* If benching leaves it a row, it is a hero's, and nothing but its seat has changed.
LEMMA BenchedKeeps ==
    ASSUME NEW c \in HeroRows, Benched(c).owner # None
    PROVE  ~c.born /\ Benched(c).born = c.born /\ Benched(c).owner = c.owner
  BY NoHeroRow DEF Benched, HeroRows

\* accounts.LeaveTable, in its two statements, benches what the person has seated there.
LEMMA LeaveFate ==
    ASSUME TypeOK, NEW u \in Users, NEW t \in Tables, LeaveTable(u, t)
    PROVE  /\ hero' = [h \in Heroes |-> IF hero[h].owner = u /\ hero[h].seat = t
                                        THEN Benched(hero[h]) ELSE hero[h]]
           /\ \A h \in Heroes : door'[h] # None => door'[h] = door[h] /\ hero'[h].owner # None
           /\ door' \in [Heroes -> Tables \cup {None}]
  <1>0. None \notin Users BY SeatsOK
  <1> DEFINE left == Deleted(hero, HeldAt(hero, u, t) \cap BornOf(hero))
  <1>1. \A h \in Heroes : left[h] = IF hero[h].owner = u /\ hero[h].seat = t /\ hero[h].born
                                    THEN NoHero ELSE hero[h]
      BY DEF Deleted, HeldAt, BornOf
  <1>2. \A h \in Heroes : h \in HeldAt(left, u, t)
                              <=> hero[h].owner = u /\ hero[h].seat = t /\ ~hero[h].born
      BY <1>0, <1>1, NoHeroRow DEF HeldAt
  <1>3. hero' = Unseated(left, HeldAt(left, u, t))
      BY DEF LeaveTable, TableLeft
  <1> HIDE DEF left
  <1>4. hero' = [h \in Heroes |-> IF hero[h].owner = u /\ hero[h].seat = t
                                  THEN Benched(hero[h]) ELSE hero[h]]
      BY <1>1, <1>2, <1>3 DEF Unseated, Benched
  <1>5. /\ \A h \in Heroes : door'[h] # None => door'[h] = door[h] /\ hero'[h].owner # None
        /\ door' \in [Heroes -> Tables \cup {None}]
      BY DEF LeaveTable, DoorsLeft, DoorsOf, TypeOK
  <1>6. QED BY <1>4, <1>5

\* A struck table benches whoever sat there.
LEMMA DisbandFate ==
    ASSUME TypeOK, NEW t \in Tables, DisbandTable(t)
    PROVE  /\ hero' = [h \in Heroes |-> IF hero[h].seat = t THEN Benched(hero[h]) ELSE hero[h]]
           /\ \A h \in Heroes : door'[h] # None => door'[h] = door[h] /\ hero'[h].owner # None
           /\ door' \in [Heroes -> Tables \cup {None}]
  <1>0. None \notin Tables BY SeatsOK
  <1> DEFINE left == Deleted(hero, {h \in Heroes : hero[h].seat = t /\ hero[h].born})
  <1>1. \A h \in Heroes : left[h] = IF hero[h].seat = t /\ hero[h].born THEN NoHero ELSE hero[h]
      BY DEF Deleted
  <1>2. \A h \in Heroes : left[h].seat = t <=> hero[h].seat = t /\ ~hero[h].born
      BY <1>0, <1>1, NoHeroRow
  <1>3. hero' = Unseated(left, {h \in Heroes : left[h].seat = t})
      BY DEF DisbandTable, TableStruck
  <1> HIDE DEF left
  <1>4. hero' = [h \in Heroes |-> IF hero[h].seat = t THEN Benched(hero[h]) ELSE hero[h]]
      BY <1>1, <1>2, <1>3 DEF Unseated, Benched
  <1>5. /\ \A h \in Heroes : door'[h] # None => door'[h] = door[h] /\ hero'[h].owner # None
        /\ door' \in [Heroes -> Tables \cup {None}]
      BY DEF DisbandTable, TableStruck, DoorsOf, TypeOK
  <1>6. QED BY <1>4, <1>5

\* Rows are struck by their owner, by a DM if table-born, and by the owner's purge.
LEMMA StrikeFate ==
    ASSUME TypeOK, NEW gs, hero' = Deleted(hero, gs), door' = DoorsOf(hero', door)
    PROVE  /\ hero' = [h \in Heroes |-> IF h \in gs THEN NoHero ELSE hero[h]]
           /\ \A h \in Heroes : door'[h] # None => door'[h] = door[h] /\ hero'[h].owner # None
           /\ door' \in [Heroes -> Tables \cup {None}]
  BY DEF Deleted, DoorsOf, TypeOK

-----------------------------------------------------------------------------
(* The steps, sorted by what they do to the sheets.                        *)

\* One sheet is given a seat, or none, and its request is over.
SeatStep(h, t) ==
    /\ hero' = [hero EXCEPT ![h].seat = t]
    /\ door' = [door EXCEPT ![h] = None]
    /\ UNCHANGED <<role, open, gone, barred, cap>>
    /\ ender' = None

\* No sheet changes, nor who sits at the table; requests end, or begin for a hero.
DoorStep ==
    /\ UNCHANGED <<role, open, gone, hero>>
    /\ door' \in [Heroes -> Tables \cup {None}]
    /\ \A h \in Heroes : door'[h] \in {None, door[h]} \/ (There(h) /\ ~hero[h].born)
    /\ barred' \subseteq Tables /\ cap' \in [Tables -> 1..MaxCap] /\ ender' = None

\* A knock, a refusal and the table's two rules are door steps.
LEMMA DoorSteps ==
    ASSUME TypeOK, NEW u \in Users
    PROVE  /\ \A t \in Tables : SetSeatingApproval(u, t) \/ SetMaxSeatedPerPlayer(u, t) => DoorStep
           /\ \A h \in Heroes : DenySeatRequest(u, h) => DoorStep
           /\ \A h \in Heroes : ApproveSeatRequest(u, h) => DoorStep \/
                 (/\ SeatStep(h, door[h]) /\ door[h] \in Tables
                  /\ Member(hero[h].owner, door[h]) /\ SeatFree(hero[h].owner, door[h], h))
           /\ \A h \in Heroes, t \in Tables : SeatCharacter(u, h, t) => DoorStep \/
                 (/\ SeatStep(h, t) /\ There(h) /\ ~hero[h].born
                  /\ Member(hero[h].owner, t) /\ SeatFree(hero[h].owner, t, h)
                  /\ t \in barred => role[t][hero[h].owner] = "dm")
  <1>1. ASSUME NEW t \in Tables, SetSeatingApproval(u, t) \/ SetMaxSeatedPerPlayer(u, t)
        PROVE  DoorStep
    <2>1. CASE SetSeatingApproval(u, t)
        BY <2>1 DEF TypeOK, DoorStep, SetSeatingApproval
    <2>2. CASE SetMaxSeatedPerPlayer(u, t)
        BY <2>2 DEF TypeOK, DoorStep, SetMaxSeatedPerPlayer
    <2>3. QED BY <1>1, <2>1, <2>2
  <1>2. ASSUME NEW h \in Heroes, DenySeatRequest(u, h) PROVE DoorStep
      BY <1>2 DEF TypeOK, DoorStep, DenySeatRequest, Knocked
  <1>3. ASSUME NEW h \in Heroes, ApproveSeatRequest(u, h)
        PROVE  DoorStep \/
                 (/\ SeatStep(h, door[h]) /\ door[h] \in Tables
                  /\ Member(hero[h].owner, door[h]) /\ SeatFree(hero[h].owner, door[h], h))
    <2>1. CASE Knocked(h, None)
        BY <2>1 DEF TypeOK, DoorStep, Knocked
    <2>2. CASE /\ door[h] # None /\ Member(hero[h].owner, door[h])
               /\ SeatFree(hero[h].owner, door[h], h) /\ Seated(h, door[h])
        BY <2>2 DEF TypeOK, SeatStep, Seated
    <2>3. QED BY <1>3, <2>1, <2>2 DEF ApproveSeatRequest
  <1>4. ASSUME NEW h \in Heroes, NEW t \in Tables, SeatCharacter(u, h, t)
        PROVE  DoorStep \/
                 (/\ SeatStep(h, t) /\ There(h) /\ ~hero[h].born
                  /\ Member(hero[h].owner, t) /\ SeatFree(hero[h].owner, t, h)
                  /\ t \in barred => role[t][hero[h].owner] = "dm")
    <2>1. CASE Knocked(h, t)
      <3>1. There(h) /\ ~hero[h].born
          BY <1>4 DEF SeatCharacter, MaySeat
      <3>2. QED BY <2>1, <3>1 DEF TypeOK, DoorStep, Knocked
    <2>2. CASE Seated(h, t) /\ (t \in barred => role[t][u] = "dm")
        BY <1>4, <2>2 DEF SeatCharacter, MaySeat, SeatStep, Seated
    <2>3. QED BY <1>4, <2>1, <2>2 DEF SeatCharacter
  <1>5. QED BY <1>1, <1>2, <1>3, <1>4

\* A sheet is made, offered, withdrawn, claimed or released: one row, and nothing else.
RowStep(h, row) ==
    /\ hero' = [hero EXCEPT ![h] = row]
    /\ UNCHANGED <<role, open, gone, door, barred, cap>>
    /\ ender' = None

\* A sheet is made, in My Heroes or at a table, or is set out in a pool.
RowMade(u, h) ==
    CreateMyCharacter(u, h) \/ \E t \in Tables : QuickAdd(u, t, h) \/ OfferPregen(u, t, h)

\* Somebody joins, or is given another role.
RoleStep(u, t) ==
    /\ \E as \in {"player", "dm"} : role' = [role EXCEPT ![t][u] = as]
    /\ UNCHANGED <<open, gone, hero, door, barred, cap>>
    /\ ender' = None

\* Every step is one of these.
LEMMA Steps ==
    ASSUME [Next]_vars
    PROVE  \/ UNCHANGED vars
           \/ \E t \in Tables : DisbandTable(t)
           \/ \E u \in Users : Purge(u)
           \/ \E u \in Users, t \in Tables : \/ SetSeatingApproval(u, t)
                                             \/ SetMaxSeatedPerPlayer(u, t)
                                             \/ RoleStep(u, t) \/ LeaveTable(u, t)
           \/ \E u \in Users, h \in Heroes :
                 \/ RowMade(u, h) \/ DeleteCharacter(u, h) \/ Unseat(u, h)
                 \/ ApproveSeatRequest(u, h) \/ DenySeatRequest(u, h)
                 \/ WithdrawPregen(u, h) \/ ClaimPregen(u, h) \/ ReleasePregen(u, h)
                 \/ \E t \in Tables : SeatCharacter(u, h, t)
  <1>1. \A u \in Users, t \in Tables :
            Join(u, t) \/ (\E as \in {"player", "dm"} : Appoint(t, u, as)) => RoleStep(u, t)
      BY DEF Join, Appoint, RoleStep
  <1>2. QED BY <1>1 DEF Next, AtTable, OfHero, RowMade

-----------------------------------------------------------------------------
(* Types.                                                                  *)

\* Every row starts as nobody's.
LEMMA TypeInit == Init => TypeOK
  BY SeatsOK, NoHeroRow DEF Init, TypeOK

\* Every action leaves rows that are well formed.
LEMMA TypeStep == IInv /\ [Next]_vars => TypeOK'
  <1> SUFFICES ASSUME IInv, [Next]_vars PROVE TypeOK'
      OBVIOUS
  <1> USE NoHeroRow, SeatsOK
  <1>0. TypeOK BY DEF IInv
  <1>1. CASE DoorStep
      BY <1>0, <1>1 DEF TypeOK, DoorStep
  <1>2. ASSUME NEW h \in Heroes, NEW t \in Tables \cup {None}, SeatStep(h, t) PROVE TypeOK'
      BY <1>0, <1>2 DEF TypeOK, SeatStep, HeroRows
  <1>3. ASSUME NEW h \in Heroes, NEW row \in HeroRows, RowStep(h, row) PROVE TypeOK'
      BY <1>0, <1>3 DEF TypeOK, RowStep
  <1>4. ASSUME NEW u \in Users, NEW t \in Tables, LeaveTable(u, t) PROVE TypeOK'
    <2>1. hero' = [h \in Heroes |-> IF hero[h].owner = u /\ hero[h].seat = t
                                    THEN Benched(hero[h]) ELSE hero[h]]
        BY <1>0, <1>4, LeaveFate
    <2>2. hero' \in [Heroes -> HeroRows]
        BY <1>0, <2>1, BenchedRow DEF TypeOK
    <2>3. door' \in [Heroes -> Tables \cup {None}]
        BY <1>0, <1>4, LeaveFate
    <2>4. QED BY <1>0, <1>4, <2>2, <2>3 DEF TypeOK, LeaveTable
  <1>5. ASSUME NEW t \in Tables, DisbandTable(t) PROVE TypeOK'
    <2>1. hero' = [h \in Heroes |-> IF hero[h].seat = t THEN Benched(hero[h]) ELSE hero[h]]
        BY <1>0, <1>5, DisbandFate
    <2>2. hero' \in [Heroes -> HeroRows]
        BY <1>0, <2>1, BenchedRow DEF TypeOK
    <2>3. door' \in [Heroes -> Tables \cup {None}]
        BY <1>0, <1>5, DisbandFate
    <2>4. QED BY <1>0, <1>5, <2>2, <2>3 DEF TypeOK, DisbandTable, TableStruck
  <1>6. ASSUME NEW u \in Users, Purge(u) PROVE TypeOK'
    <2>1. PICK gs : hero' = Deleted(hero, gs) /\ door' = DoorsOf(hero', door)
        BY <1>6 DEF Purge
    <2>2. hero' \in [Heroes -> HeroRows] /\ door' \in [Heroes -> Tables \cup {None}]
        BY <1>0, <2>1, StrikeFate DEF TypeOK
    <2>3. QED BY <1>0, <1>6, <2>2 DEF TypeOK, Purge
  <1>7. ASSUME NEW u \in Users, NEW h \in Heroes, DeleteCharacter(u, h) PROVE TypeOK'
    <2>1. PICK gs : hero' = Deleted(hero, gs) /\ door' = DoorsOf(hero', door)
        BY <1>7 DEF DeleteCharacter, Struck
    <2>2. hero' \in [Heroes -> HeroRows] /\ door' \in [Heroes -> Tables \cup {None}]
        BY <1>0, <2>1, StrikeFate DEF TypeOK
    <2>3. QED BY <1>0, <1>7, <2>2 DEF TypeOK, DeleteCharacter, Struck
  <1>8. ASSUME NEW u \in Users, NEW t \in Tables, RoleStep(u, t) PROVE TypeOK'
    <2>1. PICK as \in {"player", "dm"} : role' = [role EXCEPT ![t][u] = as]
        BY <1>8 DEF RoleStep
    <2>2. role' \in [Tables -> [Users -> {"none", "player", "dm"}]]
        BY <1>0, <2>1 DEF TypeOK
    <2>3. QED BY <1>0, <1>8, <2>2 DEF TypeOK, RoleStep
  <1>9. ASSUME NEW u \in Users, NEW h \in Heroes,
               RowMade(u, h) \/ WithdrawPregen(u, h) \/ ClaimPregen(u, h) \/ ReleasePregen(u, h)
        PROVE  \E row \in HeroRows : RowStep(h, row)
    <2>1. hero[h] \in HeroRows
        BY <1>0 DEF TypeOK
    <2>2. CASE RowMade(u, h)
        BY <2>1, <2>2 DEF RowMade, CreateMyCharacter, QuickAdd, OfferPregen, Made, Changed,
                          RowStep, HeroRows, NoHero
    <2>3. CASE WithdrawPregen(u, h)
        BY <2>1, <2>3 DEF WithdrawPregen, Changed, RowStep, HeroRows
    <2>4. CASE ClaimPregen(u, h) \/ ReleasePregen(u, h)
        BY <2>1, <2>4 DEF ClaimPregen, ReleasePregen, Changed, RowStep, HeroRows
    <2>5. QED BY <1>9, <2>2, <2>3, <2>4
  <1>10. ASSUME NEW u \in Users, NEW h \in Heroes, Unseat(u, h) PROVE SeatStep(h, None)
      BY <1>10 DEF Unseat, Seated, SeatStep
  <1>11. CASE UNCHANGED vars
      BY <1>0, <1>11 DEF TypeOK, vars
  <1>12. ASSUME NEW u \in Users, NEW h \in Heroes,
                RowMade(u, h) \/ WithdrawPregen(u, h) \/ ClaimPregen(u, h) \/ ReleasePregen(u, h)
         PROVE  TypeOK'
      BY <1>3, <1>9, <1>12
  <1>13. ASSUME NEW u \in Users, NEW h \in Heroes,
                \/ ApproveSeatRequest(u, h) \/ DenySeatRequest(u, h) \/ Unseat(u, h)
                \/ \E t \in Tables : SeatCharacter(u, h, t)
         PROVE  TypeOK'
      BY <1>0, <1>1, <1>2, <1>10, <1>13, DoorSteps
  <1>14. ASSUME NEW u \in Users, NEW t \in Tables,
                SetSeatingApproval(u, t) \/ SetMaxSeatedPerPlayer(u, t)
         PROVE  TypeOK'
      BY <1>0, <1>1, <1>14, DoorSteps
  <1>15. QED
      BY <1>4, <1>5, <1>6, <1>7, <1>8, <1>11, <1>12, <1>13, <1>14, Steps

-----------------------------------------------------------------------------
(* Seats are held by members.                                              *)

\* A request that was let in at a door goes with its row.
LEMMA WaitStep == IInv /\ [Next]_vars => WaitersAreHeroes'
  <1> SUFFICES ASSUME IInv, [Next]_vars PROVE WaitersAreHeroes'
      OBVIOUS
  <1> USE NoHeroRow, SeatsOK
  <1>0. TypeOK /\ WaitersAreHeroes BY DEF IInv
  <1>1. ASSUME DoorStep PROVE WaitersAreHeroes'
      BY <1>0, <1>1 DEF TypeOK, WaitersAreHeroes, DoorStep, There
  <1>2. ASSUME NEW h \in Heroes, NEW t, SeatStep(h, t) PROVE WaitersAreHeroes'
      BY <1>0, <1>2 DEF TypeOK, HeroRows, WaitersAreHeroes, SeatStep, There
  <1>3. ASSUME \A h \in Heroes : \/ door'[h] = None
                                 \/ /\ door'[h] = door[h] /\ hero'[h].owner # None
                                    /\ hero'[h].born = hero[h].born
        PROVE  WaitersAreHeroes'
      BY <1>0, <1>3 DEF WaitersAreHeroes, There
  <1>4. ASSUME NEW u \in Users, NEW t \in Tables, LeaveTable(u, t) PROVE WaitersAreHeroes'
    <2>1. \A h \in Heroes : hero'[h] = hero[h] \/ hero'[h] = Benched(hero[h])
        BY <1>0, <1>4, LeaveFate
    <2>2. \A h \in Heroes : door'[h] # None => door'[h] = door[h] /\ hero'[h].owner # None
        BY <1>0, <1>4, LeaveFate
    <2>3. \A h \in Heroes : hero'[h].owner # None => hero'[h].born = hero[h].born
      <3>1. \A c \in HeroRows : Benched(c).owner # None => Benched(c).born = c.born
          BY BenchedKeeps
      <3>2. QED BY <1>0, <2>1, <3>1 DEF TypeOK
    <2>4. QED BY <1>3, <2>2, <2>3
  <1>5. ASSUME NEW t \in Tables, DisbandTable(t) PROVE WaitersAreHeroes'
    <2>1. \A h \in Heroes : hero'[h] = hero[h] \/ hero'[h] = Benched(hero[h])
        BY <1>0, <1>5, DisbandFate
    <2>2. \A h \in Heroes : door'[h] # None => door'[h] = door[h] /\ hero'[h].owner # None
        BY <1>0, <1>5, DisbandFate
    <2>3. \A h \in Heroes : hero'[h].owner # None => hero'[h].born = hero[h].born
      <3>1. \A c \in HeroRows : Benched(c).owner # None => Benched(c).born = c.born
          BY BenchedKeeps
      <3>2. QED BY <1>0, <2>1, <3>1 DEF TypeOK
    <2>4. QED BY <1>3, <2>2, <2>3
  <1>6. ASSUME NEW gs, hero' = Deleted(hero, gs), door' = DoorsOf(hero', door)
        PROVE  WaitersAreHeroes'
      BY <1>0, <1>3, <1>6, StrikeFate
  <1>7. ASSUME NEW u \in Users, NEW h \in Heroes, RowMade(u, h) PROVE WaitersAreHeroes'
    <2>1. hero[h] \in HeroRows
        BY <1>0 DEF TypeOK
    <2>2. /\ \A x \in Heroes : x # h => hero'[x] = hero[x]
          /\ door' = door
          /\ ~There(h) \/ (hero'[h].owner # None /\ ~hero'[h].born)
      <3>1. CASE CreateMyCharacter(u, h)
          BY <1>0, <3>1 DEF TypeOK, CreateMyCharacter, Made
      <3>2. CASE \E t \in Tables : QuickAdd(u, t, h)
          BY <1>0, <3>2 DEF TypeOK, QuickAdd, Made
      <3>3. CASE \E t \in Tables : OfferPregen(u, t, h)
          BY <1>0, <2>1, <3>3 DEF TypeOK, HeroRows, There, OfferPregen, Changed
      <3>4. QED BY <1>7, <3>1, <3>2, <3>3 DEF RowMade
    <2>3. QED BY <1>0, <2>2 DEF WaitersAreHeroes, There
  <1>8. ASSUME NEW u \in Users, NEW h \in Heroes,
               WithdrawPregen(u, h) \/ ClaimPregen(u, h) \/ ReleasePregen(u, h)
        PROVE  WaitersAreHeroes'
    <2>0. hero[h] \in HeroRows
        BY <1>0 DEF TypeOK
    <2>1. /\ \A x \in Heroes : x # h => hero'[x] = hero[x]
          /\ hero'[h].owner # None /\ hero'[h].born = hero[h].born /\ door' = door
      <3>1. CASE WithdrawPregen(u, h)
          BY <1>0, <2>0, <3>1 DEF TypeOK, HeroRows, There, WithdrawPregen, Changed
      <3>2. CASE ClaimPregen(u, h)
          BY <1>0, <2>0, <3>2 DEF TypeOK, HeroRows, ClaimPregen, Changed
      <3>3. CASE ReleasePregen(u, h)
          BY <1>0, <2>0, <3>3 DEF TypeOK, HeroRows, Pregen, ReleasePregen, Changed
      <3>4. QED BY <1>8, <3>1, <3>2, <3>3
    <2>2. QED BY <1>0, <2>1 DEF WaitersAreHeroes, There
  <1>9. CASE UNCHANGED <<hero, door>>
      BY <1>0, <1>9 DEF WaitersAreHeroes, There
  <1>10. ASSUME NEW u \in Users, NEW h \in Heroes,
                \/ ApproveSeatRequest(u, h) \/ DenySeatRequest(u, h) \/ Unseat(u, h)
                \/ \E t \in Tables : SeatCharacter(u, h, t)
         PROVE  WaitersAreHeroes'
      BY <1>0, <1>1, <1>2, <1>10, DoorSteps DEF Unseat, Seated, SeatStep
  <1>11. ASSUME NEW u \in Users, NEW t \in Tables,
                SetSeatingApproval(u, t) \/ SetMaxSeatedPerPlayer(u, t) \/ RoleStep(u, t)
         PROVE  WaitersAreHeroes'
      BY <1>0, <1>1, <1>9, <1>11, DoorSteps DEF RoleStep
  <1>12. QED
      BY <1>4, <1>5, <1>6, <1>7, <1>8, <1>9, <1>10, <1>11, Steps
         DEF vars, Purge, DeleteCharacter, Struck

\* Who joins a seat is at its table, and who leaves a table keeps no seat there.
LEMMA MemberStep == IInv /\ [Next]_vars => SeatedByMember'
  <1> SUFFICES ASSUME IInv, [Next]_vars PROVE SeatedByMember'
      OBVIOUS
  <1> USE NoHeroRow, SeatsOK
  <1>0. TypeOK /\ SeatedByMember BY DEF IInv
  \* A sheet is well seated if it has no seat, or nobody's, or its owner is at the table.
  <1> DEFINE Well(h) == \/ hero'[h].owner = None \/ hero'[h].seat = None
                        \/ InPool(hero'[h])
                        \/ role'[hero'[h].seat][hero'[h].owner] # "none"
  <1>1. ASSUME \A h \in Heroes : Well(h) PROVE SeatedByMember'
      BY <1>1 DEF SeatedByMember, There, Member
  <1>2. ASSUME NEW h \in Heroes, hero'[h] = hero[h],
               \/ hero[h].owner = None \/ hero[h].seat = None
               \/ role'[hero[h].seat][hero[h].owner] = role[hero[h].seat][hero[h].owner]
        PROVE  Well(h)
      BY <1>0, <1>2 DEF SeatedByMember, There, Member
  <1>3. ASSUME UNCHANGED <<role, hero>> PROVE SeatedByMember'
      BY <1>1, <1>2, <1>3
  <1>4. ASSUME NEW h \in Heroes, UNCHANGED role, \A x \in Heroes : x # h => hero'[x] = hero[x],
               Well(h)
        PROVE  SeatedByMember'
      BY <1>1, <1>2, <1>4
  <1>5. ASSUME NEW h \in Heroes, NEW t, SeatStep(h, t), t = None \/ Member(hero[h].owner, t)
        PROVE  SeatedByMember'
    <2>1. /\ \A x \in Heroes : x # h => hero'[x] = hero[x]
          /\ hero'[h].seat = t /\ hero'[h].owner = hero[h].owner /\ UNCHANGED role
        BY <1>0, <1>5 DEF TypeOK, HeroRows, SeatStep
    <2>2. Well(h)
        BY <1>5, <2>1 DEF Member
    <2>3. QED BY <1>4, <2>1, <2>2
  <1>6. ASSUME NEW u \in Users, NEW t \in Tables, LeaveTable(u, t) PROVE SeatedByMember'
    <2>1. ASSUME NEW h \in Heroes PROVE Well(h)
      <3>1. CASE hero[h].owner = u /\ hero[h].seat = t
        <4>1. hero'[h] = Benched(hero[h])
            BY <1>0, <1>6, <3>1, LeaveFate
        <4>2. QED BY <1>0, <4>1, BenchedRow DEF TypeOK
      <3>2. CASE ~(hero[h].owner = u /\ hero[h].seat = t)
        <4>1. hero'[h] = hero[h]
            BY <1>0, <1>6, <3>2, LeaveFate
        <4>2. \/ hero[h].owner = None \/ hero[h].seat = None
              \/ role'[hero[h].seat][hero[h].owner] = role[hero[h].seat][hero[h].owner]
            BY <1>0, <1>6, <3>2 DEF TypeOK, HeroRows, LeaveTable
        <4>3. QED BY <1>2, <4>1, <4>2
      <3>3. QED BY <3>1, <3>2
    <2>2. QED BY <1>1, <2>1
  <1>7. ASSUME NEW t \in Tables, DisbandTable(t) PROVE SeatedByMember'
    <2>1. ASSUME NEW h \in Heroes PROVE Well(h)
      <3>1. CASE hero[h].seat = t
        <4>1. hero'[h] = Benched(hero[h])
            BY <1>0, <1>7, <3>1, DisbandFate
        <4>2. QED BY <1>0, <4>1, BenchedRow DEF TypeOK
      <3>2. CASE hero[h].seat # t
        <4>1. hero'[h] = hero[h]
            BY <1>0, <1>7, <3>2, DisbandFate
        <4>2. \/ hero[h].seat = None
              \/ role'[hero[h].seat][hero[h].owner] = role[hero[h].seat][hero[h].owner]
            BY <1>0, <1>7, <3>2 DEF TypeOK, HeroRows, DisbandTable, TableStruck
        <4>3. QED BY <1>2, <4>1, <4>2
      <3>3. QED BY <3>1, <3>2
    <2>2. QED BY <1>1, <2>1
  <1>8. ASSUME NEW u \in Users, Purge(u) PROVE SeatedByMember'
    <2>1. ASSUME NEW h \in Heroes PROVE Well(h)
      <3>1. hero'[h] = IF hero[h].owner = u THEN NoHero ELSE hero[h]
          BY <1>8 DEF Purge, Deleted
      <3>2. CASE hero[h].owner = u
          BY <3>1, <3>2
      <3>3. CASE hero[h].owner # u
        <4>1. \/ hero[h].owner = None \/ hero[h].seat = None
              \/ role'[hero[h].seat][hero[h].owner] = role[hero[h].seat][hero[h].owner]
            BY <1>0, <1>8, <3>3 DEF TypeOK, HeroRows, Purge
        <4>2. QED BY <1>2, <3>1, <3>3, <4>1
      <3>4. QED BY <3>2, <3>3
    <2>2. QED BY <1>1, <2>1
  <1>9. ASSUME NEW u \in Users, NEW h \in Heroes, DeleteCharacter(u, h) PROVE SeatedByMember'
    <2>1. /\ \A x \in Heroes : x # h => hero'[x] = hero[x]
          /\ hero'[h].owner = None /\ UNCHANGED role
        BY <1>9 DEF DeleteCharacter, Struck, Deleted
    <2>2. QED BY <1>0, <1>4, <2>1
  <1>10. ASSUME NEW u \in Users, NEW t \in Tables, RoleStep(u, t) PROVE SeatedByMember'
    <2>0. PICK as \in {"player", "dm"} : role' = [role EXCEPT ![t][u] = as]
        BY <1>10 DEF RoleStep
    <2>1. ASSUME NEW x \in Tables, NEW v \in Users, role[x][v] # "none" PROVE role'[x][v] # "none"
      <3>1. role'[x][v] = IF x = t /\ v = u THEN as ELSE role[x][v]
          BY <1>0, <2>0 DEF TypeOK
      <3>2. QED BY <2>0, <2>1, <3>1
    <2>2. \A h \in Heroes : Well(h)
        BY <1>0, <1>10, <2>1 DEF TypeOK, HeroRows, SeatedByMember, There, Member, RoleStep
    <2>3. QED BY <1>1, <2>2
  <1>11. ASSUME NEW u \in Users, NEW h \in Heroes, RowMade(u, h) PROVE SeatedByMember'
    <2>0. hero[h] \in HeroRows
        BY <1>0 DEF TypeOK
    <2>1. /\ \A x \in Heroes : x # h => hero'[x] = hero[x]
          /\ UNCHANGED role
          /\ hero'[h].seat = None \/ role[hero'[h].seat][hero'[h].owner] # "none"
      <3>1. CASE CreateMyCharacter(u, h)
          BY <1>0, <3>1 DEF TypeOK, CreateMyCharacter, Made
      <3>2. CASE \E t \in Tables : QuickAdd(u, t, h)
          BY <1>0, <3>2 DEF TypeOK, NoHero, QuickAdd, Made, Runs
      <3>3. CASE \E t \in Tables : OfferPregen(u, t, h)
          BY <1>0, <2>0, <3>3 DEF TypeOK, HeroRows, Runs, OfferPregen, Changed
      <3>4. QED BY <1>11, <3>1, <3>2, <3>3 DEF RowMade
    <2>2. Well(h)
        BY <2>1
    <2>3. QED BY <1>4, <2>1, <2>2
  <1>12. ASSUME NEW u \in Users, NEW h \in Heroes,
                WithdrawPregen(u, h) \/ ClaimPregen(u, h) \/ ReleasePregen(u, h)
         PROVE  SeatedByMember'
    <2>0. hero[h] \in HeroRows
        BY <1>0 DEF TypeOK
    <2>1. (\A x \in Heroes : x # h => hero'[x] = hero[x]) /\ UNCHANGED role
        BY <1>0, <1>12 DEF TypeOK, WithdrawPregen, ClaimPregen, ReleasePregen, Changed
    <2>2. Well(h)
      <3>1. CASE WithdrawPregen(u, h)
          BY <1>0, <2>0, <3>1 DEF TypeOK, HeroRows, WithdrawPregen, Changed
      <3>2. CASE ClaimPregen(u, h)
          BY <1>0, <2>0, <2>1, <3>2 DEF TypeOK, HeroRows, Member, ClaimPregen, Changed
      <3>3. CASE ReleasePregen(u, h)
          BY <1>0, <2>0, <3>3 DEF TypeOK, HeroRows, InPool, Pregen, ReleasePregen, Changed
      <3>4. QED BY <1>12, <3>1, <3>2, <3>3
    <2>3. QED BY <1>4, <2>1, <2>2
  <1>13. ASSUME NEW u \in Users, NEW h \in Heroes,
                \/ ApproveSeatRequest(u, h) \/ DenySeatRequest(u, h) \/ Unseat(u, h)
                \/ \E t \in Tables : SeatCharacter(u, h, t)
         PROVE  SeatedByMember'
      BY <1>0, <1>3, <1>5, <1>13, DoorSteps DEF DoorStep, Unseat, Seated, SeatStep
  <1>14. ASSUME NEW u \in Users, NEW t \in Tables,
                SetSeatingApproval(u, t) \/ SetMaxSeatedPerPlayer(u, t)
         PROVE  SeatedByMember'
      BY <1>0, <1>3, <1>14, DoorSteps DEF DoorStep
  <1>15. CASE UNCHANGED vars
      BY <1>3, <1>15 DEF vars
  <1>16. QED
      BY <1>6, <1>7, <1>8, <1>9, <1>10, <1>11, <1>12, <1>13, <1>14, <1>15, Steps

-----------------------------------------------------------------------------
(* What a step may do to one sheet, and what follows for the steps.        *)

\* x is nobody's after the step.
Ends(x) ==
    /\ hero'[x] = NoHero
    /\ hero[x].owner = None \/ hero[x].born \/ ender' = hero[x].owner

\* x loses its seat.
Rests(x) ==
    hero'[x].seat = None /\ ~hero[x].born /\ ~hero'[x].born /\ hero'[x].owner = hero[x].owner

\* x, and only x, is seated at t by its owner or by an approval.
SitsDown(x, t) ==
    /\ hero' = [hero EXCEPT ![x].seat = t]
    /\ ~hero[x].born
    /\ SeatFree(hero[x].owner, t, x)
    /\ t \in barred => door[x] = t \/ role[t][hero[x].owner] = "dm"

\* x, and only x, is new: at rest, or born at a table of its maker.
Appears(x) ==
    /\ hero[x].owner = None
    /\ hero'[x].offeredBy = None
    /\ hero'[x].seat = None \/ (hero'[x].born /\ role[hero'[x].seat][hero'[x].owner] = "dm")

\* x is set out in a pool of its owner's.
SetOut(x) ==
    ~hero[x].born /\ ~hero'[x].born /\ InPool(hero'[x]) /\ role[hero'[x].seat][hero'[x].owner] = "dm"

\* x, and only x, changes hands: it is claimed, or it goes back to the pool.
ChangesHands(x) ==
    /\ \E u \in Users : hero' = [hero EXCEPT ![x].owner = u]
    /\ InPool(hero'[x]) \/ SeatFree(hero'[x].owner, hero[x].seat, x)
    /\ There(x) /\ hero[x].offeredBy # None

\* What one step may do to x.
Fate(x) ==
    \/ hero'[x] = hero[x] \/ Ends(x) \/ Rests(x) \/ Appears(x) \/ SetOut(x) \/ ChangesHands(x)
    \/ \E t \in Tables : SitsDown(x, t)

\* Every step does to every sheet one of the things above.
LEMMA Fates ==
    ASSUME IInv, [Next]_vars
    PROVE  \A x \in Heroes : Fate(x)
  <1> USE NoHeroRow, SeatsOK
  <1>0. TypeOK /\ WaitersAreHeroes /\ \A x \in Heroes : hero[x] \in HeroRows
      BY DEF IInv, TypeOK
  <1>1. ASSUME UNCHANGED hero PROVE \A x \in Heroes : Fate(x)
      BY <1>1 DEF Fate
  <1>2. ASSUME NEW u \in Users, NEW t \in Tables, LeaveTable(u, t), NEW x \in Heroes PROVE Fate(x)
    <2>1. hero'[x] \in {hero[x], Benched(hero[x])}
        BY <1>0, <1>2, LeaveFate
    <2>2. QED BY <1>0, <2>1 DEF Fate, Ends, Rests, Benched, HeroRows
  <1>3. ASSUME NEW t \in Tables, DisbandTable(t), NEW x \in Heroes PROVE Fate(x)
    <2>1. hero'[x] \in {hero[x], Benched(hero[x])}
        BY <1>0, <1>3, DisbandFate
    <2>2. QED BY <1>0, <2>1 DEF Fate, Ends, Rests, Benched, HeroRows
  <1>4. ASSUME NEW u \in Users, Purge(u), NEW x \in Heroes PROVE Fate(x)
      BY <1>0, <1>4 DEF TypeOK, Fate, Ends, Purge, Deleted
  <1>5. ASSUME NEW u \in Users, NEW h \in Heroes, DeleteCharacter(u, h), NEW x \in Heroes
        PROVE  Fate(x)
      BY <1>0, <1>5 DEF Fate, Ends, DeleteCharacter, Struck, Deleted
  <1>6. ASSUME NEW h \in Heroes, (\A x \in Heroes : x # h => hero'[x] = hero[x]), Fate(h)
        PROVE  \A x \in Heroes : Fate(x)
      BY <1>6 DEF Fate
  <1>7. ASSUME NEW u \in Users, NEW h \in Heroes, RowMade(u, h) PROVE \A x \in Heroes : Fate(x)
    <2>1. \A x \in Heroes : x # h => hero'[x] = hero[x]
        BY <1>0, <1>7 DEF TypeOK, RowMade, CreateMyCharacter, QuickAdd, OfferPregen, Made, Changed
    <2>2. CASE CreateMyCharacter(u, h)
      <3>1. Appears(h)
          BY <1>0, <2>2 DEF TypeOK, There, NoHero, CreateMyCharacter, Made, Appears
      <3>2. QED BY <1>6, <2>1, <3>1 DEF Fate
    <2>3. ASSUME NEW t \in Tables, QuickAdd(u, t, h) PROVE Appears(h)
        BY <1>0, <2>3 DEF TypeOK, There, NoHero, Runs, QuickAdd, Made, Appears
    <2>4. ASSUME NEW t \in Tables, OfferPregen(u, t, h) PROVE SetOut(h)
      <3>1. hero'[h] = [hero[h] EXCEPT !.seat = t, !.offeredBy = u]
          BY <1>0, <2>4 DEF TypeOK, OfferPregen, Changed
      <3>2. QED BY <1>0, <2>4, <3>1 DEF HeroRows, Runs, InPool, Pregen, OfferPregen, SetOut
    <2>5. QED BY <1>6, <1>7, <2>1, <2>2, <2>3, <2>4 DEF RowMade, Fate
  <1>8. ASSUME NEW u \in Users, NEW h \in Heroes,
               WithdrawPregen(u, h) \/ ClaimPregen(u, h) \/ ReleasePregen(u, h)
        PROVE  \A x \in Heroes : Fate(x)
    <2>1. \A x \in Heroes : x # h => hero'[x] = hero[x]
        BY <1>0, <1>8 DEF TypeOK, WithdrawPregen, ClaimPregen, ReleasePregen, Changed
    <2>2. CASE WithdrawPregen(u, h)
      <3>1. hero'[h] = [hero[h] EXCEPT !.seat = None, !.offeredBy = None]
          BY <1>0, <2>2 DEF TypeOK, WithdrawPregen, Changed
      <3>2. ~hero[h].born
          BY <1>0, <2>2 DEF IInv, BornUnoffered, InPool, Pregen, WithdrawPregen
      <3>3. Rests(h)
          BY <1>0, <3>1, <3>2 DEF HeroRows, Rests
      <3>4. QED BY <1>6, <2>1, <3>3 DEF Fate
    <2>3. CASE ClaimPregen(u, h)
      <3>1. hero' = [hero EXCEPT ![h].owner = u]
          BY <1>0, <2>3 DEF TypeOK, ClaimPregen, Changed
      <3>2. ChangesHands(h)
          BY <1>0, <2>3, <3>1 DEF TypeOK, HeroRows, InPool, Pregen, ClaimPregen, ChangesHands
      <3>3. QED BY <1>6, <2>1, <3>2 DEF Fate
    <2>4. CASE ReleasePregen(u, h)
      <3>1. hero' = [hero EXCEPT ![h].owner = hero[h].offeredBy]
          BY <1>0, <2>4 DEF TypeOK, ReleasePregen, Changed
      <3>2. ChangesHands(h)
          BY <1>0, <2>4, <3>1 DEF TypeOK, HeroRows, InPool, Pregen, ReleasePregen, ChangesHands
      <3>3. QED BY <1>6, <2>1, <3>2 DEF Fate
    <2>5. QED BY <1>8, <2>2, <2>3, <2>4
  <1>9. ASSUME NEW h \in Heroes, NEW t \in Tables, SitsDown(h, t) PROVE \A x \in Heroes : Fate(x)
    <2>1. \A x \in Heroes : x # h => hero'[x] = hero[x]
        BY <1>0, <1>9 DEF TypeOK, SitsDown
    <2>2. QED BY <1>6, <1>9, <2>1 DEF Fate
  <1>10. ASSUME NEW u \in Users, NEW h \in Heroes, Unseat(u, h) PROVE \A x \in Heroes : Fate(x)
    <2>1. /\ \A x \in Heroes : x # h => hero'[x] = hero[x]
          /\ hero'[h] = [hero[h] EXCEPT !.seat = None]
        BY <1>0, <1>10 DEF TypeOK, Unseat, Seated
    <2>2. Rests(h)
        BY <1>0, <1>10, <2>1 DEF HeroRows, Unseat, Rests
    <2>3. QED BY <1>6, <2>1, <2>2 DEF Fate
  <1>11. ASSUME NEW u \in Users, NEW h \in Heroes, ApproveSeatRequest(u, h)
         PROVE  UNCHANGED hero \/ (SitsDown(h, door[h]) /\ door[h] \in Tables)
    <2>1. CASE DoorStep
        BY <2>1 DEF DoorStep
    <2>2. CASE /\ SeatStep(h, door[h]) /\ door[h] \in Tables
               /\ Member(hero[h].owner, door[h]) /\ SeatFree(hero[h].owner, door[h], h)
        BY <1>0, <2>2 DEF WaitersAreHeroes, SeatStep, SitsDown
    <2>3. QED BY <1>0, <1>11, <2>1, <2>2, DoorSteps
  <1>12. ASSUME NEW u \in Users, NEW h \in Heroes, NEW t \in Tables, SeatCharacter(u, h, t)
         PROVE  UNCHANGED hero \/ SitsDown(h, t)
      BY <1>0, <1>12, DoorSteps DEF DoorStep, SeatStep, SitsDown
  <1>13. QED
      BY <1>0, <1>1, <1>2, <1>3, <1>4, <1>5, <1>7, <1>8, <1>9, <1>10, <1>11, <1>12, Steps, DoorSteps
         DEF vars, DoorStep, RoleStep

\* A sheet born at a table is never offered: OfferPregen turns it away.
LEMMA BornStep == IInv /\ [Next]_vars => BornUnoffered'
  <1> SUFFICES ASSUME IInv, [Next]_vars, NEW x \in Heroes,
                      hero'[x].owner # None, hero'[x].born
               PROVE  hero'[x].offeredBy = None
      BY DEF BornUnoffered, There
  <1>0. TypeOK /\ hero[x] \in HeroRows /\ (There(x) /\ hero[x].born => hero[x].offeredBy = None)
      BY DEF IInv, TypeOK, BornUnoffered
  <1>1. CASE ChangesHands(x)
      BY <1>0, <1>1 DEF IInv, TypeOK, HeroRows, ChangesHands, There
  <1>2. CASE hero'[x] = hero[x] \/ Ends(x) \/ Rests(x) \/ Appears(x) \/ SetOut(x)
      BY <1>0, <1>2, NoHeroRow DEF Ends, Rests, Appears, SetOut, There
  <1>3. CASE \E t \in Tables : SitsDown(x, t)
      BY <1>0, <1>3 DEF TypeOK, HeroRows, SitsDown
  <1>4. QED BY <1>1, <1>2, <1>3, Fates DEF Fate

\* Before anybody has made a sheet there is nothing to keep.
LEMMA InitIInv == Init => IInv
  <1>1. Init => TypeOK BY TypeInit
  <1>2. Init => SeatedByMember BY NoHeroRow DEF Init, SeatedByMember, There
  <1>3. Init => WaitersAreHeroes BY DEF Init, WaitersAreHeroes
  <1>4. Init => BornUnoffered BY NoHeroRow DEF Init, BornUnoffered, There
  <1>5. QED BY <1>1, <1>2, <1>3, <1>4 DEF IInv

\* The invariant is inductive.
LEMMA Invariance == Spec => []IInv
  <1>1. IInv /\ [Next]_vars => IInv'
      BY TypeStep, MemberStep, WaitStep, BornStep DEF IInv
  <1>2. QED BY InitIInv, <1>1, PTL DEF Spec

\* Seats is well typed.
THEOREM TypeCorrect == Spec => []TypeOK
  BY Invariance, PTL DEF IInv

\* Outside the pool of pre-made heroes, no sheet keeps a seat at a table its owner is not
\* at: not after a kick, a purge, a struck table, or an approval that comes too late.
THEOREM SeatedByMemberHolds == Spec => []SeatedByMember
  BY Invariance, PTL DEF IInv

-----------------------------------------------------------------------------
(* What a step may never do.                                               *)

\* A table-born sheet never changes its seat: it ends where it was born.
LEMMA BornStaysStep ==
    ASSUME IInv, [Next]_vars, NEW h \in Heroes,
           There(h), hero[h].born, hero'[h].owner # None
    PROVE  hero'[h].seat = hero[h].seat
  <1>0. TypeOK /\ hero[h].offeredBy = None
      BY DEF IInv, BornUnoffered
  <1>1. QED BY <1>0, Fates, NoHeroRow DEF Fate, Ends, Rests, SitsDown, Appears, SetOut, ChangesHands, There

\* The table-born stay at their table, whatever happens to it and to their maker.
THEOREM BornStaysHolds == Spec => BornStays
  <1>1. IInv /\ [Next]_vars => [\A h \in Heroes :
            There(h) /\ hero[h].born /\ hero'[h].owner # None
                => hero'[h].seat = hero[h].seat]_vars
      BY BornStaysStep
  <1>2. QED BY Invariance, <1>1, PTL DEF Spec, BornStays

\* At a barred door nothing new is seated but what waited there, or is a DM's.
LEMMA BarredDoorStep ==
    ASSUME IInv, [Next]_vars, NEW h \in Heroes, NEW t \in barred,
           hero[h].seat # t, hero'[h].seat = t
    PROVE  door[h] = t \/ role[t][hero'[h].owner] = "dm"
  <1>0. TypeOK /\ hero[h] \in HeroRows /\ t \in Tables /\ t # None
      BY SeatsOK DEF IInv, TypeOK
  <1>1. CASE Ends(h)
      BY <1>0, <1>1, NoHeroRow DEF Ends
  <1>2. QED BY <1>0, <1>1, Fates, SMTT(30)
            DEF Fate, Rests, SitsDown, Appears, SetOut, ChangesHands, TypeOK, HeroRows

\* SeatCharacter, OfferPregen and CreateCharacter are the ways in, and all of them ask.
THEOREM BarredDoorHolds == Spec => BarredDoor
  <1>1. IInv /\ [Next]_vars => [\A h \in Heroes, t \in barred :
            hero[h].seat # t /\ hero'[h].seat = t
                => door[h] = t \/ role[t][hero'[h].owner] = "dm"]_vars
      BY BarredDoorStep
  <1>2. QED BY Invariance, <1>1, PTL DEF Spec, BarredDoor

\* A sheet ends by its owner's act or purge, by a DM's if it was born at a table, or with
\* that table: a hero only by its owner's.
LEMMA OutliveStep ==
    ASSUME IInv, [Next]_vars, NEW h \in Heroes,
           There(h), ~hero[h].born, hero'[h].owner = None
    PROVE  ender' = hero[h].owner
  <1>0. TypeOK /\ hero[h] \in HeroRows /\ None \notin Users
      BY SeatsOK DEF IInv, TypeOK
  <1>1. CASE ChangesHands(h)
      BY <1>0, <1>1 DEF ChangesHands, TypeOK, HeroRows
  <1>2. CASE \E t \in Tables : SitsDown(h, t)
      BY <1>0, <1>2 DEF SitsDown, TypeOK, HeroRows, There
  <1>3. QED BY <1>0, <1>1, <1>2, Fates
            DEF Fate, Ends, Rests, Appears, SetOut, InPool, Pregen, There

\* A kick, a ban and a struck table rest a hero, and a DM's word unseats it; only its
\* owner's own act, or their purge, deletes it.
THEOREM HeroesOutliveTablesHolds == Spec => HeroesOutliveTables
  <1>1. IInv /\ [Next]_vars => [\A h \in Heroes :
            There(h) /\ ~hero[h].born /\ hero'[h].owner = None
                => ender' = hero[h].owner]_vars
      BY OutliveStep
  <1>2. QED BY Invariance, <1>1, PTL DEF Spec, HeroesOutliveTables

\* Whoever comes to take a seat came through SeatFree, and alone: the seats taken are
\* those that were counted, and this one.
LEMMA CapStep ==
    ASSUME IInv, [Next]_vars, NEW h \in Heroes, NEW u, NEW t,
           u = hero'[h].owner, t = hero'[h].seat,
           TakesSeat(hero'[h]), ~(TakesSeat(hero[h]) /\ hero[h].owner = u /\ hero[h].seat = t)
    PROVE  Cardinality(SeatsTaken(hero', u, t)) <= cap[t]
  <1>0. TypeOK /\ hero[h] \in HeroRows /\ None \notin Users \cup Tables
      BY SeatsOK DEF IInv, TypeOK
  <1> DEFINE counted == SeatsTaken(hero, u, t) \ {h}
  <1>1. t \in Tables /\ SeatFree(u, t, h) /\ \A x \in Heroes : x # h => hero'[x] = hero[x]
    <2>1. CASE ChangesHands(h)
        BY <1>0, <2>1 DEF ChangesHands, TypeOK, HeroRows, TakesSeat
    <2>2. CASE \E x \in Tables : SitsDown(h, x)
        BY <1>0, <2>2 DEF SitsDown, TypeOK, HeroRows, TakesSeat
    <2>3. CASE hero'[h] = hero[h] \/ Rests(h) \/ Appears(h) \/ SetOut(h)
        BY <2>3 DEF Rests, Appears, SetOut, TakesSeat
    <2>4. CASE Ends(h)
        BY <2>4, NoHeroRow DEF Ends, TakesSeat
    <2>5. QED BY <2>1, <2>2, <2>3, <2>4, Fates DEF Fate
  <1>2. IsFiniteSet(counted)
    <2>1. counted \subseteq Heroes BY DEF SeatsTaken
    <2>2. QED BY <2>1, SeatsOK, FS_Subset
  <1>3. SeatsTaken(hero', u, t) \subseteq counted \cup {h}
      BY <1>1 DEF SeatsTaken
  <1>4. Cardinality(counted) < cap[t]
      BY <1>1 DEF SeatFree
  <1> HIDE DEF counted
  <1>5. /\ IsFiniteSet(counted \cup {h})
        /\ Cardinality(counted \cup {h}) \in {Cardinality(counted), Cardinality(counted) + 1}
      BY <1>2, FS_AddElement
  <1>6. Cardinality(SeatsTaken(hero', u, t)) <= Cardinality(counted \cup {h})
      BY <1>3, <1>5, FS_Subset
  <1>7. Cardinality(counted) \in Nat /\ Cardinality(counted \cup {h}) \in Nat
        /\ IsFiniteSet(SeatsTaken(hero', u, t)) /\ Cardinality(SeatsTaken(hero', u, t)) \in Nat
      BY <1>2, <1>3, <1>5, FS_CardinalityType, FS_Subset
  <1>8. cap[t] \in Nat
      BY <1>0, <1>1, SeatsOK DEF TypeOK
  <1>9. QED BY <1>4, <1>5, <1>6, <1>7, <1>8

\* The three ways to a seat (SeatCharacter, ApproveSeatRequest, ClaimPregen) ask the cap.
THEOREM CapHoldsHolds == Spec => CapHolds
  <1>1. IInv /\ [Next]_vars => [\A h \in Heroes :
          LET u == hero'[h].owner
              t == hero'[h].seat
          IN  /\ TakesSeat(hero'[h])
              /\ ~(TakesSeat(hero[h]) /\ hero[h].owner = u /\ hero[h].seat = t)
              => Cardinality(SeatsTaken(hero', u, t)) <= cap[t]]_vars
      BY CapStep
  <1>2. QED BY Invariance, <1>1, PTL DEF Spec, CapHolds
=============================================================================
