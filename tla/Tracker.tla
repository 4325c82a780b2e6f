------------------------------ MODULE Tracker ------------------------------
(***************************************************************************)
(* The fights of a table and the hit points that live in two places: on    *)
(* the sheet of a hero (or the row of one of the Folk), and on a combatant *)
(* of the tracker.                                                         *)
(*                                                                         *)
(* Source: internal/http/encounters.go, encounters_run.go,                 *)
(* encounters_tracker.go, conditions.go, with rest.go, levelup.go,         *)
(* characters.go, npcs.go and inventory.go for what they do to hit points. *)
(*                                                                         *)
(* One request at a time, answered whole. Left out: who may ask, labels,   *)
(* armour class, conditions, rounds and turns (two counters that nothing   *)
(* else reads), the initiative of a combatant that is of no mob (an order  *)
(* on the page), and everything of a rest or a level but hit points.       *)
(***************************************************************************)
EXTENDS Integers, FiniteSets

CONSTANTS
    Heroes,         \* the sheets, those of the Folk among them
    Folk,
    Block,          \* the hit points of a stat block
    Encounters,
    Rows,           \* bound: combatants at once
    Points,         \* bound: the hit points in play, current and full
    Rolls,          \* what a die and a modifier come to
    MaxPips,        \* maxDeathSaves, of the two tallies as one
    None, StatBlock, Nothing

VARIABLES
    sheet,      \* characters: hp_current and hp_max
    folk,       \* npcs: whether they travel, hp_current (None untouched), what stands behind
    fight,      \* encounters: "none" with no such row, else its status
    comb        \* encounter_combatants

trackerVars == <<sheet, folk, fight, comb>>

Currents == {p.cur : p \in Points}

\* Behind one of the Folk stands a sheet of their own, a stat block, or nothing.
People == [travels : BOOLEAN, cur : Currents \cup {None}, behind : Heroes \cup {StatBlock, Nothing}]

\* A group_id is named after any row; pips are the death saves marked, either way.
Combatants == [enc : Encounters, kind : {"pc", "ally", "monster"},
               hero : Heroes \cup {None}, npc : Folk \cup {None}, hp : Points,
               init : Rolls \cup {None}, mob : Rows \cup {None}, pips : 0..MaxPips]

ASSUME TrackerOK ==
    /\ Points \subseteq [cur : Int, max : Int]
    /\ Block \in Nat \ {0} /\ MaxPips \in Nat
    /\ {None, StatBlock, Nothing} \cap Heroes = {}
    /\ None \notin Folk /\ None \notin Rows /\ None \notin Rolls /\ None \notin Int
    /\ None \notin Points /\ None \notin People /\ None \notin Combatants
    /\ Folk \cap Heroes = {}

There(c) == comb[c] # None

\* What a combatant refers to is there.
Refers(c) ==
    /\ fight[comb[c].enc] # "none"
    /\ comb[c].hero # None => sheet[comb[c].hero] # None
    /\ comb[c].npc # None => folk[comb[c].npc] # None

HasBody(f) == folk[f] # None /\ folk[f].behind \in Heroes

\* "A body is forged for one person and nothing else points at it" (npcs.go).
TrackerTypeOK ==
    /\ sheet \in [Heroes -> Points \cup {None}]
    /\ folk \in [Folk -> People \cup {None}]
    /\ fight \in [Encounters -> {"none", "inactive", "active"}]
    /\ comb \in [Rows -> Combatants \cup {None}]
    /\ \A c \in Rows : There(c) => Refers(c)
    /\ \A f \in Folk : HasBody(f) => sheet[folk[f].behind] # None
    /\ \A f, o \in Folk : HasBody(f) /\ HasBody(o) /\ folk[o].behind = folk[f].behind => o = f

TrackerInit ==
    /\ sheet = [h \in Heroes |-> None]
    /\ folk = [f \in Folk |-> None]
    /\ fight = [e \in Encounters |-> "none"]
    /\ comb = [c \in Rows |-> None]

-----------------------------------------------------------------------------
(* Hit points in two places.                                               *)

Running(c) == There(c) /\ fight[comb[c].enc] = "active"

\* Mutant of WithHp: the reset is left to the handler that asked.
WithHpOnly(row, hp) == [row EXCEPT !.hp = hp]

\* "Healing a hero above 0 ends their death saves, so the reset rides on the write".
WithHp(row, hp) == [row EXCEPT !.hp = hp, !.pips = IF hp.cur > 0 THEN 0 ELSE @]

\* syncCharacterHP: the tracker's numbers go onto the sheet, if there is one.
SheetGets(h, hp) == sheet' = IF sheet[h] = None THEN sheet ELSE [sheet EXCEPT ![h] = hp]

\* Mutant of Follows: "a forged body seated as an ally" is passed over.
FollowsHeroOnly(c, h) == Running(c) /\ comb[c].hero = h /\ comb[c].kind = "pc"

\* The combatants that syncSeatedHero walks.
Follows(c, h) == Running(c) /\ comb[c].hero = h /\ comb[c].kind \in {"pc", "ally"}

\* A sheet is written, and its hero's combatants with it.
HeroGets(h, hp) ==
    /\ sheet' = [sheet EXCEPT ![h] = hp]
    /\ comb' = [c \in Rows |-> IF Follows(c, h) /\ comb[c].hp # hp THEN WithHp(comb[c], hp) ELSE comb[c]]
    /\ UNCHANGED <<folk, fight>>

Clamped(n, most) == IF n < 0 THEN 0 ELSE IF n > most THEN most ELSE n

\* What a block's bearer has left: NULL means untouched.
BlockHp(cur) == [cur |-> IF cur = None THEN Block ELSE Clamped(cur, Block), max |-> Block]

AllyHp(f) == IF HasBody(f) THEN sheet[folk[f].behind] ELSE BlockHp(folk[f].cur)

-----------------------------------------------------------------------------
(* The sheets and the Folk.                                                *)

\* validateCharacterInput. Only a sheet's own form asks this: the tracker writes what it is given.
Valid(hp) == 1 <= hp.max /\ 0 <= hp.cur /\ hp.cur <= hp.max

CreateCharacter(h, hp) ==
    /\ sheet[h] = None /\ Valid(hp)
    /\ sheet' = [sheet EXCEPT ![h] = hp]
    /\ UNCHANGED <<folk, fight, comb>>

\* The roster's edit. Nothing is mirrored when the numbers stay.
UpdateCharacter(h, hp) == sheet[h] # None /\ sheet[h] # hp /\ Valid(hp) /\ HeroGets(h, hp)

\* A long rest heals to the full; a short one by what the dice give, and not past it.
RestCharacter(h, hp) ==
    /\ sheet[h] # None /\ hp.max = sheet[h].max
    /\ hp.cur = hp.max \/ (sheet[h].cur <= hp.cur /\ hp.cur < hp.max)
    /\ HeroGets(h, hp)

\* The pack changes, in a hand or over a counter: syncCombatantAC takes the hit points along.
ChangeKit(h) == sheet[h] # None /\ HeroGets(h, sheet[h])

\* LevelUpCharacter raises both numbers by as much, and tells no combatant.
LevelUpCharacter(h, hp) ==
    /\ sheet[h] # None /\ hp.max > sheet[h].max /\ hp.cur - sheet[h].cur = hp.max - sheet[h].max
    /\ sheet' = [sheet EXCEPT ![h] = hp]
    /\ UNCHANGED <<folk, fight, comb>>

\* A sheet goes: what refers to it lets go of it (ON DELETE SET NULL).
Stricken(h) ==
    /\ sheet' = [sheet EXCEPT ![h] = None]
    /\ comb' = [c \in Rows |-> IF There(c) /\ comb[c].hero = h
                                 THEN [comb[c] EXCEPT !.hero = None] ELSE comb[c]]

DeleteCharacter(h) ==
    /\ sheet[h] # None
    /\ Stricken(h)
    /\ folk' = [f \in Folk |-> IF folk[f] # None /\ folk[f].behind = h
                                 THEN [folk[f] EXCEPT !.behind = Nothing] ELSE folk[f]]
    /\ UNCHANGED fight

CreateNpc(f, behind) ==
    /\ folk[f] = None
    /\ folk' = [folk EXCEPT ![f] = [travels |-> FALSE, cur |-> None, behind |-> behind]]
    /\ UNCHANGED <<sheet, fight, comb>>

\* "A stat block or a sheet, never both -- the sheet wins".
ForgeNpcBody(f, h, hp) ==
    /\ folk[f] # None /\ ~HasBody(f) /\ sheet[h] = None /\ Valid(hp)
    /\ sheet' = [sheet EXCEPT ![h] = hp]
    /\ folk' = [folk EXCEPT ![f].behind = h]
    /\ UNCHANGED <<fight, comb>>

\* A block is put behind them or taken away. "Letting go of [a body] strikes it".
UpdateNpc(f, behind) ==
    /\ folk[f] # None /\ folk[f].behind # behind
    /\ folk' = [folk EXCEPT ![f].behind = behind]
    /\ IF HasBody(f) THEN Stricken(folk[f].behind) ELSE UNCHANGED <<sheet, comb>>
    /\ UNCHANGED fight

\* "Their sheet was theirs alone; it does not outlive them".
DeleteNpc(f) ==
    /\ folk[f] # None
    /\ folk' = [folk EXCEPT ![f] = None]
    /\ sheet' = [h \in Heroes |-> IF h = folk[f].behind THEN None ELSE sheet[h]]
    /\ comb' = [c \in Rows |->
                   IF There(c)
                   THEN [comb[c] EXCEPT !.npc = IF @ = f THEN None ELSE @,
                                        !.hero = IF @ = folk[f].behind THEN None ELSE @]
                   ELSE None]
    /\ UNCHANGED fight

SetNpcTravel(f, travels) ==
    /\ folk[f] # None
    /\ folk' = [folk EXCEPT ![f].travels = travels]
    /\ UNCHANGED <<sheet, fight, comb>>

\* Walks with the party, with a sheet or a block behind them.
Stands(f) == folk[f] # None /\ folk[f].travels /\ folk[f].behind # Nothing /\ AllyHp(f) \in Points

\* "The points land where they actually live", clamped; no combatant is told.
SetNpcHp(f, n) ==
    /\ Stands(f)
    /\ LET next == [cur |-> Clamped(n, AllyHp(f).max), max |-> AllyHp(f).max]
       IN  /\ next \in Points  \* bound
           /\ IF HasBody(f) THEN SheetGets(folk[f].behind, next) /\ UNCHANGED folk
              ELSE folk' = [folk EXCEPT ![f].cur = next.cur] /\ UNCHANGED sheet
    /\ UNCHANGED <<fight, comb>>

-----------------------------------------------------------------------------
(* The tracker.                                                            *)

CreateEncounter(e) ==
    /\ fight[e] = "none"
    /\ fight' = [fight EXCEPT ![e] = "inactive"]
    /\ UNCHANGED <<sheet, folk, comb>>

\* Mutant of Emptied: the combatants stay behind.
EmptiedNot(e) == comb

Emptied(e) == [c \in Rows |-> IF There(c) /\ comb[c].enc = e THEN None ELSE comb[c]]

DeleteEncounter(e) ==
    /\ fight[e] # "none"
    /\ fight' = [fight EXCEPT ![e] = "none"]
    /\ comb' = Emptied(e)
    /\ UNCHANGED <<sheet, folk>>

Combatant(e, kind, h, f, hp, mob) ==
    [enc |-> e, kind |-> kind, hero |-> h, npc |-> f, hp |-> hp, init |-> None, mob |-> mob, pips |-> 0]

Arrives(cs, row) ==
    /\ \A c \in cs : ~There(c)
    /\ comb' = [c \in Rows |-> IF c \in cs THEN row ELSE comb[c]]
    /\ UNCHANGED <<sheet, folk, fight>>

\* "One hero, one fight": of the fights that run.
AddHero(c, e, h) ==
    /\ fight[e] # "none" /\ sheet[h] # None
    /\ \A o \in Rows : Running(o) /\ comb[o].hero = h => comb[o].enc = e
    /\ Arrives({c}, Combatant(e, "pc", h, None, sheet[h], None))

\* An ally is looked for by its own row, not by its body.
AddAlly(c, e, f) ==
    /\ fight[e] # "none" /\ Stands(f)
    /\ \A o \in Rows : Running(o) /\ comb[o].npc = f => comb[o].enc = e
    /\ Arrives({c}, Combatant(e, "ally", IF HasBody(f) THEN folk[f].behind ELSE None,
                              f, AllyHp(f), None))

\* Monsters and custom lines; several at once are a mob.
AddMonsters(cs, e, hp) ==
    /\ fight[e] # "none" /\ cs # {} /\ hp.cur = hp.max
    /\ \E g \in IF Cardinality(cs) = 1 THEN {None}
                ELSE {x \in Rows : \A c \in Rows : There(c) => comb[c].mob # x} :
          Arrives(cs, Combatant(e, "monster", None, None, hp, g))

\* The members of a combatant's mob, in its encounter; none if it stands alone.
Mob(c) == {o \in Rows : There(o) /\ comb[c].mob # None /\ comb[o].mob = comb[c].mob
                         /\ comb[o].enc = comb[c].enc}

\* Mutant of SetGroupInitiative: the roll stays with the one it was made for.
SetOwnInitiative(rows, c, init) == [o \in Rows |-> IF o = c THEN [rows[o] EXCEPT !.init = init] ELSE rows[o]]

SetGroupInitiative(rows, c, init) ==
    [o \in Rows |-> IF o \in Mob(c) THEN [rows[o] EXCEPT !.init = init] ELSE rows[o]]

\* "One die per fighting unit", remembered by group_id.
RollInitiative(e) ==
    /\ fight[e] # "none"
    /\ \E roll \in [Rows -> Rolls] :
          comb' = [c \in Rows |-> IF There(c) /\ comb[c].enc = e /\ comb[c].mob # None
                                   THEN [comb[c] EXCEPT !.init = roll[comb[c].mob]] ELSE comb[c]]
    /\ UNCHANGED <<sheet, folk, fight>>

RollCombatantInitiative(c) ==
    /\ There(c)
    /\ \E roll \in Rolls : comb' = SetGroupInitiative(comb, c, roll)
    /\ UNCHANGED <<sheet, folk, fight>>

\* combatantDeathSaves: a player character's, not above 0 hit points once the request lands.
MaySave(row, hp) == row.kind = "pc" /\ hp.cur <= 0

\* The pips of an edit are written after its hit points.
Edited(row, hp, pips) ==
    IF pips = None THEN WithHp(row, hp) ELSE [WithHp(row, hp) EXCEPT !.pips = pips]

\* Where an edit of hit points lands besides: on the sheet, or on the row of one of the Folk.
MirrorsHome(row, hp) ==
    /\ IF row.hp # hp /\ row.kind # "monster" /\ row.hero # None
       THEN SheetGets(row.hero, hp) ELSE UNCHANGED sheet
    /\ IF row.hp # hp /\ row.kind = "ally" /\ row.hero = None /\ row.npc # None
       THEN folk' = [folk EXCEPT ![row.npc].cur = hp.cur] ELSE UNCHANGED folk

\* An edit gives hit points, below 0 or above the full as it may be, and perhaps an initiative and a tally of pips.
UpdateCombatant(c, hp, init, pips) ==
    /\ There(c)
    /\ pips # None => MaySave(comb[c], hp)
    /\ LET own == [comb EXCEPT ![c] = Edited(@, hp, pips)]
       IN  comb' = IF init = None THEN own ELSE SetGroupInitiative(own, c, init)
    /\ MirrorsHome(comb[c], hp)
    /\ UNCHANGED fight

DeleteCombatants(cs) ==
    /\ cs # {}
    /\ comb' = [c \in Rows |-> IF c \in cs THEN None ELSE comb[c]]
    /\ UNCHANGED <<sheet, folk, fight>>

DeleteCombatant(c) == There(c) /\ DeleteCombatants({c})

DeleteCombatantGroup(c) == There(c) /\ DeleteCombatants(Mob(c))

\* UpdateEncounter, "active": the combatants stay as they are.
Trigger(e) ==
    /\ fight[e] = "inactive"
    /\ fight' = [fight EXCEPT ![e] = "active"]
    /\ UNCHANGED <<sheet, folk, comb>>

\* standDown, of several fights: their heroes are released, their initiative wiped.
StoodDown(es) ==
    /\ fight' = [e \in Encounters |-> IF e \in es THEN "inactive" ELSE fight[e]]
    /\ comb' = [c \in Rows |->
                   CASE There(c) /\ comb[c].enc \in es /\ comb[c].kind = "pc" -> None
                     [] There(c) /\ comb[c].enc \in es /\ comb[c].kind # "pc" ->
                            [comb[c] EXCEPT !.init = None]
                     [] OTHER -> comb[c]]
    /\ UNCHANGED <<sheet, folk>>

StandDown(e) == fight[e] = "active" /\ StoodDown({e})

StandDownEncounters == StoodDown({e \in Encounters : fight[e] = "active"})

-----------------------------------------------------------------------------
SheetNext ==
    \/ \E h \in Heroes, hp \in Points : \/ CreateCharacter(h, hp) \/ UpdateCharacter(h, hp)
                                        \/ RestCharacter(h, hp) \/ LevelUpCharacter(h, hp)
    \/ \E h \in Heroes : DeleteCharacter(h) \/ ChangeKit(h)
    \/ \E f \in Folk, b \in {StatBlock, Nothing} : CreateNpc(f, b) \/ UpdateNpc(f, b)
    \/ \E f \in Folk, h \in Heroes, hp \in Points : ForgeNpcBody(f, h, hp)
    \/ \E f \in Folk, n \in Currents : SetNpcHp(f, n)
    \/ \E f \in Folk : DeleteNpc(f) \/ \E b \in BOOLEAN : SetNpcTravel(f, b)

FightNext ==
    \/ \E e \in Encounters : \/ CreateEncounter(e) \/ DeleteEncounter(e)
                              \/ Trigger(e) \/ StandDown(e) \/ RollInitiative(e)
    \/ \E c \in Rows, e \in Encounters : \/ \E h \in Heroes : AddHero(c, e, h)
                                         \/ \E f \in Folk : AddAlly(c, e, f)
    \/ \E cs \in SUBSET Rows, e \in Encounters, hp \in Points : AddMonsters(cs, e, hp)
    \/ \E c \in Rows : RollCombatantInitiative(c) \/ DeleteCombatant(c) \/ DeleteCombatantGroup(c)
    \/ \E c \in Rows, hp \in Points, init \in Rolls \cup {None}, pips \in 0..MaxPips \cup {None} :
          UpdateCombatant(c, hp, init, pips)
    \/ StandDownEncounters

TrackerNext == SheetNext \/ FightNext

TrackerSpec == TrackerInit /\ [][TrackerNext]_trackerVars

-----------------------------------------------------------------------------
(* Properties.                                                             *)

\* Where the hit points of a combatant live.
Home(c) == IF comb[c].hero # None THEN comb[c].hero ELSE comb[c].npc

Homed(c) == There(c) /\ comb[c].kind # "monster" /\ Home(c) # None

\* "A hero is barred from being seated in two running fights": no other row shares its home.
Alone(c) == Homed(c) /\ \A o \in Rows : o # c /\ Homed(o) => Home(o) # Home(c)

\* The combatant shows what its home holds.
Mirrored(c) ==
    IF comb[c].hero # None THEN comb[c].hp = sheet[comb[c].hero]
    ELSE BlockHp(comb[c].hp.cur) = BlockHp(folk[comb[c].npc].cur)

\* A combatant one with its home in a running fight, and a step that leaves none apart from
\* its home that was one with it, or that it brought into a running fight.
AtOne(c) == Running(c) /\ Homed(c) /\ Mirrored(c) /\ Alone(c)

Together ==
    \A c \in Rows :
        ( /\ ~There(c) \/ AtOne(c)
          /\ Running(c)' /\ Alone(c)'
          /\ There(c) => Home(c)' = Home(c) )
        => Mirrored(c)'

\* The two doors that do not tell the tracker.
Silent == \/ \E h \in Heroes, hp \in Points : LevelUpCharacter(h, hp)
          \/ \E f \in Folk, n \in Currents : SetNpcHp(f, n)

\* "whichever side the DM edits, the other follows" (encounters_tracker.go): of the tracker,
\* the roster and the rests, in any order, over summonings and releases.
MirrorKept == [][Together \/ Silent]_trackerVars

\* "so the two never drift apart mid-fight" (encounters_tracker.go): whoever writes.
NeverApart == [][Together]_trackerVars

\* Death saves are marked for a hero and for nobody above 0 hit points, whichever of the two
\* places lifts the hero off the floor (encounters.sql, UpdateCombatant). Not "at 0": the
\* tracker takes a negative number as it is given, and combatantDeathSaves refuses only > 0.
PipsOnFloor ==
    \A c \in Rows : There(c) /\ comb[c].pips > 0 => comb[c].kind = "pc" /\ comb[c].hp.cur <= 0

\* "A group acts as one creature, so its members share a single roll" (encounters.sql).
MobRollsOnce ==
    \A c, o \in Rows : There(c) /\ o \in Mob(c) => comb[o].init = comb[c].init
=============================================================================
