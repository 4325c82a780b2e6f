--------------------------- MODULE TrackerProofs ---------------------------
(***************************************************************************)
(* Proofs about Tracker: its type, the pips, the mobs, and the mirror.     *)
(***************************************************************************)
EXTENDS Tracker, TLAPS

-----------------------------------------------------------------------------
(* Rows.                                                                   *)

\* A combatant is a row, and its fields are what they should be.
LEMMA RowFields ==
    ASSUME NEW row \in Combatants
    PROVE  /\ row # None /\ row.enc \in Encounters /\ row.kind \in {"pc", "ally", "monster"}
           /\ row.hero \in Heroes \cup {None} /\ row.npc \in Folk \cup {None}
           /\ row.hp \in Points /\ row.init \in Rolls \cup {None}
           /\ row.mob \in Rows \cup {None} /\ row.pips \in 0..MaxPips
    BY TrackerOK DEF Combatants

\* Hit points are numbers.
LEMMA PointFields == ASSUME NEW hp \in Points
                     PROVE  hp # None /\ hp.cur \in Int /\ hp.max \in Int /\ hp.cur # None /\ hp.cur \in Currents
    BY TrackerOK DEF Currents

\* A person is a row, and its fields are what they should be.
LEMMA PersonFields ==
    ASSUME NEW p \in People
    PROVE  /\ p # None /\ p.travels \in BOOLEAN /\ p.cur \in Currents \cup {None}
           /\ p.behind \in Heroes \cup {StatBlock, Nothing}
    BY TrackerOK DEF People

\* What WithHp writes, and what it leaves alone.
LEMMA WithHpRow ==
    ASSUME NEW row \in Combatants, NEW hp \in Points
    PROVE  /\ WithHp(row, hp) \in Combatants
           /\ WithHp(row, hp).enc = row.enc /\ WithHp(row, hp).kind = row.kind
           /\ WithHp(row, hp).hero = row.hero /\ WithHp(row, hp).npc = row.npc
           /\ WithHp(row, hp).init = row.init /\ WithHp(row, hp).mob = row.mob
           /\ WithHp(row, hp).hp = hp
           /\ WithHp(row, hp).pips = IF hp.cur > 0 THEN 0 ELSE row.pips
<1>1. PICK n \in 0..MaxPips : WithHp(row, hp) = [row EXCEPT !.hp = hp, !.pips = n]
                              /\ n = IF hp.cur > 0 THEN 0 ELSE row.pips
  <2>1. (IF hp.cur > 0 THEN 0 ELSE row.pips) \in 0..MaxPips
    BY TrackerOK, RowFields
  <2> QED
    BY <2>1 DEF WithHp
<1> QED
  BY <1>1 DEF Combatants

\* An edit besides: the tally of pips.
LEMMA EditedRow ==
    ASSUME NEW row \in Combatants, NEW hp \in Points, NEW pips \in 0..MaxPips \cup {None}
    PROVE  /\ Edited(row, hp, pips) \in Combatants
           /\ Edited(row, hp, pips).enc = row.enc /\ Edited(row, hp, pips).kind = row.kind
           /\ Edited(row, hp, pips).hero = row.hero /\ Edited(row, hp, pips).npc = row.npc
           /\ Edited(row, hp, pips).init = row.init /\ Edited(row, hp, pips).mob = row.mob
           /\ Edited(row, hp, pips).hp = hp
           /\ Edited(row, hp, pips).pips = IF pips = None THEN IF hp.cur > 0 THEN 0 ELSE row.pips ELSE pips
<1>1. CASE pips = None
  BY <1>1, WithHpRow DEF Edited
<1>2. CASE pips # None
  <2>1. Edited(row, hp, pips) = [WithHp(row, hp) EXCEPT !.pips = pips] /\ pips \in 0..MaxPips
    BY <1>2 DEF Edited
  <2>2. WithHp(row, hp) \in Combatants
    BY WithHpRow
  <2> QED
    BY <1>2, <2>1, <2>2, WithHpRow DEF Combatants
<1> QED
  BY <1>1, <1>2

\* A roll, or its wiping.
LEMMA InitRow ==
    ASSUME NEW row \in Combatants, NEW init \in Rolls \cup {None}
    PROVE  /\ [row EXCEPT !.init = init] \in Combatants
           /\ [row EXCEPT !.init = init].enc = row.enc /\ [row EXCEPT !.init = init].kind = row.kind
           /\ [row EXCEPT !.init = init].hero = row.hero /\ [row EXCEPT !.init = init].npc = row.npc
           /\ [row EXCEPT !.init = init].init = init /\ [row EXCEPT !.init = init].mob = row.mob
           /\ [row EXCEPT !.init = init].hp = row.hp /\ [row EXCEPT !.init = init].pips = row.pips
    BY DEF Combatants

\* A sheet let go of.
LEMMA HerolessRow ==
    ASSUME NEW row \in Combatants
    PROVE  /\ [row EXCEPT !.hero = None] \in Combatants
           /\ [row EXCEPT !.hero = None].enc = row.enc /\ [row EXCEPT !.hero = None].kind = row.kind
           /\ [row EXCEPT !.hero = None].hero = None /\ [row EXCEPT !.hero = None].npc = row.npc
           /\ [row EXCEPT !.hero = None].init = row.init /\ [row EXCEPT !.hero = None].mob = row.mob
           /\ [row EXCEPT !.hero = None].hp = row.hp /\ [row EXCEPT !.hero = None].pips = row.pips
    BY DEF Combatants
-----------------------------------------------------------------------------
(* The type.                                                               *)

\* No row of the tracker but was there, of the same fight, hero and person.
Remain == \A c \in Rows : There(c)' =>
              /\ There(c) /\ comb'[c] \in Combatants
              /\ comb'[c].enc = comb[c].enc /\ comb'[c].kind = comb[c].kind
              /\ comb'[c].hero = comb[c].hero /\ comb'[c].npc = comb[c].npc

\* Nothing that could be referred to goes, and nobody gains a body.
Stay == /\ \A h \in Heroes : sheet[h] # None => sheet'[h] # None
        /\ \A e \in Encounters : fight[e] # "none" => fight'[e] # "none"
        /\ \A f \in Folk : folk[f] # None => folk'[f] # None
        /\ \A f \in Folk : HasBody(f)' => HasBody(f) /\ folk'[f].behind = folk[f].behind

Sorts == /\ sheet \in [Heroes -> Points \cup {None}]
         /\ folk \in [Folk -> People \cup {None}]
         /\ fight \in [Encounters -> {"none", "inactive", "active"}]
         /\ comb \in [Rows -> Combatants \cup {None}]

\* A row that is there is a combatant.
LEMMA ThereIs == ASSUME Sorts, NEW c \in Rows, There(c) PROVE comb[c] \in Combatants
    BY DEF Sorts, There

\* A step that takes nothing away keeps what is referred to.
LEMMA StayType == ASSUME TrackerTypeOK, Sorts', Stay, Remain PROVE TrackerTypeOK'
<1>1. \A c \in Rows : There(c)' => Refers(c)'
  <2> SUFFICES ASSUME NEW c \in Rows, There(c)' PROVE Refers(c)'
    OBVIOUS
  <2>1. There(c) /\ Refers(c)
    BY DEF TrackerTypeOK, Remain
  <2>2. comb[c] \in Combatants
    BY <2>1, ThereIs DEF TrackerTypeOK, Sorts
  <2> QED
    BY <2>1, <2>2, RowFields DEF Refers, Remain, Stay
<1>2. \A f \in Folk : HasBody(f)' => sheet'[folk'[f].behind] # None
  BY DEF TrackerTypeOK, Stay, HasBody
<1>3. \A f, o \in Folk : HasBody(f)' /\ HasBody(o)' /\ folk'[o].behind = folk'[f].behind => o = f
  BY DEF TrackerTypeOK, Stay
<1> QED
  BY <1>1, <1>2, <1>3 DEF TrackerTypeOK, Sorts

\* A row that is as it was remains.
LEMMA SameRemain == ASSUME TrackerTypeOK, UNCHANGED comb PROVE Remain
    BY DEF TrackerTypeOK, Remain, There

LEMMA HeroGetsType ==
    ASSUME TrackerTypeOK, NEW h \in Heroes, NEW hp \in Points, HeroGets(h, hp)
    PROVE  TrackerTypeOK' /\ Remain
<1>1. \A c \in Rows : comb'[c] = comb[c] \/ (There(c) /\ comb'[c] = WithHp(comb[c], hp))
  BY DEF HeroGets, Follows, Running
<1>2. comb' \in [Rows -> Combatants \cup {None}] /\ Remain
  BY <1>1, WithHpRow DEF TrackerTypeOK, Remain, There, HeroGets
<1>3. Sorts' /\ Stay
  BY <1>2, PointFields DEF TrackerTypeOK, HeroGets, Sorts, Stay, HasBody
<1> QED
  BY <1>2, <1>3, StayType

LEMMA LevelUpType ==
    ASSUME TrackerTypeOK, NEW h \in Heroes, NEW hp \in Points,
           CreateCharacter(h, hp) \/ LevelUpCharacter(h, hp)
    PROVE  TrackerTypeOK'
<1>1. Sorts' /\ Stay
  BY PointFields DEF TrackerTypeOK, CreateCharacter, LevelUpCharacter, Sorts, Stay, HasBody
<1>2. Remain
  BY SameRemain DEF CreateCharacter, LevelUpCharacter
<1> QED
  BY <1>1, <1>2, StayType

\* Only one of the Folk changes, and what stands behind them is no other sheet.
LEMMA PersonType ==
    ASSUME TrackerTypeOK, NEW f \in Folk, NEW p \in People, folk' = [folk EXCEPT ![f] = p],
           p.behind \in Heroes => HasBody(f) /\ p.behind = folk[f].behind,
           UNCHANGED <<sheet, fight, comb>>
    PROVE  TrackerTypeOK'
<1>1. Sorts' /\ Stay
  BY PersonFields DEF TrackerTypeOK, Sorts, Stay, HasBody
<1>2. Remain
  BY SameRemain
<1> QED
  BY <1>1, <1>2, StayType

LEMMA CreateNpcType ==
    ASSUME TrackerTypeOK, NEW f \in Folk, NEW b \in {StatBlock, Nothing}, CreateNpc(f, b)
    PROVE  TrackerTypeOK'
<1> DEFINE p == [travels |-> FALSE, cur |-> None, behind |-> b]
<1>1. p \in People /\ p.behind \notin Heroes
  BY TrackerOK DEF People
<1> HIDE DEF p
<1>2. folk' = [folk EXCEPT ![f] = p] /\ UNCHANGED <<sheet, fight, comb>>
  BY DEF CreateNpc, p
<1> QED
  BY <1>1, <1>2, PersonType

LEMMA SetNpcTravelType ==
    ASSUME TrackerTypeOK, NEW f \in Folk, NEW b \in BOOLEAN, SetNpcTravel(f, b)
    PROVE  TrackerTypeOK'
<1> DEFINE p == [folk[f] EXCEPT !.travels = b]
<1>1. folk[f] \in People
  BY DEF TrackerTypeOK, SetNpcTravel
<1>2. p \in People /\ p.behind = folk[f].behind
  BY <1>1 DEF People
<1> HIDE DEF p
<1>3. folk' = [folk EXCEPT ![f] = p] /\ UNCHANGED <<sheet, fight, comb>> /\ folk[f] # None
  BY DEF SetNpcTravel, p
<1> QED
  BY <1>2, <1>3, PersonType DEF HasBody

\* The row of one of the Folk takes hit points.
LEMMA PersonHurt ==
    ASSUME NEW p \in People, NEW n \in Currents
    PROVE  [p EXCEPT !.cur = n] \in People /\ [p EXCEPT !.cur = n].behind = p.behind
           /\ [p EXCEPT !.cur = n].cur = n
    BY DEF People

LEMMA SetNpcHpType ==
    ASSUME TrackerTypeOK, NEW f \in Folk, NEW n \in Currents, SetNpcHp(f, n)
    PROVE  TrackerTypeOK'
<1> DEFINE next == [cur |-> Clamped(n, AllyHp(f).max), max |-> AllyHp(f).max]
<1>1. next \in Points
  BY DEF SetNpcHp
<1>2. next.cur \in Currents
  BY <1>1, PointFields
<1> HIDE DEF next
<1>3. CASE HasBody(f)
  <2>1. SheetGets(folk[f].behind, next) /\ UNCHANGED <<folk, fight, comb>>
    BY <1>3 DEF SetNpcHp, next
  <2>2. Sorts' /\ Stay
    BY <1>1, <1>3, <2>1, PointFields DEF TrackerTypeOK, SheetGets, Sorts, Stay, HasBody
  <2> QED
    BY <2>1, <2>2, SameRemain, StayType
<1>4. CASE ~HasBody(f)
  <2>1. folk' = [folk EXCEPT ![f] = [folk[f] EXCEPT !.cur = next.cur]]
    BY <1>4 DEF SetNpcHp, next
  <2>2. folk[f] \in People
    BY DEF SetNpcHp, Stands, TrackerTypeOK
  <2>3. UNCHANGED <<sheet, fight, comb>>
    BY <1>4 DEF SetNpcHp
  <2>4. [folk[f] EXCEPT !.cur = next.cur] \in People
        /\ [folk[f] EXCEPT !.cur = next.cur].behind = folk[f].behind
    BY <1>2, <2>2, PersonHurt
  <2>5. folk[f] # None
    BY DEF SetNpcHp, Stands
  <2> QED
    BY <2>1, <2>3, <2>4, <2>5, PersonType DEF HasBody
<1> QED
  BY <1>3, <1>4
\* A sheet goes, and nobody keeps it behind them.
LEMMA StrickenType ==
    ASSUME TrackerTypeOK, NEW h \in Heroes, Stricken(h), UNCHANGED fight,
           folk' \in [Folk -> People \cup {None}],
           \A f \in Folk : folk[f] # None => folk'[f] # None,
           \A f \in Folk : HasBody(f)' => HasBody(f) /\ folk'[f].behind = folk[f].behind /\ folk[f].behind # h
    PROVE  TrackerTypeOK'
<1>1. \A c \in Rows : There(c) => comb[c] \in Combatants
  BY ThereIs DEF TrackerTypeOK, Sorts
<1>2. comb' \in [Rows -> Combatants \cup {None}]
  BY <1>1, HerolessRow DEF Stricken, TrackerTypeOK, There
<1>3. sheet' \in [Heroes -> Points \cup {None}]
  BY DEF Stricken, TrackerTypeOK
<1>4. \A c \in Rows : There(c)' => Refers(c)'
  <2> SUFFICES ASSUME NEW c \in Rows, There(c)' PROVE Refers(c)'
    OBVIOUS
  <2>1. There(c) /\ Refers(c) /\ comb[c] \in Combatants
    BY <1>1 DEF TrackerTypeOK, Stricken, There
  <2>2. /\ comb'[c].enc = comb[c].enc /\ comb'[c].npc = comb[c].npc
        /\ comb'[c].hero = IF comb[c].hero = h THEN None ELSE comb[c].hero
    BY <2>1, HerolessRow DEF Stricken
  <2>3. comb[c].enc \in Encounters /\ comb[c].hero \in Heroes \cup {None} /\ comb[c].npc \in Folk \cup {None}
    BY <2>1, RowFields
  <2> QED
    BY <2>1, <2>2, <2>3 DEF Refers, Stricken, TrackerTypeOK
<1>5. \A f \in Folk : HasBody(f)' => sheet'[folk'[f].behind] # None
  BY DEF TrackerTypeOK, HasBody, Stricken
<1>6. \A f, o \in Folk : HasBody(f)' /\ HasBody(o)' /\ folk'[o].behind = folk'[f].behind => o = f
  BY DEF TrackerTypeOK
<1> QED
  BY <1>2, <1>3, <1>4, <1>5, <1>6 DEF TrackerTypeOK

\* What stands behind a person, set.
LEMMA BehindSet ==
    ASSUME NEW p \in People, NEW b \in Heroes \cup {StatBlock, Nothing}
    PROVE  [p EXCEPT !.behind = b] \in People /\ [p EXCEPT !.behind = b].behind = b
           /\ [p EXCEPT !.behind = b].cur = p.cur
    BY DEF People

LEMMA DeleteCharacterType ==
    ASSUME TrackerTypeOK, NEW h \in Heroes, DeleteCharacter(h) PROVE TrackerTypeOK'
<1>1. \A f \in Folk : folk[f] # None => folk[f] \in People
  BY DEF TrackerTypeOK
<1>2. \A f \in Folk : \/ folk'[f] = folk[f] /\ (folk[f] # None => folk[f].behind # h)
                      \/ folk[f] # None /\ folk'[f] = [folk[f] EXCEPT !.behind = Nothing]
  BY DEF DeleteCharacter
<1>6. \A f \in Folk : folk[f] # None =>
         [folk[f] EXCEPT !.behind = Nothing] # None /\ [folk[f] EXCEPT !.behind = Nothing].behind = Nothing
  BY <1>1, BehindSet, PersonFields
<1>3. folk' \in [Folk -> People \cup {None}]
  BY <1>1, BehindSet DEF DeleteCharacter, TrackerTypeOK
<1>4. \A f \in Folk : folk[f] # None => folk'[f] # None
  BY <1>2, <1>6
<1>5. \A f \in Folk : HasBody(f)' => HasBody(f) /\ folk'[f].behind = folk[f].behind /\ folk[f].behind # h
  BY <1>2, <1>6, TrackerOK DEF HasBody
<1> QED
  BY <1>3, <1>4, <1>5, StrickenType DEF DeleteCharacter

LEMMA UpdateNpcType ==
    ASSUME TrackerTypeOK, NEW f \in Folk, NEW b \in {StatBlock, Nothing}, UpdateNpc(f, b)
    PROVE  TrackerTypeOK'
<1> DEFINE p == [folk[f] EXCEPT !.behind = b]
<1>1. folk[f] \in People /\ folk[f] # None
  BY DEF TrackerTypeOK, UpdateNpc
<1>2. p \in People /\ p.behind = b /\ p # None /\ b \notin Heroes
  BY <1>1, BehindSet, PersonFields, TrackerOK
<1> HIDE DEF p
<1>3. folk' = [folk EXCEPT ![f] = p]
  BY DEF UpdateNpc, p
<1>4. CASE HasBody(f)
  <2>1. Stricken(folk[f].behind) /\ UNCHANGED fight /\ folk[f].behind \in Heroes
    BY <1>4 DEF UpdateNpc, HasBody
  <2>2. folk' \in [Folk -> People \cup {None}] /\ \A o \in Folk : folk[o] # None => folk'[o] # None
    BY <1>2, <1>3 DEF TrackerTypeOK
  <2>3. \A o \in Folk : HasBody(o)' =>
           HasBody(o) /\ folk'[o].behind = folk[o].behind /\ folk[o].behind # folk[f].behind
    BY <1>2, <1>3, <1>4 DEF TrackerTypeOK, HasBody
  <2> QED
    BY <2>1, <2>2, <2>3, StrickenType
<1>5. CASE ~HasBody(f)
  BY <1>2, <1>3, <1>5, PersonType DEF UpdateNpc
<1> QED
  BY <1>4, <1>5

LEMMA ForgeNpcBodyType ==
    ASSUME TrackerTypeOK, NEW f \in Folk, NEW h \in Heroes, NEW hp \in Points, ForgeNpcBody(f, h, hp)
    PROVE  TrackerTypeOK'
<1> DEFINE p == [folk[f] EXCEPT !.behind = h]
<1>1. folk[f] \in People /\ folk[f] # None
  BY DEF TrackerTypeOK, ForgeNpcBody
<1>2. p \in People /\ p.behind = h /\ p # None
  BY <1>1, BehindSet, PersonFields
<1> HIDE DEF p
<1>3. folk' = [folk EXCEPT ![f] = p] /\ sheet' = [sheet EXCEPT ![h] = hp] /\ UNCHANGED <<fight, comb>>
      /\ sheet[h] = None /\ hp # None
  BY PointFields DEF ForgeNpcBody, p
<1>4. Sorts'
  BY <1>2, <1>3 DEF TrackerTypeOK, Sorts
<1>5. \A c \in Rows : There(c)' => Refers(c)'
  <2> SUFFICES ASSUME NEW c \in Rows, There(c)' PROVE Refers(c)'
    OBVIOUS
  <2>1. There(c) /\ Refers(c) /\ comb[c] \in Combatants
    BY <1>3, ThereIs DEF TrackerTypeOK, There, Sorts
  <2> QED
    BY <1>2, <1>3, <2>1, RowFields DEF Refers, TrackerTypeOK
<1>6. \A o \in Folk : o # f => folk'[o] = folk[o] /\ (HasBody(o) => folk[o].behind # h)
  BY <1>3 DEF TrackerTypeOK, HasBody
<1>7. folk'[f] = p
  BY <1>3 DEF TrackerTypeOK
<1>8. \A o \in Folk : HasBody(o)' => sheet'[folk'[o].behind] # None
  BY <1>2, <1>3, <1>6, <1>7 DEF TrackerTypeOK, HasBody
<1>9. \A g, o \in Folk : HasBody(g)' /\ HasBody(o)' /\ folk'[o].behind = folk'[g].behind => o = g
  BY <1>2, <1>6, <1>7 DEF TrackerTypeOK, HasBody
<1> QED
  BY <1>4, <1>5, <1>8, <1>9 DEF TrackerTypeOK, Sorts

\* What DeleteNpc leaves of a row.
LEMMA Bereft ==
    ASSUME TrackerTypeOK, NEW f \in Folk, DeleteNpc(f), NEW c \in Rows, There(c)
    PROVE  /\ There(c)' /\ comb'[c] \in Combatants /\ comb[c] \in Combatants
           /\ comb'[c].enc = comb[c].enc /\ comb'[c].kind = comb[c].kind
           /\ comb'[c].npc = IF comb[c].npc = f THEN None ELSE comb[c].npc
           /\ comb'[c].hero = IF comb[c].hero = folk[f].behind THEN None ELSE comb[c].hero
           /\ comb'[c].init = comb[c].init /\ comb'[c].mob = comb[c].mob
           /\ comb'[c].hp = comb[c].hp /\ comb'[c].pips = comb[c].pips
<1> DEFINE n == IF comb[c].npc = f THEN None ELSE comb[c].npc
           h == IF comb[c].hero = folk[f].behind THEN None ELSE comb[c].hero
<1>1. comb[c] \in Combatants
  BY ThereIs DEF TrackerTypeOK, Sorts
<1>2. n \in Folk \cup {None} /\ h \in Heroes \cup {None}
  BY <1>1, RowFields
<1> DEFINE r == [comb[c] EXCEPT !.npc = n, !.hero = h]
<1>3. comb'[c] = r
  BY <1>1 DEF DeleteNpc
<1> HIDE DEF n, h
<1>4. /\ r \in Combatants
      /\ r.enc = comb[c].enc /\ r.kind = comb[c].kind /\ r.hero = h /\ r.npc = n
      /\ r.init = comb[c].init /\ r.mob = comb[c].mob /\ r.hp = comb[c].hp /\ r.pips = comb[c].pips
  BY <1>1, <1>2 DEF Combatants
<1> HIDE DEF r
<1>5. r # None
  BY <1>4, RowFields
<1> QED
  BY <1>1, <1>3, <1>4, <1>5 DEF There, n, h

LEMMA DeleteNpcType == ASSUME TrackerTypeOK, NEW f \in Folk, DeleteNpc(f) PROVE TrackerTypeOK'
<1>1. comb' \in [Rows -> Combatants \cup {None}]
  <2>1. \A c \in Rows : comb'[c] \in Combatants \cup {None}
    BY Bereft DEF DeleteNpc
  <2> QED
    BY <2>1 DEF DeleteNpc
<1>2. Sorts'
  BY <1>1 DEF DeleteNpc, TrackerTypeOK, Sorts
<1>3. \A c \in Rows : There(c)' => Refers(c)'
  <2> SUFFICES ASSUME NEW c \in Rows, There(c)' PROVE Refers(c)'
    OBVIOUS
  <2>1. There(c) /\ Refers(c)
    BY DEF TrackerTypeOK, DeleteNpc, There
  <2>2. comb[c].enc \in Encounters /\ comb[c].hero \in Heroes \cup {None} /\ comb[c].npc \in Folk \cup {None}
    BY <2>1, Bereft, RowFields
  <2>3. /\ comb'[c].enc = comb[c].enc
        /\ comb'[c].npc = IF comb[c].npc = f THEN None ELSE comb[c].npc
        /\ comb'[c].hero = IF comb[c].hero = folk[f].behind THEN None ELSE comb[c].hero
    BY <2>1, Bereft
  <2> QED
    BY <2>1, <2>2, <2>3 DEF Refers, DeleteNpc, TrackerTypeOK
<1>4. \A o \in Folk : HasBody(o)' => HasBody(o) /\ folk'[o] = folk[o] /\ o # f
  BY DEF TrackerTypeOK, DeleteNpc, HasBody
<1>5. \A o \in Folk : HasBody(o)' => sheet'[folk'[o].behind] # None
  BY <1>4 DEF TrackerTypeOK, DeleteNpc, HasBody
<1>6. \A g, o \in Folk : HasBody(g)' /\ HasBody(o)' /\ folk'[o].behind = folk'[g].behind => o = g
  BY <1>4 DEF TrackerTypeOK
<1> QED
  BY <1>2, <1>3, <1>5, <1>6 DEF TrackerTypeOK, Sorts
-----------------------------------------------------------------------------
(* What the tracker's own operations make of a row.                        *)

\* A row changes in nothing but its initiative.
ButInit(c) == /\ There(c) /\ comb'[c] \in Combatants
              /\ comb'[c].enc = comb[c].enc /\ comb'[c].kind = comb[c].kind
              /\ comb'[c].hero = comb[c].hero /\ comb'[c].npc = comb[c].npc
              /\ comb'[c].mob = comb[c].mob /\ comb'[c].hp = comb[c].hp /\ comb'[c].pips = comb[c].pips

\* The sheets and the Folk are left alone.
TrackerOnly == UNCHANGED <<sheet, folk>>

\* No fight begins or ends to exist.
SameFights == /\ fight' \in [Encounters -> {"none", "inactive", "active"}]
              /\ \A e \in Encounters : fight[e] # "none" => fight'[e] # "none"

LEMMA TrackerOnlyType ==
    ASSUME TrackerTypeOK, TrackerOnly, SameFights, Remain, comb' \in [Rows -> Combatants \cup {None}]
    PROVE  TrackerTypeOK'
<1>1. Sorts' /\ Stay
  BY DEF TrackerTypeOK, TrackerOnly, SameFights, Sorts, Stay, HasBody
<1> QED
  BY <1>1, StayType

LEMMA UnchangedFights == ASSUME TrackerTypeOK, UNCHANGED fight PROVE SameFights
    BY DEF TrackerTypeOK, SameFights

\* Initiative is given, row by row.
LEMMA RolledRows ==
    ASSUME TrackerTypeOK, NEW cs \in SUBSET Rows, NEW roll \in [Rows -> Rolls \cup {None}],
           \A c \in cs : There(c),
           comb' = [c \in Rows |-> IF c \in cs THEN [comb[c] EXCEPT !.init = roll[c]] ELSE comb[c]]
    PROVE  /\ comb' \in [Rows -> Combatants \cup {None}] /\ Remain
           /\ \A c \in Rows : There(c)' => /\ ButInit(c)
                                          /\ comb'[c].init = IF c \in cs THEN roll[c] ELSE comb[c].init
<1>1. \A c \in Rows : There(c) => comb[c] \in Combatants
  BY ThereIs DEF TrackerTypeOK, Sorts
<1>2. \A c \in cs : ButInit(c) /\ comb'[c].init = roll[c]
  <2> SUFFICES ASSUME NEW c \in cs PROVE ButInit(c) /\ comb'[c].init = roll[c]
    OBVIOUS
  <2>1. comb[c] \in Combatants /\ There(c) /\ roll[c] \in Rolls \cup {None} /\ c \in Rows
    BY <1>1
  <2> DEFINE row == [comb[c] EXCEPT !.init = roll[c]]
  <2>2. comb'[c] = row
    BY <2>1
  <2>3. /\ row \in Combatants /\ row.enc = comb[c].enc /\ row.kind = comb[c].kind
        /\ row.hero = comb[c].hero /\ row.npc = comb[c].npc /\ row.init = roll[c]
        /\ row.mob = comb[c].mob /\ row.hp = comb[c].hp /\ row.pips = comb[c].pips
    BY <2>1, InitRow
  <2> HIDE DEF row
  <2> QED
    BY <2>1, <2>2, <2>3 DEF ButInit
<1>3. \A c \in Rows \ cs : comb'[c] = comb[c]
  OBVIOUS
<1>4. \A c \in Rows : There(c)' => ButInit(c) /\ comb'[c].init = IF c \in cs THEN roll[c] ELSE comb[c].init
  BY <1>1, <1>2, <1>3, SMTT(30) DEF ButInit, There
<1>5. \A c \in Rows : comb'[c] \in Combatants \cup {None}
  BY <1>4 DEF ButInit, There
<1> QED
  BY <1>4, <1>5 DEF ButInit, Remain

LEMMA RollInitiativeRows ==
    ASSUME TrackerTypeOK, NEW e \in Encounters, RollInitiative(e)
    PROVE  /\ comb' \in [Rows -> Combatants \cup {None}] /\ Remain
           /\ \E roll \in [Rows -> Rolls] : \A c \in Rows : There(c)' =>
                 /\ ButInit(c)
                 /\ comb'[c].init = IF comb[c].enc = e /\ comb[c].mob # None THEN roll[comb[c].mob]
                                    ELSE comb[c].init
<1>1. PICK die \in [Rows -> Rolls] :
         comb' = [c \in Rows |-> IF There(c) /\ comb[c].enc = e /\ comb[c].mob # None
                                  THEN [comb[c] EXCEPT !.init = die[comb[c].mob]] ELSE comb[c]]
  BY DEF RollInitiative
<1> DEFINE cs == {c \in Rows : There(c) /\ comb[c].enc = e /\ comb[c].mob # None}
           roll == [c \in Rows |-> IF c \in cs THEN die[comb[c].mob] ELSE None]
<1>2. \A c \in cs : comb[c].mob \in Rows
  BY ThereIs, RowFields DEF TrackerTypeOK, Sorts
<1>3. roll \in [Rows -> Rolls \cup {None}] /\ cs \in SUBSET Rows /\ \A c \in cs : There(c)
  BY <1>2
<1>4. comb' = [c \in Rows |-> IF c \in cs THEN [comb[c] EXCEPT !.init = roll[c]] ELSE comb[c]]
  BY <1>1
<1>5. \A c \in cs : roll[c] = die[comb[c].mob]
  OBVIOUS
<1> HIDE DEF roll, cs
<1>6. /\ comb' \in [Rows -> Combatants \cup {None}] /\ Remain
      /\ \A c \in Rows : There(c)' => /\ ButInit(c)
                                     /\ comb'[c].init = IF c \in cs THEN roll[c] ELSE comb[c].init
  BY <1>3, <1>4, RolledRows
<1> QED
  BY <1>5, <1>6 DEF ButInit, cs

LEMMA RollCombatantRows ==
    ASSUME TrackerTypeOK, NEW c \in Rows, RollCombatantInitiative(c)
    PROVE  /\ comb' \in [Rows -> Combatants \cup {None}] /\ Remain
           /\ \E die \in Rolls : \A o \in Rows : There(o)' =>
                 /\ ButInit(o)
                 /\ comb'[o].init = IF o \in Mob(c) THEN die ELSE comb[o].init
<1>1. PICK die \in Rolls : comb' = SetGroupInitiative(comb, c, die)
  BY DEF RollCombatantInitiative
<1> DEFINE roll == [o \in Rows |-> die]
<1>2. roll \in [Rows -> Rolls \cup {None}] /\ Mob(c) \in SUBSET Rows /\ \A o \in Mob(c) : There(o)
  BY DEF Mob
<1>3. comb' = [o \in Rows |-> IF o \in Mob(c) THEN [comb[o] EXCEPT !.init = roll[o]] ELSE comb[o]]
  BY <1>1 DEF SetGroupInitiative
<1>4. \A o \in Mob(c) : roll[o] = die
  BY <1>2
<1> HIDE DEF roll
<1>5. /\ comb' \in [Rows -> Combatants \cup {None}] /\ Remain
      /\ \A o \in Rows : There(o)' => /\ ButInit(o)
                                     /\ comb'[o].init = IF o \in Mob(c) THEN roll[o] ELSE comb[o].init
  BY <1>2, <1>3, RolledRows
<1> QED
  BY <1>4, <1>5

\* An edit touches the hit points and pips of one row, the roll of its mob.
LEMMA UpdateCombatantRows ==
    ASSUME TrackerTypeOK, NEW c \in Rows, NEW hp \in Points, NEW init \in Rolls \cup {None},
           NEW pips \in 0..MaxPips \cup {None}, UpdateCombatant(c, hp, init, pips)
    PROVE  /\ comb' \in [Rows -> Combatants \cup {None}] /\ Remain /\ There(c)
           /\ \A o \in Rows : There(o)' =>
                 /\ comb'[o].mob = comb[o].mob
                 /\ comb'[o].init = IF init # None /\ o \in Mob(c) THEN init ELSE comb[o].init
                 /\ comb'[o].hp = IF o = c THEN hp ELSE comb[o].hp
                 /\ comb'[o].pips = IF o # c THEN comb[o].pips
                                    ELSE IF pips # None THEN pips
                                    ELSE IF hp.cur > 0 THEN 0 ELSE comb[o].pips
<1> DEFINE own == [comb EXCEPT ![c] = Edited(@, hp, pips)]
<1>1. There(c) /\ comb[c] \in Combatants
  BY ThereIs DEF UpdateCombatant, TrackerTypeOK, Sorts
<1>2. /\ own \in [Rows -> Combatants \cup {None}]
      /\ \A o \in Rows : own[o] # None => own[o] \in Combatants
      /\ \A o \in Rows : own[o] # None =>
            /\ There(o) /\ own[o].enc = comb[o].enc /\ own[o].kind = comb[o].kind
            /\ own[o].hero = comb[o].hero /\ own[o].npc = comb[o].npc
            /\ own[o].mob = comb[o].mob /\ own[o].init = comb[o].init
            /\ own[o].hp = IF o = c THEN hp ELSE comb[o].hp
            /\ own[o].pips = IF o # c THEN comb[o].pips
                             ELSE IF pips # None THEN pips
                             ELSE IF hp.cur > 0 THEN 0 ELSE comb[o].pips
      /\ \A o \in Rows : There(o) => own[o] # None
  <2>1. own[c] = Edited(comb[c], hp, pips) /\ \A o \in Rows : o # c => own[o] = comb[o]
    BY DEF TrackerTypeOK
  <2>2. own[c] \in Combatants /\ own[c] # None
    BY <1>1, <2>1, EditedRow, RowFields
  <2>3. /\ own[c].enc = comb[c].enc /\ own[c].kind = comb[c].kind
        /\ own[c].hero = comb[c].hero /\ own[c].npc = comb[c].npc
        /\ own[c].init = comb[c].init /\ own[c].mob = comb[c].mob
        /\ own[c].hp = hp
        /\ own[c].pips = IF pips = None THEN IF hp.cur > 0 THEN 0 ELSE comb[c].pips ELSE pips
    BY <1>1, <2>1, EditedRow
  <2>4. own = [o \in Rows |-> own[o]]
    BY DEF TrackerTypeOK
  <2> HIDE DEF own
  <2>5. \A o \in Rows : own[o] \in Combatants \cup {None}
    BY <2>1, <2>2 DEF TrackerTypeOK
  <2> QED
    BY <1>1, <2>1, <2>2, <2>3, <2>4, <2>5 DEF There
<1> HIDE DEF own
<1>3. CASE init = None
  <2>1. comb' = own
    BY <1>3 DEF UpdateCombatant, own
  <2> QED
    BY <1>1, <1>2, <1>3, <2>1 DEF Remain, There
<1>4. CASE init # None
  <2>1. comb' = [o \in Rows |-> IF o \in Mob(c) THEN [own[o] EXCEPT !.init = init] ELSE own[o]]
    BY <1>4 DEF UpdateCombatant, SetGroupInitiative, own
  <2>2. \A o \in Mob(c) : own[o] \in Combatants
    BY <1>2 DEF Mob
  <2>3. \A o \in Mob(c) : /\ comb'[o] \in Combatants
          /\ comb'[o].enc = own[o].enc /\ comb'[o].kind = own[o].kind
          /\ comb'[o].hero = own[o].hero /\ comb'[o].npc = own[o].npc
          /\ comb'[o].init = init /\ comb'[o].mob = own[o].mob
          /\ comb'[o].hp = own[o].hp /\ comb'[o].pips = own[o].pips
    BY <2>1, <2>2, InitRow DEF Mob
  <2>4. \A o \in Rows : o \notin Mob(c) => comb'[o] = own[o]
    BY <2>1
  <2>5. comb' \in [Rows -> Combatants \cup {None}]
    BY <1>2, <2>1, <2>3, <2>4
  <2>6. \A o \in Rows : There(o)' => own[o] # None
    BY <2>2, <2>4, RowFields DEF There
  <2> QED
    BY <1>1, <1>2, <1>4, <2>3, <2>4, <2>5, <2>6 DEF Remain, There
<1> QED
  BY <1>3, <1>4
\* A sheet that is written takes its running rows along, and leaves the others.
LEMMA HeroGetsRows ==
    ASSUME TrackerTypeOK, NEW h \in Heroes, NEW hp \in Points, HeroGets(h, hp)
    PROVE  \A c \in Rows : There(c)' =>
              /\ comb'[c].mob = comb[c].mob /\ comb'[c].init = comb[c].init
              /\ comb'[c].hp = IF Follows(c, h) THEN hp ELSE comb[c].hp
              /\ comb'[c].pips = comb[c].pips
                 \/ (comb'[c].pips = IF hp.cur > 0 THEN 0 ELSE comb[c].pips)
              /\ comb'[c].pips = comb[c].pips => comb'[c].hp = comb[c].hp \/ hp.cur <= 0 \/ comb'[c].pips = 0
<1> SUFFICES ASSUME NEW c \in Rows, There(c)'
             PROVE  /\ comb'[c].mob = comb[c].mob /\ comb'[c].init = comb[c].init
                    /\ comb'[c].hp = IF Follows(c, h) THEN hp ELSE comb[c].hp
                    /\ comb'[c].pips = comb[c].pips
                       \/ (comb'[c].pips = IF hp.cur > 0 THEN 0 ELSE comb[c].pips)
                    /\ comb'[c].pips = comb[c].pips =>
                          comb'[c].hp = comb[c].hp \/ hp.cur <= 0 \/ comb'[c].pips = 0
  OBVIOUS
<1>1. There(c) /\ comb[c] \in Combatants
  BY HeroGetsType, ThereIs DEF Remain, TrackerTypeOK, Sorts
<1>2. comb'[c] = IF Follows(c, h) /\ comb[c].hp # hp THEN WithHp(comb[c], hp) ELSE comb[c]
  BY DEF HeroGets
<1>3. hp.cur \in Int
  BY PointFields
<1> QED
  BY <1>1, <1>2, <1>3, WithHpRow

\* What a new combatant is.
LEMMA NewRow ==
    ASSUME NEW e \in Encounters, NEW kind \in {"pc", "ally", "monster"}, NEW h \in Heroes \cup {None},
           NEW f \in Folk \cup {None}, NEW hp \in Points, NEW mob \in Rows \cup {None}
    PROVE  LET row == Combatant(e, kind, h, f, hp, mob)
           IN  /\ row \in Combatants /\ row # None
               /\ row.enc = e /\ row.kind = kind /\ row.hero = h /\ row.npc = f
               /\ row.hp = hp /\ row.init = None /\ row.mob = mob /\ row.pips = 0
<1>1. Combatant(e, kind, h, f, hp, mob) \in Combatants
  BY TrackerOK DEF Combatant, Combatants
<1> QED
  BY <1>1, RowFields DEF Combatant

\* An arrival that refers to what is there.
LEMMA ArrivesType ==
    ASSUME TrackerTypeOK, NEW cs \in SUBSET Rows, NEW row \in Combatants, Arrives(cs, row),
           fight[row.enc] # "none", row.hero # None => sheet[row.hero] # None,
           row.npc # None => folk[row.npc] # None
    PROVE  /\ TrackerTypeOK' /\ UNCHANGED <<sheet, folk, fight>>
           /\ \A c \in cs : comb'[c] = row /\ ~There(c)
           /\ \A c \in Rows \ cs : comb'[c] = comb[c]
<1>1. /\ \A c \in cs : comb'[c] = row /\ ~There(c)
      /\ \A c \in Rows \ cs : comb'[c] = comb[c]
  BY DEF Arrives
<1>2. UNCHANGED <<sheet, folk, fight>> /\ comb' \in [Rows -> Combatants \cup {None}]
  BY DEF Arrives, TrackerTypeOK
<1>3. \A c \in Rows : There(c)' => Refers(c)'
  BY <1>1, <1>2 DEF TrackerTypeOK, Refers, There
<1> QED
  BY <1>1, <1>2, <1>3 DEF TrackerTypeOK, HasBody

LEMMA AddHeroRow ==
    ASSUME TrackerTypeOK, NEW c \in Rows, NEW e \in Encounters, NEW h \in Heroes, AddHero(c, e, h)
    PROVE  \E row \in Combatants :
              /\ row.kind = "pc" /\ row.hero = h /\ row.npc = None /\ row.hp = sheet[h]
              /\ row.mob = None /\ row.pips = 0
              /\ TrackerTypeOK' /\ UNCHANGED <<sheet, folk, fight>>
              /\ comb'[c] = row /\ ~There(c) /\ \A o \in Rows : o # c => comb'[o] = comb[o]
<1> DEFINE row == Combatant(e, "pc", h, None, sheet[h], None)
<1>1. sheet[h] \in Points /\ sheet[h] # None /\ fight[e] # "none" /\ Arrives({c}, row) /\ h # None
  BY TrackerOK DEF AddHero, TrackerTypeOK
<1>2. /\ row \in Combatants /\ row.enc = e /\ row.kind = "pc" /\ row.hero = h /\ row.npc = None
      /\ row.hp = sheet[h] /\ row.mob = None /\ row.pips = 0
  BY <1>1, NewRow
<1> HIDE DEF row
<1>3. {c} \in SUBSET Rows /\ fight[row.enc] # "none" /\ sheet[row.hero] # None
  BY <1>1, <1>2
<1>4. /\ TrackerTypeOK' /\ UNCHANGED <<sheet, folk, fight>> /\ comb'[c] = row /\ ~There(c)
      /\ \A o \in Rows : o # c => comb'[o] = comb[o]
  BY <1>1, <1>2, <1>3, ArrivesType
<1> QED
  BY <1>2, <1>4

LEMMA AddAllyRow ==
    ASSUME TrackerTypeOK, NEW c \in Rows, NEW e \in Encounters, NEW f \in Folk, AddAlly(c, e, f)
    PROVE  \E row \in Combatants :
              /\ row.kind = "ally" /\ row.hero = (IF HasBody(f) THEN folk[f].behind ELSE None)
              /\ row.npc = f /\ row.hp = AllyHp(f) /\ row.mob = None /\ row.pips = 0
              /\ TrackerTypeOK' /\ UNCHANGED <<sheet, folk, fight>>
              /\ comb'[c] = row /\ ~There(c) /\ \A o \in Rows : o # c => comb'[o] = comb[o]
<1> DEFINE h == IF HasBody(f) THEN folk[f].behind ELSE None
           row == Combatant(e, "ally", h, f, AllyHp(f), None)
<1>1. AllyHp(f) \in Points /\ folk[f] # None /\ fight[e] # "none" /\ Arrives({c}, row)
  BY DEF AddAlly, Stands
<1>2. h \in Heroes \cup {None} /\ (h # None => sheet[h] # None)
  BY DEF HasBody, TrackerTypeOK
<1>3. h = IF HasBody(f) THEN folk[f].behind ELSE None
  OBVIOUS
<1> HIDE DEF h
<1>4. /\ row \in Combatants /\ row.enc = e /\ row.kind = "ally" /\ row.hero = h /\ row.npc = f
      /\ row.hp = AllyHp(f) /\ row.mob = None /\ row.pips = 0
  BY <1>1, <1>2, NewRow
<1> HIDE DEF row
<1>5. {c} \in SUBSET Rows /\ fight[row.enc] # "none" /\ (row.hero # None => sheet[row.hero] # None)
  BY <1>1, <1>2, <1>4
<1>6. /\ TrackerTypeOK' /\ UNCHANGED <<sheet, folk, fight>> /\ comb'[c] = row /\ ~There(c)
      /\ \A o \in Rows : o # c => comb'[o] = comb[o]
  BY <1>1, <1>4, <1>5, ArrivesType
<1> QED
  BY <1>3, <1>4, <1>6

LEMMA AddMonstersRows ==
    ASSUME TrackerTypeOK, NEW cs \in SUBSET Rows, NEW e \in Encounters, NEW hp \in Points,
           AddMonsters(cs, e, hp)
    PROVE  \E row \in Combatants :
              /\ row.kind = "monster" /\ row.npc = None /\ row.init = None /\ row.pips = 0
              /\ row.mob # None => \A c \in Rows : There(c) => comb[c].mob # row.mob
              /\ TrackerTypeOK' /\ UNCHANGED <<sheet, folk, fight>>
              /\ \A c \in cs : comb'[c] = row /\ ~There(c)
              /\ \A c \in Rows \ cs : comb'[c] = comb[c]
<1>1. PICK g \in Rows \cup {None} :
         /\ g # None => \A c \in Rows : There(c) => comb[c].mob # g
         /\ Arrives(cs, Combatant(e, "monster", None, None, hp, g))
  BY DEF AddMonsters
<1> DEFINE row == Combatant(e, "monster", None, None, hp, g)
<1>2. /\ row \in Combatants /\ row.enc = e /\ row.kind = "monster" /\ row.hero = None /\ row.npc = None
      /\ row.init = None /\ row.mob = g /\ row.pips = 0
  BY NewRow
<1>3. Arrives(cs, row) /\ fight[e] # "none"
  BY <1>1 DEF AddMonsters
<1> HIDE DEF row
<1> QED
  BY <1>1, <1>2, <1>3, ArrivesType

\* Rows that go.
LEMMA GoneRows ==
    ASSUME TrackerTypeOK, \A c \in Rows : comb'[c] = comb[c] \/ comb'[c] = None,
           comb' = [c \in Rows |-> comb'[c]]
    PROVE  comb' \in [Rows -> Combatants \cup {None}] /\ Remain
  BY DEF TrackerTypeOK, Remain, There

\* Fights stood down.
LEMMA StoodDownRows ==
    ASSUME TrackerTypeOK, NEW es \in SUBSET Encounters, StoodDown(es), \A e \in es : fight[e] # "none"
    PROVE  /\ TrackerTypeOK' /\ TrackerOnly
           /\ \A c \in Rows : There(c)' =>
                 /\ ButInit(c)
                 /\ comb'[c].init = IF comb[c].enc \in es THEN None ELSE comb[c].init
                 /\ comb[c].enc \in es => ~Running(c)'
<1>1. \A c \in Rows : There(c)' =>
         /\ ButInit(c)
         /\ comb'[c].init = IF comb[c].enc \in es THEN None ELSE comb[c].init
  <2> SUFFICES ASSUME NEW c \in Rows, There(c)'
               PROVE  /\ ButInit(c)
                      /\ comb'[c].init = IF comb[c].enc \in es THEN None ELSE comb[c].init
    OBVIOUS
  <2>1. There(c) /\ comb[c] \in Combatants
    BY ThereIs DEF StoodDown, There, TrackerTypeOK, Sorts
  <2>2. CASE comb[c].enc \in es
    <3>1. comb'[c] = [comb[c] EXCEPT !.init = None]
      BY <2>1, <2>2 DEF StoodDown, There
    <3> QED
      BY <2>1, <2>2, <3>1, InitRow DEF ButInit
  <2>3. CASE comb[c].enc \notin es
    <3>1. comb'[c] = comb[c]
      BY <2>1, <2>3 DEF StoodDown, There
    <3> QED
      BY <2>1, <2>3, <3>1 DEF ButInit
  <2> QED
    BY <2>2, <2>3
<1>2. \A c \in Rows : There(c)' /\ comb[c].enc \in es => ~Running(c)'
  BY <1>1 DEF ButInit, Running, StoodDown
<1>3. comb' \in [Rows -> Combatants \cup {None}] /\ Remain
  <2>1. \A c \in Rows : comb'[c] \in Combatants \cup {None}
    BY <1>1 DEF ButInit, There
  <2> QED
    BY <1>1, <2>1 DEF StoodDown, ButInit, Remain
<1>4. SameFights /\ TrackerOnly
  BY DEF StoodDown, SameFights, TrackerOnly, TrackerTypeOK
<1> QED
  BY <1>1, <1>2, <1>3, <1>4, TrackerOnlyType
\* The rows that are there are those that were, with their mobs, rolls, hit points and pips,
\* and perhaps looser ties.
Loosened ==
    \A c \in Rows : There(c)' =>
        /\ There(c)
        /\ comb'[c].enc = comb[c].enc /\ comb'[c].kind = comb[c].kind
        /\ comb'[c].mob = comb[c].mob /\ comb'[c].init = comb[c].init
        /\ comb'[c].hp = comb[c].hp /\ comb'[c].pips = comb[c].pips
        /\ comb'[c].hero = comb[c].hero \/ comb'[c].hero = None
        /\ comb'[c].npc = comb[c].npc \/ comb'[c].npc = None

LEMMA SameLoosened == ASSUME UNCHANGED comb PROVE Loosened
    BY DEF Loosened, There

LEMMA StrickenLoosened == ASSUME TrackerTypeOK, NEW h \in Heroes, Stricken(h) PROVE Loosened
<1> SUFFICES ASSUME NEW c \in Rows, There(c)'
             PROVE  /\ There(c)
                    /\ comb'[c].enc = comb[c].enc /\ comb'[c].kind = comb[c].kind
                    /\ comb'[c].mob = comb[c].mob /\ comb'[c].init = comb[c].init
                    /\ comb'[c].hp = comb[c].hp /\ comb'[c].pips = comb[c].pips
                    /\ comb'[c].hero = comb[c].hero \/ comb'[c].hero = None
                    /\ comb'[c].npc = comb[c].npc \/ comb'[c].npc = None
  BY DEF Loosened
<1>1. There(c) /\ comb[c] \in Combatants
  BY ThereIs DEF Stricken, There, TrackerTypeOK, Sorts
<1>2. comb'[c] = comb[c] \/ comb'[c] = [comb[c] EXCEPT !.hero = None]
  BY DEF Stricken
<1> QED
  BY <1>1, <1>2, HerolessRow

LEMMA GoneLoosened ==
    ASSUME \A c \in Rows : comb'[c] = comb[c] \/ comb'[c] = None PROVE Loosened
    BY DEF Loosened, There

\* The sheets and the Folk: a sheet is written with its rows, or the rows are only loosened.
LEMMA SheetStep ==
    ASSUME TrackerTypeOK, SheetNext
    PROVE  TrackerTypeOK' /\ (Loosened \/ \E h \in Heroes, hp \in Points : HeroGets(h, hp))
<1>1. CASE \E h \in Heroes, hp \in Points : CreateCharacter(h, hp) \/ LevelUpCharacter(h, hp)
  BY <1>1, LevelUpType, SameLoosened DEF CreateCharacter, LevelUpCharacter
<1>2. CASE \E h \in Heroes, hp \in Points : UpdateCharacter(h, hp) \/ RestCharacter(h, hp)
  BY <1>2, HeroGetsType DEF UpdateCharacter, RestCharacter
<1>3. CASE \E h \in Heroes : DeleteCharacter(h)
  BY <1>3, DeleteCharacterType, StrickenLoosened DEF DeleteCharacter
<1>12. CASE \E h \in Heroes : ChangeKit(h)
  <2>1. PICK h \in Heroes : ChangeKit(h)
    BY <1>12
  <2>2. sheet[h] \in Points /\ HeroGets(h, sheet[h])
    BY <2>1 DEF ChangeKit, TrackerTypeOK
  <2> QED
    BY <2>2, HeroGetsType
<1>4. CASE \E f \in Folk, b \in {StatBlock, Nothing} : CreateNpc(f, b)
  BY <1>4, CreateNpcType, SameLoosened DEF CreateNpc
<1>5. CASE \E f \in Folk, b \in {StatBlock, Nothing} : UpdateNpc(f, b)
  <2>1. PICK f \in Folk, b \in {StatBlock, Nothing} : UpdateNpc(f, b)
    BY <1>5
  <2>2. TrackerTypeOK'
    BY <2>1, UpdateNpcType
  <2>3. Loosened
    BY <2>1, StrickenLoosened, SameLoosened DEF UpdateNpc, HasBody
  <2> QED
    BY <2>2, <2>3
<1>6. CASE \E f \in Folk, h \in Heroes, hp \in Points : ForgeNpcBody(f, h, hp)
  BY <1>6, ForgeNpcBodyType, SameLoosened DEF ForgeNpcBody
<1>7. CASE \E f \in Folk, n \in Currents : SetNpcHp(f, n)
  BY <1>7, SetNpcHpType, SameLoosened DEF SetNpcHp
<1>8. CASE \E f \in Folk : DeleteNpc(f)
  <2>1. PICK f \in Folk : DeleteNpc(f)
    BY <1>8
  <2>2. \A c \in Rows : There(c)' => There(c)
    BY <2>1 DEF DeleteNpc, There
  <2>3. Loosened
    BY <2>1, <2>2, Bereft DEF Loosened
  <2> QED
    BY <2>1, <2>3, DeleteNpcType
<1>9. CASE \E f \in Folk, b \in BOOLEAN : SetNpcTravel(f, b)
  BY <1>9, SetNpcTravelType, SameLoosened DEF SetNpcTravel
<1> QED
  BY <1>1, <1>2, <1>3, <1>4, <1>5, <1>6, <1>7, <1>8, <1>9, <1>12 DEF SheetNext

\* A fight prepared, triggered or struck; combatants deleted.
LEMMA ClearedType ==
    ASSUME TrackerTypeOK,
           \/ \E e \in Encounters : CreateEncounter(e) \/ DeleteEncounter(e) \/ Trigger(e)
           \/ \E c \in Rows : DeleteCombatant(c) \/ DeleteCombatantGroup(c)
    PROVE  TrackerTypeOK' /\ Loosened /\ TrackerOnly /\ \A c \in Rows : There(c)' => comb'[c] = comb[c]
<1>1. CASE \E e \in Encounters : CreateEncounter(e) \/ Trigger(e)
  <2>1. SameFights /\ TrackerOnly /\ UNCHANGED comb
    BY <1>1 DEF CreateEncounter, Trigger, SameFights, TrackerOnly, TrackerTypeOK
  <2>2. comb' \in [Rows -> Combatants \cup {None}]
    BY <2>1 DEF TrackerTypeOK
  <2> QED
    BY <2>1, <2>2, SameRemain, SameLoosened, TrackerOnlyType
<1>2. CASE \E e \in Encounters : DeleteEncounter(e)
  <2>1. PICK e \in Encounters : DeleteEncounter(e)
    BY <1>2
  <2>2. /\ \A c \in Rows : comb'[c] = comb[c] \/ comb'[c] = None
        /\ comb' = [c \in Rows |-> comb'[c]] /\ TrackerOnly
        /\ fight' \in [Encounters -> {"none", "inactive", "active"}]
    BY <2>1 DEF DeleteEncounter, Emptied, TrackerOnly, TrackerTypeOK
  <2>3. comb' \in [Rows -> Combatants \cup {None}] /\ Loosened
    BY <2>2, GoneRows, GoneLoosened
  <2>4. \A c \in Rows : There(c)' => comb'[c] = comb[c] /\ There(c) /\ comb[c].enc # e
    BY <2>1 DEF DeleteEncounter, Emptied, There
  <2>5. \A c \in Rows : There(c)' => comb[c].enc \in Encounters
    BY <2>4, ThereIs, RowFields DEF TrackerTypeOK, Sorts
  <2>6. \A c \in Rows : There(c)' => Refers(c)'
    BY <2>1, <2>4, <2>5 DEF DeleteEncounter, TrackerTypeOK, Refers
  <2> QED
    BY <2>2, <2>3, <2>4, <2>6 DEF TrackerTypeOK, TrackerOnly, HasBody
<1>3. CASE \E c \in Rows : DeleteCombatant(c) \/ DeleteCombatantGroup(c)
  <2>1. /\ \A c \in Rows : comb'[c] = comb[c] \/ comb'[c] = None
        /\ comb' = [c \in Rows |-> comb'[c]] /\ TrackerOnly /\ UNCHANGED fight
    BY <1>3 DEF DeleteCombatant, DeleteCombatantGroup, DeleteCombatants, TrackerOnly
  <2> QED
    BY <2>1, GoneRows, GoneLoosened, UnchangedFights, TrackerOnlyType DEF There
<1> QED
  BY <1>1, <1>2, <1>3

\* The tracker's own steps, one by one.
LEMMA FightStep == ASSUME TrackerTypeOK, FightNext PROVE TrackerTypeOK'
<1>1. CASE \/ \E e \in Encounters : CreateEncounter(e) \/ DeleteEncounter(e) \/ Trigger(e)
           \/ \E c \in Rows : DeleteCombatant(c) \/ DeleteCombatantGroup(c)
  BY <1>1, ClearedType
<1>2. CASE \E e \in Encounters : RollInitiative(e)
  BY <1>2, RollInitiativeRows, UnchangedFights, TrackerOnlyType DEF RollInitiative, TrackerOnly
<1>3. CASE \E c \in Rows : RollCombatantInitiative(c)
  BY <1>3, RollCombatantRows, UnchangedFights, TrackerOnlyType DEF RollCombatantInitiative, TrackerOnly
<1>4. CASE \E c \in Rows, e \in Encounters, h \in Heroes : AddHero(c, e, h)
  BY <1>4, AddHeroRow
<1>5. CASE \E c \in Rows, e \in Encounters, f \in Folk : AddAlly(c, e, f)
  BY <1>5, AddAllyRow
<1>6. CASE \E cs \in SUBSET Rows, e \in Encounters, hp \in Points : AddMonsters(cs, e, hp)
  BY <1>6, AddMonstersRows
<1>7. CASE \E c \in Rows, hp \in Points, init \in Rolls \cup {None}, pips \in 0..MaxPips \cup {None} :
              UpdateCombatant(c, hp, init, pips)
  <2>1. PICK c \in Rows, hp \in Points, init \in Rolls \cup {None}, pips \in 0..MaxPips \cup {None} :
           UpdateCombatant(c, hp, init, pips)
    BY <1>7
  <2>2. comb' \in [Rows -> Combatants \cup {None}] /\ Remain /\ There(c)
    BY <2>1, UpdateCombatantRows
  <2>3. comb[c] \in Combatants
    BY <2>2, ThereIs DEF TrackerTypeOK, Sorts
  <2>4. \/ UNCHANGED sheet
        \/ comb[c].hero \in Heroes /\ sheet[comb[c].hero] # None /\ sheet' = [sheet EXCEPT ![comb[c].hero] = hp]
    BY <2>1, <2>3, RowFields DEF UpdateCombatant, MirrorsHome, SheetGets
  <2>5. \/ UNCHANGED folk
        \/ comb[c].npc \in Folk /\ folk' = [folk EXCEPT ![comb[c].npc] = [folk[comb[c].npc] EXCEPT !.cur = hp.cur]]
    BY <2>1, <2>3, RowFields DEF UpdateCombatant, MirrorsHome
  <2>6. sheet' \in [Heroes -> Points \cup {None}] /\ \A h \in Heroes : sheet[h] # None => sheet'[h] # None
    BY <2>4, PointFields DEF TrackerTypeOK
  <2>7. /\ folk' \in [Folk -> People \cup {None}] /\ \A f \in Folk : folk[f] # None => folk'[f] # None
        /\ \A f \in Folk : HasBody(f)' => HasBody(f) /\ folk'[f].behind = folk[f].behind
    <3>1. CASE UNCHANGED folk
      BY <3>1 DEF TrackerTypeOK, HasBody
    <3>2. CASE comb[c].npc \in Folk
               /\ folk' = [folk EXCEPT ![comb[c].npc] = [folk[comb[c].npc] EXCEPT !.cur = hp.cur]]
      <4> DEFINE f == comb[c].npc
                 p == [folk[f] EXCEPT !.cur = hp.cur]
      <4>1. folk[f] \in People /\ hp.cur \in Currents
        BY <2>2, <3>2, PointFields, TrackerOK DEF TrackerTypeOK, Refers
      <4>2. p \in People /\ p.behind = folk[f].behind /\ p # None /\ folk[f] # None
        BY <4>1, PersonHurt, PersonFields
      <4>3. folk' = [folk EXCEPT ![f] = p] /\ f \in Folk
        BY <3>2
      <4> HIDE DEF p, f
      <4> QED
        BY <4>2, <4>3 DEF TrackerTypeOK, HasBody
    <3> QED
      BY <2>5, <3>1, <3>2
  <2>8. Sorts' /\ Stay
    BY <2>1, <2>2, <2>6, <2>7 DEF UpdateCombatant, TrackerTypeOK, Sorts, Stay
  <2> QED
    BY <2>2, <2>8, StayType
<1>8. CASE (\E e \in Encounters : StandDown(e)) \/ StandDownEncounters
  BY <1>8, StoodDownRows DEF StandDown, StandDownEncounters
<1> QED
  BY <1>1, <1>2, <1>3, <1>4, <1>5, <1>6, <1>7, <1>8 DEF FightNext

\* The tables of fights, sheets and Folk keep their type, and nothing they hold refers to what
\* is gone.
THEOREM TrackerTypeCorrect == TrackerSpec => []TrackerTypeOK
<1>1. TrackerInit => TrackerTypeOK
  BY DEF TrackerInit, TrackerTypeOK, HasBody, There
<1>2. TrackerTypeOK /\ [TrackerNext]_trackerVars => TrackerTypeOK'
  <2>1. ASSUME TrackerTypeOK, UNCHANGED trackerVars PROVE TrackerTypeOK'
    BY <2>1 DEF trackerVars, TrackerTypeOK, HasBody, There, Refers
  <2> QED
    BY <2>1, SheetStep, FightStep DEF TrackerNext
<1> QED
  BY <1>1, <1>2, PTL DEF TrackerSpec
-----------------------------------------------------------------------------
(* Pips and mobs.                                                          *)

\* The steps of the tracker that Loosened does not cover, by what they make of the rows.
LEMMA FightCases ==
    ASSUME FightNext, TrackerTypeOK
    PROVE  \/ Loosened
           \/ \E e \in Encounters : RollInitiative(e)
           \/ \E c \in Rows : RollCombatantInitiative(c)
           \/ \E c \in Rows, e \in Encounters, h \in Heroes : AddHero(c, e, h)
           \/ \E c \in Rows, e \in Encounters, f \in Folk : AddAlly(c, e, f)
           \/ \E cs \in SUBSET Rows, e \in Encounters, hp \in Points : AddMonsters(cs, e, hp)
           \/ \E c \in Rows, hp \in Points, init \in Rolls \cup {None}, pips \in 0..MaxPips \cup {None} :
                 UpdateCombatant(c, hp, init, pips)
           \/ \E es \in SUBSET Encounters : StoodDown(es) /\ \A e \in es : fight[e] # "none"
<1>1. CASE \/ \E e \in Encounters : CreateEncounter(e) \/ DeleteEncounter(e) \/ Trigger(e)
           \/ \E c \in Rows : DeleteCombatant(c) \/ DeleteCombatantGroup(c)
  BY <1>1, ClearedType
<1>2. CASE \E e \in Encounters : StandDown(e)
  <2>1. PICK e \in Encounters : fight[e] = "active" /\ StoodDown({e})
    BY <1>2 DEF StandDown
  <2>2. {e} \in SUBSET Encounters /\ \A x \in {e} : fight[x] # "none"
    BY <2>1
  <2> QED
    BY <2>1, <2>2
<1>3. CASE StandDownEncounters
  <2> DEFINE es == {e \in Encounters : fight[e] = "active"}
  <2>1. es \in SUBSET Encounters /\ \A x \in es : fight[x] # "none"
    OBVIOUS
  <2> QED
    BY <1>3, <2>1 DEF StandDownEncounters
<1> QED
  BY <1>1, <1>2, <1>3 DEF FightNext

LEMMA LoosenedPips == ASSUME PipsOnFloor, Loosened PROVE PipsOnFloor'
    BY DEF PipsOnFloor, Loosened

LEMMA PipsStep == ASSUME TrackerTypeOK, PipsOnFloor, TrackerNext PROVE PipsOnFloor'
<1>1. CASE \E h \in Heroes, hp \in Points : HeroGets(h, hp)
  <2>1. PICK h \in Heroes, hp \in Points : HeroGets(h, hp)
    BY <1>1
  <2> SUFFICES ASSUME NEW c \in Rows, There(c)', comb'[c].pips > 0
               PROVE  comb'[c].kind = "pc" /\ comb'[c].hp.cur <= 0
    BY DEF PipsOnFloor
  <2>2. There(c) /\ comb'[c].kind = comb[c].kind
    BY <2>1, HeroGetsType DEF Remain
  <2>3. hp.cur \in Int
    BY PointFields
  <2>4. /\ comb'[c].hp = hp \/ comb'[c].hp = comb[c].hp
        /\ comb'[c].pips = comb[c].pips \/ (comb'[c].pips = IF hp.cur > 0 THEN 0 ELSE comb[c].pips)
        /\ comb'[c].pips = comb[c].pips => comb'[c].hp = comb[c].hp \/ hp.cur <= 0 \/ comb'[c].pips = 0
    BY <2>1, HeroGetsRows
  <2>5. comb'[c].pips = comb[c].pips
    BY <2>3, <2>4
  <2>6. comb[c].kind = "pc" /\ comb[c].hp.cur <= 0
    BY <2>2, <2>5 DEF PipsOnFloor
  <2> QED
    BY <2>2, <2>4, <2>5, <2>6
<1>2. CASE Loosened
  BY <1>2, LoosenedPips
<1>3. CASE \A c \in Rows : There(c)' => ButInit(c)
  BY <1>3 DEF PipsOnFloor, ButInit
<1>4. CASE \E cs \in SUBSET Rows, row \in Combatants :
              row.pips = 0 /\ \A c \in Rows : comb'[c] = comb[c] \/ comb'[c] = row
  BY <1>4 DEF PipsOnFloor, There
<1>5. CASE \E c \in Rows, hp \in Points, init \in Rolls \cup {None}, pips \in 0..MaxPips \cup {None} :
              UpdateCombatant(c, hp, init, pips)
  <2>1. PICK c \in Rows, hp \in Points, init \in Rolls \cup {None}, pips \in 0..MaxPips \cup {None} :
           UpdateCombatant(c, hp, init, pips)
    BY <1>5
  <2> SUFFICES ASSUME NEW o \in Rows, There(o)', comb'[o].pips > 0
               PROVE  comb'[o].kind = "pc" /\ comb'[o].hp.cur <= 0
    BY DEF PipsOnFloor
  <2>2. There(o) /\ comb'[o].kind = comb[o].kind
    BY <2>1, UpdateCombatantRows DEF Remain
  <2>3. /\ comb'[o].hp = IF o = c THEN hp ELSE comb[o].hp
        /\ comb'[o].pips = IF o # c THEN comb[o].pips
                           ELSE IF pips # None THEN pips
                           ELSE IF hp.cur > 0 THEN 0 ELSE comb[o].pips
    BY <2>1, UpdateCombatantRows
  <2>4. hp.cur \in Int
    BY PointFields
  <2>5. CASE o = c /\ pips # None
    BY <2>1, <2>2, <2>3, <2>5 DEF UpdateCombatant, MaySave
  <2>6. CASE o = c /\ pips = None
    BY <2>2, <2>3, <2>4, <2>6 DEF PipsOnFloor
  <2>7. CASE o # c
    BY <2>2, <2>3, <2>7 DEF PipsOnFloor
  <2> QED
    BY <2>5, <2>6, <2>7
<1>6. CASE SheetNext
  BY <1>1, <1>2, <1>6, SheetStep
<1>7. CASE FightNext
  <2>1. ASSUME NEW c \in Rows, NEW e \in Encounters, NEW h \in Heroes, AddHero(c, e, h) PROVE PipsOnFloor'
    BY <1>4, <2>1, AddHeroRow
  <2>2. ASSUME NEW c \in Rows, NEW e \in Encounters, NEW f \in Folk, AddAlly(c, e, f) PROVE PipsOnFloor'
    BY <1>4, <2>2, AddAllyRow
  <2>3. ASSUME NEW cs \in SUBSET Rows, NEW e \in Encounters, NEW hp \in Points, AddMonsters(cs, e, hp)
        PROVE  PipsOnFloor'
    BY <1>4, <2>3, AddMonstersRows
  <2>4. ASSUME NEW e \in Encounters, RollInitiative(e) PROVE PipsOnFloor'
    BY <1>3, <2>4, RollInitiativeRows
  <2>5. ASSUME NEW c \in Rows, RollCombatantInitiative(c) PROVE PipsOnFloor'
    BY <1>3, <2>5, RollCombatantRows
  <2>6. ASSUME NEW es \in SUBSET Encounters, StoodDown(es), \A e \in es : fight[e] # "none" PROVE PipsOnFloor'
    BY <1>3, <2>6, StoodDownRows
  <2> QED
    BY <1>2, <1>5, <1>7, <2>1, <2>2, <2>3, <2>4, <2>5, <2>6, FightCases
<1> QED
  BY <1>6, <1>7 DEF TrackerNext

\* Death saves are marked for a hero at 0 hit points and nobody else.
THEOREM PipsOnFloorHolds == TrackerSpec => []PipsOnFloor
<1>1. TrackerInit => PipsOnFloor
  BY DEF TrackerInit, PipsOnFloor, There
<1>2. TrackerTypeOK /\ PipsOnFloor /\ [TrackerNext]_trackerVars => PipsOnFloor'
  <2>1. ASSUME PipsOnFloor, UNCHANGED trackerVars PROVE PipsOnFloor'
    BY <2>1 DEF trackerVars, PipsOnFloor, There
  <2> QED
    BY <2>1, PipsStep
<1> QED
  BY <1>1, <1>2, TrackerTypeCorrect, PTL DEF TrackerSpec

\* Rows keep their mob and share a new roll with it, or keep the one they have.
LEMMA MobsKept ==
    ASSUME MobRollsOnce,
           \A c \in Rows : There(c)' => There(c) /\ comb'[c].enc = comb[c].enc /\ comb'[c].mob = comb[c].mob,
           \A c, o \in Rows : There(c)' /\ There(o)' /\ o \in Mob(c) /\ comb[o].init = comb[c].init
               => comb'[o].init = comb'[c].init
    PROVE  MobRollsOnce'
<1> SUFFICES ASSUME NEW c \in Rows, NEW o \in Rows, There(c)', o \in Mob(c)' PROVE comb'[o].init = comb'[c].init
  BY DEF MobRollsOnce
<1>1. There(o)' /\ o \in Mob(c) /\ There(c)
  BY DEF Mob
<1> QED
  BY <1>1 DEF MobRollsOnce

\* A mob that arrives is one that nobody is in.
LEMMA MobsArrive ==
    ASSUME MobRollsOnce, NEW cs \in SUBSET Rows, NEW row \in Combatants,
           \A c \in cs : comb'[c] = row, \A c \in Rows \ cs : comb'[c] = comb[c],
           row.mob # None => \A c \in Rows : There(c) => comb[c].mob # row.mob
    PROVE  MobRollsOnce'
<1> SUFFICES ASSUME NEW c \in Rows, NEW o \in Rows, There(c)', o \in Mob(c)' PROVE comb'[o].init = comb'[c].init
  BY DEF MobRollsOnce
<1>1. There(o)' /\ comb'[c].mob # None /\ comb'[o].mob = comb'[c].mob /\ comb'[o].enc = comb'[c].enc
  BY DEF Mob
<1>2. CASE c \in cs /\ o \in cs
  BY <1>2
<1>3. CASE c \notin cs /\ o \notin cs
  BY <1>1, <1>3 DEF MobRollsOnce, Mob, There
<1>4. CASE c \in cs /\ o \notin cs
  BY <1>1, <1>4 DEF There
<1>5. CASE c \notin cs /\ o \in cs
  BY <1>1, <1>5 DEF There
<1> QED
  BY <1>2, <1>3, <1>4, <1>5

LEMMA MobStep == ASSUME TrackerTypeOK, MobRollsOnce, TrackerNext PROVE MobRollsOnce'
<1>1. ASSUME NEW h \in Heroes, NEW hp \in Points, HeroGets(h, hp) PROVE MobRollsOnce'
  <2>1. \A c \in Rows : There(c)' => /\ There(c) /\ comb'[c].enc = comb[c].enc /\ comb'[c].mob = comb[c].mob
                                     /\ comb'[c].init = comb[c].init
    BY <1>1, HeroGetsType, HeroGetsRows DEF Remain
  <2> QED
    BY <2>1, MobsKept
<1>2. CASE Loosened
  BY <1>2, MobsKept DEF Loosened
<1>3. CASE SheetNext
  BY <1>1, <1>2, <1>3, SheetStep
<1>4. ASSUME NEW e \in Encounters, RollInitiative(e) PROVE MobRollsOnce'
  <2>1. PICK roll \in [Rows -> Rolls] : \A c \in Rows : There(c)' =>
           /\ ButInit(c)
           /\ comb'[c].init = IF comb[c].enc = e /\ comb[c].mob # None THEN roll[comb[c].mob] ELSE comb[c].init
    BY <1>4, RollInitiativeRows
  <2> QED
    BY <2>1, MobsKept DEF ButInit, Mob
<1>5. ASSUME NEW c \in Rows, RollCombatantInitiative(c) PROVE MobRollsOnce'
  <2>1. PICK die \in Rolls : \A o \in Rows : There(o)' =>
           /\ ButInit(o)
           /\ comb'[o].init = IF o \in Mob(c) THEN die ELSE comb[o].init
    BY <1>5, RollCombatantRows
  <2>2. \A x, o \in Rows : There(x) /\ o \in Mob(x) => (o \in Mob(c) <=> x \in Mob(c))
    BY DEF Mob
  <2> QED
    BY <2>1, <2>2, MobsKept DEF ButInit
<1>6. ASSUME NEW c \in Rows, NEW hp \in Points, NEW init \in Rolls \cup {None},
             NEW pips \in 0..MaxPips \cup {None}, UpdateCombatant(c, hp, init, pips)
      PROVE  MobRollsOnce'
  <2>1. \A o \in Rows : There(o)' =>
           /\ There(o) /\ comb'[o].enc = comb[o].enc /\ comb'[o].mob = comb[o].mob
           /\ comb'[o].init = IF init # None /\ o \in Mob(c) THEN init ELSE comb[o].init
    BY <1>6, UpdateCombatantRows DEF Remain
  <2>2. \A x, o \in Rows : There(x) /\ o \in Mob(x) => (o \in Mob(c) <=> x \in Mob(c))
    BY DEF Mob
  <2> QED
    BY <2>1, <2>2, MobsKept
<1>7. ASSUME NEW es \in SUBSET Encounters, StoodDown(es), \A e \in es : fight[e] # "none" PROVE MobRollsOnce'
  <2>1. \A c \in Rows : There(c)' => /\ ButInit(c)
                                     /\ comb'[c].init = IF comb[c].enc \in es THEN None ELSE comb[c].init
    BY <1>7, StoodDownRows
  <2> QED
    BY <2>1, MobsKept DEF ButInit, Mob
<1>8. ASSUME NEW c \in Rows, NEW row \in Combatants, row.mob = None, comb'[c] = row,
             \A o \in Rows : o # c => comb'[o] = comb[o]
      PROVE  MobRollsOnce'
  <2>1. {c} \in SUBSET Rows /\ (\A o \in {c} : comb'[o] = row) /\ \A o \in Rows \ {c} : comb'[o] = comb[o]
    BY <1>8
  <2> QED
    BY <1>8, <2>1, MobsArrive
<1>9. CASE FightNext
  <2>1. ASSUME NEW c \in Rows, NEW e \in Encounters, NEW h \in Heroes, AddHero(c, e, h) PROVE MobRollsOnce'
    BY <1>8, <2>1, AddHeroRow
  <2>2. ASSUME NEW c \in Rows, NEW e \in Encounters, NEW f \in Folk, AddAlly(c, e, f) PROVE MobRollsOnce'
    BY <1>8, <2>2, AddAllyRow
  <2>3. ASSUME NEW cs \in SUBSET Rows, NEW e \in Encounters, NEW hp \in Points, AddMonsters(cs, e, hp)
        PROVE  MobRollsOnce'
    <3>1. PICK row \in Combatants :
             /\ row.mob # None => \A c \in Rows : There(c) => comb[c].mob # row.mob
             /\ \A c \in cs : comb'[c] = row
             /\ \A c \in Rows \ cs : comb'[c] = comb[c]
      BY <2>3, AddMonstersRows
    <3> QED
      BY <3>1, MobsArrive
  <2> QED
    BY <1>2, <1>4, <1>5, <1>6, <1>7, <1>9, <2>1, <2>2, <2>3, FightCases
<1> QED
  BY <1>3, <1>9 DEF TrackerNext

\* The members of a mob share a single roll.
THEOREM MobRollsOnceHolds == TrackerSpec => []MobRollsOnce
<1>1. TrackerInit => MobRollsOnce
  BY DEF TrackerInit, MobRollsOnce, There
<1>2. TrackerTypeOK /\ MobRollsOnce /\ [TrackerNext]_trackerVars => MobRollsOnce'
  <2>1. ASSUME MobRollsOnce, UNCHANGED trackerVars PROVE MobRollsOnce'
    BY <2>1 DEF trackerVars, MobRollsOnce, There, Mob
  <2> QED
    BY <2>1, MobStep
<1> QED
  BY <1>1, <1>2, TrackerTypeCorrect, PTL DEF TrackerSpec
-----------------------------------------------------------------------------
(* The mirror.                                                             *)

\* A player character's row is tied to no person: what it mirrors is a sheet.
PcFree == \A c \in Rows : There(c) /\ comb[c].kind = "pc" => comb[c].npc = None

LEMMA PcFreeStep == ASSUME TrackerTypeOK, PcFree, TrackerNext PROVE PcFree'
<1>1. CASE Loosened \/ Remain
  BY <1>1 DEF Loosened, Remain, PcFree
<1>2. CASE \E cs \in SUBSET Rows, row \in Combatants :
              (row.kind = "pc" => row.npc = None) /\ \A c \in Rows : comb'[c] = comb[c] \/ comb'[c] = row
  BY <1>2 DEF PcFree, There
<1>3. CASE \A c \in Rows : There(c)' => ButInit(c)
  BY <1>3 DEF PcFree, ButInit
<1>4. CASE SheetNext
  BY <1>1, <1>4, SheetStep, HeroGetsType
<1>5. CASE FightNext
  <2>1. ASSUME NEW c \in Rows, NEW e \in Encounters, NEW h \in Heroes, AddHero(c, e, h) PROVE PcFree'
    BY <1>2, <2>1, AddHeroRow
  <2>2. ASSUME NEW c \in Rows, NEW e \in Encounters, NEW f \in Folk, AddAlly(c, e, f) PROVE PcFree'
    BY <1>2, <2>2, AddAllyRow
  <2>3. ASSUME NEW cs \in SUBSET Rows, NEW e \in Encounters, NEW hp \in Points, AddMonsters(cs, e, hp)
        PROVE  PcFree'
    BY <1>2, <2>3, AddMonstersRows
  <2>4. ASSUME NEW e \in Encounters, RollInitiative(e) PROVE PcFree'
    BY <1>1, <2>4, RollInitiativeRows
  <2>5. ASSUME NEW c \in Rows, RollCombatantInitiative(c) PROVE PcFree'
    BY <1>1, <2>5, RollCombatantRows
  <2>6. ASSUME NEW es \in SUBSET Encounters, StoodDown(es), \A e \in es : fight[e] # "none" PROVE PcFree'
    BY <1>3, <2>6, StoodDownRows
  <2>7. ASSUME NEW c \in Rows, NEW hp \in Points, NEW init \in Rolls \cup {None},
               NEW pips \in 0..MaxPips \cup {None}, UpdateCombatant(c, hp, init, pips)
        PROVE  PcFree'
    BY <1>1, <2>7, UpdateCombatantRows
  <2> QED
    BY <1>1, <1>5, <2>1, <2>2, <2>3, <2>4, <2>5, <2>6, <2>7, FightCases
<1> QED
  BY <1>4, <1>5 DEF TrackerNext

\* What a homed combatant is tied to.
LEMMA HomeIs ==
    ASSUME TrackerTypeOK, NEW c \in Rows, Homed(c)
    PROVE  /\ comb[c] \in Combatants /\ There(c) /\ Refers(c)
           /\ comb[c].hero # None => comb[c].hero \in Heroes /\ Home(c) = comb[c].hero
           /\ comb[c].hero = None => comb[c].npc \in Folk /\ Home(c) = comb[c].npc
<1>1. There(c) /\ comb[c] \in Combatants /\ Refers(c)
  BY ThereIs DEF Homed, TrackerTypeOK, Sorts
<1> QED
  BY <1>1, RowFields DEF Homed, Home

\* A step that leaves the homes of the rows that remain as they are.
LEMMA QuietStep ==
    ASSUME TrackerTypeOK, TrackerTypeOK',
           \A c \in Rows : There(c)' =>
               /\ There(c) /\ comb'[c].hp = comb[c].hp
               /\ comb'[c].hero = comb[c].hero \/ comb'[c].hero = None
               /\ comb'[c].npc = comb[c].npc \/ comb'[c].npc = None,
           \A h \in Heroes : sheet[h] # None /\ sheet'[h] # None => sheet'[h] = sheet[h],
           \A f \in Folk : folk[f] # None /\ folk'[f] # None => folk'[f].cur = folk[f].cur
    PROVE  Together
<1> SUFFICES ASSUME NEW c \in Rows, AtOne(c), Homed(c)', Home(c)' = Home(c), There(c)' PROVE Mirrored(c)'
  BY DEF Together, Alone, Homed
<1>1. Homed(c) /\ Mirrored(c)
  BY DEF AtOne
<1>2. /\ Refers(c) /\ (comb[c].hero # None => comb[c].hero \in Heroes /\ Home(c) = comb[c].hero)
      /\ (comb[c].hero = None => comb[c].npc \in Folk /\ Home(c) = comb[c].npc)
  BY <1>1, HomeIs
<1>3. /\ Refers(c)' /\ (comb'[c].hero # None => comb'[c].hero \in Heroes /\ Home(c)' = comb'[c].hero)
      /\ (comb'[c].hero = None => comb'[c].npc \in Folk /\ Home(c)' = comb'[c].npc)
  <2>1. There(c)' /\ (comb[c] \in Combatants)' /\ Refers(c)'
    BY DEF TrackerTypeOK, There
  <2>2. /\ comb'[c].hero \in Heroes \cup {None} /\ comb'[c].npc \in Folk \cup {None}
    BY <2>1, RowFields
  <2> QED
    BY <2>1, <2>2 DEF Homed, Home
<1>4. CASE comb[c].hero # None
  <2>1. comb'[c].hero = comb[c].hero
    BY <1>2, <1>3, <1>4, TrackerOK
  <2>2. sheet'[comb[c].hero] = sheet[comb[c].hero]
    BY <1>2, <1>3, <1>4, <2>1 DEF Refers
  <2> QED
    BY <1>1, <1>4, <2>1, <2>2 DEF Mirrored
<1>5. CASE comb[c].hero = None
  <2>1. comb'[c].hero = None /\ comb'[c].npc = comb[c].npc
    BY <1>2, <1>3, <1>5, TrackerOK
  <2>2. folk'[comb[c].npc].cur = folk[comb[c].npc].cur
    BY <1>2, <1>3, <1>5, <2>1, TrackerOK DEF Refers
  <2> QED
    BY <1>1, <1>5, <2>1, <2>2 DEF Mirrored
<1> QED
  BY <1>4, <1>5

\* A sheet and its running rows are written together.
LEMMA HeroGetsTogether ==
    ASSUME TrackerTypeOK, NEW h \in Heroes, NEW hp \in Points, HeroGets(h, hp) PROVE Together
<1> SUFFICES ASSUME NEW c \in Rows, There(c)', ~There(c) \/ AtOne(c) PROVE Mirrored(c)'
  BY DEF Together, Running
<1>1. There(c) /\ comb'[c].hero = comb[c].hero /\ comb'[c].npc = comb[c].npc
  BY HeroGetsType DEF Remain
<1>2. comb'[c].hp = IF Follows(c, h) THEN hp ELSE comb[c].hp
  BY HeroGetsRows
<1>3. Homed(c) /\ Mirrored(c) /\ Running(c)
  BY <1>1 DEF AtOne
<1>4. comb[c] \in Combatants /\ comb[c].kind \in {"pc", "ally", "monster"}
  BY <1>3, HomeIs, RowFields
<1>5. sheet' = [sheet EXCEPT ![h] = hp] /\ UNCHANGED folk /\ sheet \in [Heroes -> Points \cup {None}]
  BY DEF HeroGets, TrackerTypeOK
<1>6. CASE comb[c].hero = h
  <2>1. Follows(c, h)
    BY <1>3, <1>4, <1>6 DEF Follows, Homed
  <2> QED
    BY <1>1, <1>2, <1>5, <1>6, <2>1, TrackerOK DEF Mirrored
<1>7. CASE comb[c].hero # h
  <2>1. comb'[c].hp = comb[c].hp
    BY <1>2, <1>7 DEF Follows
  <2>2. comb[c].hero # None => sheet'[comb[c].hero] = sheet[comb[c].hero]
    BY <1>3, <1>5, <1>7, HomeIs
  <2> QED
    BY <1>1, <1>3, <1>5, <2>1, <2>2 DEF Mirrored
<1> QED
  BY <1>6, <1>7

\* The doors of the sheets and the Folk, but for the two that are silent.
LEMMA SheetTogether == ASSUME TrackerTypeOK, SheetNext PROVE Together \/ Silent
<1>1. TrackerTypeOK'
  BY SheetStep
<1>2. ASSUME Loosened,
             \A h \in Heroes : sheet[h] # None /\ sheet'[h] # None => sheet'[h] = sheet[h],
             \A f \in Folk : folk[f] # None /\ folk'[f] # None => folk'[f].cur = folk[f].cur
      PROVE  Together
  BY <1>1, <1>2, QuietStep DEF Loosened
<1>3. CASE \E h \in Heroes, hp \in Points : CreateCharacter(h, hp)
  BY <1>2, <1>3, SameLoosened DEF CreateCharacter, TrackerTypeOK
<1>4. CASE \E h \in Heroes, hp \in Points : UpdateCharacter(h, hp) \/ RestCharacter(h, hp)
  BY <1>4, HeroGetsTogether DEF UpdateCharacter, RestCharacter
<1>12. CASE \E h \in Heroes : ChangeKit(h)
  <2>1. PICK h \in Heroes : ChangeKit(h)
    BY <1>12
  <2>2. sheet[h] \in Points /\ HeroGets(h, sheet[h])
    BY <2>1 DEF ChangeKit, TrackerTypeOK
  <2> QED
    BY <2>2, HeroGetsTogether
<1>5. CASE \E h \in Heroes : DeleteCharacter(h)
  <2>1. PICK h \in Heroes : DeleteCharacter(h)
    BY <1>5
  <2>2. Loosened /\ \A g \in Heroes : sheet[g] # None /\ sheet'[g] # None => sheet'[g] = sheet[g]
    BY <2>1, StrickenLoosened DEF DeleteCharacter, Stricken, TrackerTypeOK
  <2>3. \A f \in Folk : folk[f] # None => folk'[f].cur = folk[f].cur
    <3> SUFFICES ASSUME NEW f \in Folk, folk[f] # None PROVE folk'[f].cur = folk[f].cur
      OBVIOUS
    <3>1. folk[f] \in People
      BY DEF TrackerTypeOK
    <3>2. folk'[f] = folk[f] \/ folk'[f] = [folk[f] EXCEPT !.behind = Nothing]
      BY <2>1 DEF DeleteCharacter
    <3>3. [folk[f] EXCEPT !.behind = Nothing].cur = folk[f].cur
      BY <3>1, BehindSet
    <3> QED
      BY <3>2, <3>3
  <2> QED
    BY <1>2, <2>2, <2>3
<1>6. CASE \E f \in Folk, b \in {StatBlock, Nothing} : CreateNpc(f, b)
  BY <1>2, <1>6, SameLoosened DEF CreateNpc, TrackerTypeOK
<1>7. CASE \E f \in Folk, b \in {StatBlock, Nothing} : UpdateNpc(f, b)
  <2>1. PICK f \in Folk, b \in {StatBlock, Nothing} : UpdateNpc(f, b)
    BY <1>7
  <2>2. Loosened /\ \A g \in Heroes : sheet[g] # None /\ sheet'[g] # None => sheet'[g] = sheet[g]
    BY <2>1, StrickenLoosened, SameLoosened DEF UpdateNpc, Stricken, TrackerTypeOK, HasBody
  <2>3. folk[f] \in People /\ folk' = [folk EXCEPT ![f] = [folk[f] EXCEPT !.behind = b]]
    BY <2>1 DEF UpdateNpc, TrackerTypeOK
  <2>4. [folk[f] EXCEPT !.behind = b].cur = folk[f].cur
    BY <2>3, BehindSet
  <2>5. \A o \in Folk : folk[o] # None => folk'[o].cur = folk[o].cur
    BY <2>3, <2>4 DEF TrackerTypeOK
  <2> QED
    BY <1>2, <2>2, <2>5
<1>8. CASE \E f \in Folk, h \in Heroes, hp \in Points : ForgeNpcBody(f, h, hp)
  <2>1. PICK f \in Folk, h \in Heroes, hp \in Points : ForgeNpcBody(f, h, hp)
    BY <1>8
  <2>2. Loosened /\ \A g \in Heroes : sheet[g] # None /\ sheet'[g] # None => sheet'[g] = sheet[g]
    BY <2>1, SameLoosened DEF ForgeNpcBody, TrackerTypeOK
  <2>3. folk[f] \in People /\ folk' = [folk EXCEPT ![f] = [folk[f] EXCEPT !.behind = h]]
    BY <2>1 DEF ForgeNpcBody, TrackerTypeOK
  <2>4. [folk[f] EXCEPT !.behind = h].cur = folk[f].cur
    BY <2>3, BehindSet
  <2>5. \A o \in Folk : folk[o] # None => folk'[o].cur = folk[o].cur
    BY <2>3, <2>4 DEF TrackerTypeOK
  <2> QED
    BY <1>2, <2>2, <2>5
<1>9. CASE \E f \in Folk : DeleteNpc(f)
  <2>1. PICK f \in Folk : DeleteNpc(f)
    BY <1>9
  <2>2. \A c \in Rows : There(c)' => There(c)
    BY <2>1 DEF DeleteNpc, There
  <2>3. Loosened
    BY <2>1, <2>2, Bereft DEF Loosened
  <2>4. /\ \A g \in Heroes : sheet[g] # None /\ sheet'[g] # None => sheet'[g] = sheet[g]
        /\ \A o \in Folk : folk[o] # None /\ folk'[o] # None => folk'[o].cur = folk[o].cur
    BY <2>1 DEF DeleteNpc, TrackerTypeOK
  <2> QED
    BY <1>2, <2>3, <2>4
<1>10. CASE \E f \in Folk, b \in BOOLEAN : SetNpcTravel(f, b)
  <2>1. PICK f \in Folk, b \in BOOLEAN : SetNpcTravel(f, b)
    BY <1>10
  <2>2. folk[f] \in People /\ folk' = [folk EXCEPT ![f] = [folk[f] EXCEPT !.travels = b]]
    BY <2>1 DEF SetNpcTravel, TrackerTypeOK
  <2>3. [folk[f] EXCEPT !.travels = b].cur = folk[f].cur
    BY <2>2 DEF People
  <2>4. \A o \in Folk : folk[o] # None => folk'[o].cur = folk[o].cur
    BY <2>2, <2>3 DEF TrackerTypeOK
  <2> QED
    BY <1>2, <2>1, <2>4, SameLoosened DEF SetNpcTravel
<1> QED
  BY <1>3, <1>4, <1>5, <1>6, <1>7, <1>8, <1>9, <1>10, <1>12 DEF SheetNext, Silent
\* An arrival that shows what its home holds.
LEMMA ArrivalTogether ==
    ASSUME NEW cs \in SUBSET Rows, NEW row \in Combatants, UNCHANGED <<sheet, folk>>,
           \A c \in cs : comb'[c] = row /\ ~There(c), \A c \in Rows \ cs : comb'[c] = comb[c],
           \/ row.kind = "monster"
           \/ row.hero # None /\ row.hp = sheet[row.hero]
           \/ row.hero = None /\ BlockHp(row.hp.cur) = BlockHp(folk[row.npc].cur)
    PROVE  Together
<1> SUFFICES ASSUME NEW c \in Rows, ~There(c) \/ AtOne(c), Homed(c)' PROVE Mirrored(c)'
  BY DEF Together, Alone
<1>1. CASE c \in cs
  <2>1. comb'[c] = row
    BY <1>1
  <2>2. row.kind # "monster"
    BY <2>1 DEF Homed
  <2> QED
    BY <2>1, <2>2 DEF Mirrored
<1>2. CASE c \notin cs
  <2>1. comb'[c] = comb[c]
    BY <1>2
  <2>2. Mirrored(c)
    BY <2>1 DEF Homed, There, AtOne
  <2> QED
    BY <2>1, <2>2 DEF Mirrored
<1> QED
  BY <1>1, <1>2

LEMMA AddHeroTogether ==
    ASSUME TrackerTypeOK, NEW c \in Rows, NEW e \in Encounters, NEW h \in Heroes, AddHero(c, e, h)
    PROVE  Together
<1>1. PICK row \in Combatants :
         /\ row.hero = h /\ row.hp = sheet[h] /\ UNCHANGED <<sheet, folk>>
         /\ comb'[c] = row /\ ~There(c) /\ \A o \in Rows : o # c => comb'[o] = comb[o]
  BY AddHeroRow
<1>2. /\ {c} \in SUBSET Rows /\ (\A o \in {c} : comb'[o] = row /\ ~There(o))
      /\ \A o \in Rows \ {c} : comb'[o] = comb[o]
  BY <1>1
<1>3. row.hero # None
  BY <1>1, TrackerOK
<1> QED
  BY <1>1, <1>2, <1>3, ArrivalTogether

\* Clamping twice is clamping once.
LEMMA ClampOnce == ASSUME NEW cur \in Currents \cup {None} PROVE BlockHp(BlockHp(cur).cur) = BlockHp(cur)
<1>1. cur = None \/ cur \in Int
  BY TrackerOK DEF Currents
<1>2. Block \in Nat /\ None \notin Int
  BY TrackerOK
<1> QED
  BY <1>1, <1>2 DEF BlockHp, Clamped

LEMMA AddAllyTogether ==
    ASSUME TrackerTypeOK, NEW c \in Rows, NEW e \in Encounters, NEW f \in Folk, AddAlly(c, e, f)
    PROVE  Together
<1>1. PICK row \in Combatants :
         /\ row.hero = (IF HasBody(f) THEN folk[f].behind ELSE None)
         /\ row.npc = f /\ row.hp = AllyHp(f) /\ UNCHANGED <<sheet, folk>>
         /\ comb'[c] = row /\ ~There(c) /\ \A o \in Rows : o # c => comb'[o] = comb[o]
  BY AddAllyRow
<1>2. /\ {c} \in SUBSET Rows /\ (\A o \in {c} : comb'[o] = row /\ ~There(o))
      /\ \A o \in Rows \ {c} : comb'[o] = comb[o]
  BY <1>1
<1>3. CASE HasBody(f)
  <2>1. row.hero # None /\ row.hp = sheet[row.hero]
    BY <1>1, <1>3, TrackerOK DEF HasBody, AllyHp
  <2> QED
    BY <1>1, <1>2, <2>1, ArrivalTogether
<1>4. CASE ~HasBody(f)
  <2>1. folk[f].cur \in Currents \cup {None}
    BY PersonFields DEF AddAlly, Stands, TrackerTypeOK
  <2>2. row.hero = None /\ BlockHp(row.hp.cur) = BlockHp(folk[row.npc].cur)
    BY <1>1, <1>4, <2>1, ClampOnce DEF AllyHp
  <2> QED
    BY <1>1, <1>2, <2>2, ArrivalTogether
<1> QED
  BY <1>3, <1>4

\* An edit lands on the row and on its home, and on no other row's home.
LEMMA UpdateCombatantTogether ==
    ASSUME TrackerTypeOK, PcFree, NEW d \in Rows, NEW hp \in Points, NEW init \in Rolls \cup {None},
           NEW pips \in 0..MaxPips \cup {None}, UpdateCombatant(d, hp, init, pips)
    PROVE  Together
<1> SUFFICES ASSUME NEW c \in Rows, There(c)', ~There(c) \/ AtOne(c) PROVE Mirrored(c)'
  BY DEF Together, Running
<1>1. There(c) /\ comb'[c].hero = comb[c].hero /\ comb'[c].npc = comb[c].npc /\ There(d)
  BY UpdateCombatantRows DEF Remain
<1>2. comb'[c].hp = IF c = d THEN hp ELSE comb[c].hp
  BY UpdateCombatantRows
<1>3. Homed(c) /\ Mirrored(c) /\ Alone(c)
  BY <1>1 DEF AtOne
<1>4. /\ comb[c] \in Combatants /\ Refers(c)
      /\ comb[c].hero # None => comb[c].hero \in Heroes /\ Home(c) = comb[c].hero
      /\ comb[c].hero = None => comb[c].npc \in Folk /\ Home(c) = comb[c].npc
  BY <1>3, HomeIs
<1>5. comb[c].kind \in {"pc", "ally"} /\ (comb[c].hero = None => comb[c].kind = "ally")
  <2>1. comb[c].kind \in {"pc", "ally", "monster"}
    BY <1>4, RowFields
  <2> QED
    BY <1>1, <1>3, <1>4, <2>1, TrackerOK DEF Homed, PcFree
<1>6. MirrorsHome(comb[d], hp)
  BY DEF UpdateCombatant
<1>7. CASE c = d /\ comb[d].hp = hp
  <2>1. UNCHANGED <<sheet, folk>> /\ comb'[c].hp = comb[c].hp
    BY <1>2, <1>6, <1>7 DEF MirrorsHome
  <2> QED
    BY <1>1, <1>3, <2>1 DEF Mirrored
<1>8. CASE c = d /\ comb[d].hp # hp
  <2>1. CASE comb[c].hero # None
    <3>1. sheet' = [sheet EXCEPT ![comb[c].hero] = hp]
      BY <1>4, <1>5, <1>6, <1>8, <2>1 DEF MirrorsHome, SheetGets, Refers
    <3>2. sheet'[comb[c].hero] = hp
      BY <1>4, <2>1, <3>1 DEF TrackerTypeOK
    <3> QED
      BY <1>1, <1>2, <1>8, <2>1, <3>2 DEF Mirrored
  <2>2. CASE comb[c].hero = None
    <3>1. folk' = [folk EXCEPT ![comb[c].npc].cur = hp.cur] /\ comb[c].npc \in Folk /\ folk[comb[c].npc] \in People
      BY <1>4, <1>5, <1>6, <1>8, <2>2, TrackerOK DEF MirrorsHome, Refers, TrackerTypeOK
    <3>2. folk'[comb[c].npc] = [folk[comb[c].npc] EXCEPT !.cur = hp.cur] /\ hp.cur \in Currents
      BY <3>1, PointFields DEF TrackerTypeOK
    <3>3. [folk[comb[c].npc] EXCEPT !.cur = hp.cur].cur = hp.cur
      BY <3>1, <3>2, PersonHurt
    <3>4. folk'[comb[c].npc].cur = hp.cur
      BY <3>2, <3>3
    <3> QED
      BY <1>1, <1>2, <1>8, <2>2, <3>4 DEF Mirrored
  <2> QED
    BY <2>1, <2>2
<1>9. CASE c # d
  <2>1. comb'[c].hp = comb[c].hp
    BY <1>2, <1>9
  <2>2. Homed(d) => Home(d) # Home(c)
    BY <1>3, <1>9 DEF Alone
  <2>3. comb[d] \in Combatants /\ comb[d].hero \in Heroes \cup {None} /\ comb[d].npc \in Folk \cup {None}
    BY <1>1, ThereIs, RowFields DEF TrackerTypeOK, Sorts
  <2>4. CASE comb[c].hero # None
    <3>1. sheet'[comb[c].hero] = sheet[comb[c].hero]
      <4>1. CASE UNCHANGED sheet
        BY <4>1
      <4>2. CASE comb[d].kind # "monster" /\ comb[d].hero # None /\ SheetGets(comb[d].hero, hp)
        <5>1. comb[d].hero # comb[c].hero
          BY <1>1, <1>4, <2>2, <2>4, <4>2 DEF Homed, Home
        <5> QED
          BY <1>4, <2>3, <2>4, <4>2, <5>1 DEF SheetGets, TrackerTypeOK
      <4> QED
        BY <1>6, <4>1, <4>2 DEF MirrorsHome
    <3> QED
      BY <1>1, <1>3, <2>1, <2>4, <3>1 DEF Mirrored
  <2>5. CASE comb[c].hero = None
    <3>1. folk'[comb[c].npc].cur = folk[comb[c].npc].cur
      <4>1. CASE UNCHANGED folk
        BY <4>1
      <4>2. CASE /\ comb[d].kind = "ally" /\ comb[d].hero = None /\ comb[d].npc # None
                 /\ folk' = [folk EXCEPT ![comb[d].npc].cur = hp.cur]
        <5>1. comb[d].npc # comb[c].npc
          BY <1>1, <1>4, <2>2, <2>5, <4>2 DEF Homed, Home
        <5>2. folk'[comb[c].npc] = folk[comb[c].npc]
          BY <1>4, <2>5, <4>2, <5>1 DEF TrackerTypeOK
        <5> QED
          BY <5>2
      <4> QED
        BY <1>6, <4>1, <4>2 DEF MirrorsHome
    <3> QED
      BY <1>1, <1>3, <2>1, <2>5, <3>1 DEF Mirrored
  <2> QED
    BY <2>4, <2>5
<1> QED
  BY <1>7, <1>8, <1>9

LEMMA FightTogether == ASSUME TrackerTypeOK, PcFree, FightNext PROVE Together
<1>1. TrackerTypeOK'
  BY FightStep
<1>2. ASSUME UNCHANGED <<sheet, folk>>, Loosened \/ \A c \in Rows : There(c)' => ButInit(c) PROVE Together
  BY <1>1, <1>2, QuietStep DEF Loosened, ButInit
<1>3. CASE \/ \E e \in Encounters : CreateEncounter(e) \/ DeleteEncounter(e) \/ Trigger(e)
           \/ \E c \in Rows : DeleteCombatant(c) \/ DeleteCombatantGroup(c)
  BY <1>2, <1>3, ClearedType DEF TrackerOnly
<1>4. CASE \E e \in Encounters : RollInitiative(e)
  BY <1>2, <1>4, RollInitiativeRows DEF RollInitiative
<1>5. CASE \E c \in Rows : RollCombatantInitiative(c)
  BY <1>2, <1>5, RollCombatantRows DEF RollCombatantInitiative
<1>6. CASE \E c \in Rows, e \in Encounters, h \in Heroes : AddHero(c, e, h)
  BY <1>6, AddHeroTogether
<1>7. CASE \E c \in Rows, e \in Encounters, f \in Folk : AddAlly(c, e, f)
  BY <1>7, AddAllyTogether
<1>8. CASE \E cs \in SUBSET Rows, e \in Encounters, hp \in Points : AddMonsters(cs, e, hp)
  <2>1. PICK cs \in SUBSET Rows, e \in Encounters, hp \in Points : AddMonsters(cs, e, hp)
    BY <1>8
  <2>2. PICK row \in Combatants :
           /\ row.kind = "monster" /\ UNCHANGED <<sheet, folk>>
           /\ \A c \in cs : comb'[c] = row /\ ~There(c)
           /\ \A c \in Rows \ cs : comb'[c] = comb[c]
    BY <2>1, AddMonstersRows, ZenonT(30)
  <2> QED
    BY <2>2, ArrivalTogether
<1>9. CASE \E c \in Rows, hp \in Points, init \in Rolls \cup {None}, pips \in 0..MaxPips \cup {None} :
              UpdateCombatant(c, hp, init, pips)
  BY <1>9, UpdateCombatantTogether
<1>10. CASE \E e \in Encounters : StandDown(e)
  <2>1. PICK e \in Encounters : StandDown(e)
    BY <1>10
  <2>2. {e} \in SUBSET Encounters /\ StoodDown({e}) /\ \A x \in {e} : fight[x] # "none"
    BY <2>1 DEF StandDown
  <2> QED
    BY <1>2, <2>2, StoodDownRows DEF TrackerOnly
<1>11. CASE StandDownEncounters
  <2> DEFINE es == {e \in Encounters : fight[e] = "active"}
  <2>1. es \in SUBSET Encounters /\ StoodDown(es) /\ \A x \in es : fight[x] # "none"
    BY <1>11 DEF StandDownEncounters
  <2> HIDE DEF es
  <2> QED
    BY <1>2, <2>1, StoodDownRows DEF TrackerOnly
<1> QED
  BY <1>3, <1>4, <1>5, <1>6, <1>7, <1>8, <1>9, <1>10, <1>11 DEF FightNext

\* Whichever side is edited the other follows, for every step but a level gained and an ally's
\* hit points set at the Folk's own door.
THEOREM MirrorKeptHolds == TrackerSpec => MirrorKept
<1>1. TrackerInit => PcFree
  BY DEF TrackerInit, PcFree, There
<1>2. TrackerTypeOK /\ PcFree /\ [TrackerNext]_trackerVars => PcFree'
  <2>1. ASSUME PcFree, UNCHANGED trackerVars PROVE PcFree'
    BY <2>1 DEF trackerVars, PcFree, There
  <2> QED
    BY <2>1, PcFreeStep
<1>3. TrackerTypeOK /\ PcFree /\ [TrackerNext]_trackerVars => [Together \/ Silent]_trackerVars
  BY SheetTogether, FightTogether DEF TrackerNext
<1> QED
  BY <1>1, <1>2, <1>3, TrackerTypeCorrect, PTL DEF TrackerSpec, MirrorKept
=============================================================================
