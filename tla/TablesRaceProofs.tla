-------------------------- MODULE TablesRaceProofs --------------------------
(***************************************************************************)
(* Proofs about TablesRace: what holds however many requests are in each   *)
(* other's gaps, for every set of accounts and realms, every finite set of *)
(* tables, every choice of the operations that race and every bound on the *)
(* requests in flight.                                                     *)
(*                                                                         *)
(* RaceInv holds of all of them. Steady adds what the owners of tables and *)
(* realms come to when no table is handed over meanwhile: what let a       *)
(* request in (Kept) is then still so when it writes. NoHollowRealm is     *)
(* added when besides no table is moved.                                   *)
(***************************************************************************)
EXTENDS TablesRace, TablesProofs

USE ConstantsOK, RaceOK DEF ConstantsOK

-----------------------------------------------------------------------------
(* Requests in flight.                                                     *)

\* One more request in flight.
LEMMA BagGrows ==
    ASSUME NEW b, IsABag(b), NEW q
    PROVE  IsABag(b (+) SetToBag({q})) /\ BagToSet(b (+) SetToBag({q})) = BagToSet(b) \cup {q}
<1> DEFINE c == b (+) SetToBag({q})
<1>1. DOMAIN c = DOMAIN b \cup {q}
  BY DEF (+), SetToBag
<1>2. \A e \in DOMAIN c : c[e] = (IF e \in DOMAIN b THEN b[e] ELSE 0) + (IF e \in {q} THEN 1 ELSE 0)
  BY DEF (+), SetToBag
<1>3. \A e \in DOMAIN b : b[e] \in Nat /\ b[e] > 0
  BY DEF IsABag
<1>4. c = [e \in DOMAIN c |-> c[e]]
  BY DEF (+)
<1> HIDE DEF c
<1>5. ASSUME NEW e \in DOMAIN c PROVE c[e] \in {n \in Nat : n > 0}
  <2>1. CASE e \in DOMAIN b
    BY <1>2, <1>3, <2>1
  <2>2. CASE e \notin DOMAIN b
    BY <1>1, <1>2, <2>2
  <2> QED
    BY <2>1, <2>2
<1>6. IsABag(c) /\ BagToSet(c) = BagToSet(b) \cup {q}
  BY <1>1, <1>4, <1>5 DEF IsABag, BagToSet
<1> QED
  BY <1>6 DEF c

\* One request less, or one of several like it.
LEMMA BagShrinks ==
    ASSUME NEW b, IsABag(b), NEW q
    PROVE  IsABag(b (-) SetToBag({q})) /\ BagToSet(b (-) SetToBag({q})) \subseteq BagToSet(b)
<1> DEFINE c == b (-) SetToBag({q})
           less == [e \in DOMAIN b |-> IF e \in {q} THEN b[e] - 1 ELSE b[e]]
<1>1. c = [e \in {d \in DOMAIN less : less[d] > 0} |-> less[e]]
  BY DEF (-), SetToBag
<1>2. \A e \in DOMAIN b : b[e] \in Nat /\ b[e] > 0
  BY DEF IsABag
<1>3. \A e \in DOMAIN less : less[e] \in Nat
  BY <1>2
<1> HIDE DEF less
<1>4. DOMAIN c \subseteq DOMAIN less /\ \A e \in DOMAIN c : c[e] \in {n \in Nat : n > 0}
  BY <1>1, <1>3
<1>5. c = [e \in DOMAIN c |-> c[e]]
  BY <1>1
<1>6. DOMAIN less = DOMAIN b
  BY DEF less
<1> QED
  BY <1>4, <1>5, <1>6 DEF IsABag, BagToSet

\* What a step does: one request is let in, one ends without effect, one takes effect, or an
\* account is purged or reprieved.
LEMMA RaceCases ==
    ASSUME RaceTypeOK, [RaceNext]_raceVars
    PROVE  /\ IsABag(inflight')
           /\ \/ /\ UNCHANGED vars
                 /\ \A q \in BagToSet(inflight') : q \in BagToSet(inflight) \/ (q \in Requests /\ Entitled(q))
              \/ /\ BagToSet(inflight') \subseteq BagToSet(inflight)
                 /\ \/ \E q \in BagToSet(inflight) : q \in Requests /\ Effect(q)
                    \/ \E u \in Users : Purge(u) \/ OperatorCancels(u)
<1>1. ASSUME NEW q \in Requests, LetIn(q)
      PROVE  /\ IsABag(inflight') /\ UNCHANGED vars
             /\ \A p \in BagToSet(inflight') : p \in BagToSet(inflight) \/ (p \in Requests /\ Entitled(p))
  <2>1. IsABag(inflight) /\ inflight' = inflight (+) SetToBag({q}) /\ Entitled(q) /\ UNCHANGED vars
    BY <1>1 DEF RaceTypeOK, LetIn
  <2>2. IsABag(inflight') /\ BagToSet(inflight') = BagToSet(inflight) \cup {q}
    BY <2>1, BagGrows, Zenon
  <2> QED
    BY <2>1, <2>2
<1>2. ASSUME NEW q \in BagToSet(inflight), Answer(q)
      PROVE  /\ IsABag(inflight') /\ BagToSet(inflight') \subseteq BagToSet(inflight)
             /\ q \in Requests /\ (Effect(q) \/ UNCHANGED vars)
  BY <1>2, BagShrinks DEF RaceTypeOK, Answer
<1>3. ASSUME NEW u \in Users, PurgeNow(u) \/ CancelNow(u)
      PROVE  UNCHANGED inflight /\ (Purge(u) \/ OperatorCancels(u))
  BY <1>3 DEF PurgeNow, CancelNow
<1>4. CASE UNCHANGED raceVars
  BY <1>4 DEF raceVars, RaceTypeOK
<1> QED
  BY <1>1, <1>2, <1>3, <1>4 DEF RaceNext, RaceTypeOK

-----------------------------------------------------------------------------
(* What each transaction does to the tables and the ground.                *)

\* What may happen to a realm's row on the side: nothing, or a sweep of an empty one that
\* nobody named.
Kindly(q) ==
    /\ realm'[q].owner = realm[q].owner /\ realm'[q].named = realm[q].named
    /\ \/ realm'[q].st = realm[q].st
       \/ There(q) /\ ~realm[q].named /\ StandingOn(table', q) = {} /\ realm'[q].st = "gone"

\* The other tables keep their rows.
OthersStay(t) == \A x \in Tables : x # t => table'[x] = table[x]

LEMMA FoundDoes ==
    ASSUME TypeOK, NEW u \in Users, NEW g \in Somewhere, DoFound(u, g)
    PROVE  TypeOK' /\ \E t \in Tables, r \in Realms :
              /\ table[t].st = "unfounded"
              /\ OthersStay(t)
              /\ table'[t].st = "open" /\ table'[t].owner = u /\ table'[t].realm = r
              /\ \/ g = Nowhere /\ realm[r].st = "unborn" /\ realm'[r].owner = u
                 \/ r = g /\ There(r) /\ realm'[r] = realm[r]
              /\ realm'[r].st = "there" /\ \A q \in Realms : q # r => realm'[q] = realm[q]
              /\ role'[t][u] = "dm" /\ \A x \in Tables : x # t => role'[x] = role[x]
              /\ UNCHANGED <<banned, account, signedIn>>
<1>1. PICK t \in Tables, r \in Realms :
         /\ table[t].st = "unfounded"
         /\ IF g = Nowhere THEN realm[r].st = "unborn" ELSE r = g /\ There(r)
         /\ table' = [table EXCEPT ![t] = [st |-> "open", owner |-> u, realm |-> r]]
         /\ realm' = IF g = Nowhere THEN Minted(r, u) ELSE realm
         /\ role' = [role EXCEPT ![t][u] = "dm"]
         /\ UNCHANGED <<banned, account, signedIn>>
  BY DEF DoFound
<1>2. /\ OthersStay(t)
      /\ table'[t].st = "open" /\ table'[t].owner = u /\ table'[t].realm = r
  BY <1>1 DEF TypeOK, OthersStay
<1>5. role'[t][u] = "dm" /\ \A x \in Tables : x # t => role'[x] = role[x]
  BY <1>1 DEF TypeOK
<1>3. /\ \/ g = Nowhere /\ realm[r].st = "unborn" /\ realm'[r].owner = u
         \/ r = g /\ There(r) /\ realm'[r] = realm[r]
      /\ realm' \in [Realms -> RealmRows]
      /\ realm'[r].st = "there" /\ \A q \in Realms : q # r => realm'[q] = realm[q]
  <2>1. CASE g = Nowhere
    <3>1. realm' = Minted(r, u) /\ realm[r].st = "unborn"
      BY <1>1, <2>1
    <3>2. /\ Minted(r, u) \in [Realms -> RealmRows]
          /\ Minted(r, u)[r].st = "there" /\ Minted(r, u)[r].owner = u
          /\ \A q \in Realms : q # r => Minted(r, u)[q] = realm[q]
      BY MintedTyped, Zenon
    <3> QED
      BY <2>1, <3>1, <3>2
  <2>2. CASE g # Nowhere
    BY <1>1, <2>2 DEF There, TypeOK
  <2> QED
    BY <2>1, <2>2
<1>4. TypeOK'
  <2>1. table' \in [Tables -> TableRows]
    BY <1>1, RowTyped
  <2>2. role' \in [Tables -> [Users -> Roles]]
    BY <1>1 DEF TypeOK, Roles
  <2> QED
    BY <1>1, <1>3, <2>1, <2>2 DEF TypeOK
<1> QED
  BY <1>1, <1>2, <1>3, <1>4, <1>5

LEMMA DisbandDoes ==
    ASSUME TypeOK, NEW t \in Tables, DoDisband(t)
    PROVE  /\ Open(t) /\ OthersStay(t) /\ TypeOK'
           /\ table'[t].st = "struck" /\ table'[t].owner = table[t].owner
           /\ \A q \in Realms :
                 /\ Kindly(q)
                 /\ q = table[t].realm /\ ~realm[q].named /\ StandingOn(table', q) = {}
                       => realm'[q].st # "there"
<1>1. /\ Open(t) /\ table' = [table EXCEPT ![t].st = "struck"]
      /\ realm' = Swept(realm, table', table[t].realm)
  BY DEF DoDisband
<1>2. /\ OthersStay(t) /\ table'[t].st = "struck" /\ table'[t].owner = table[t].owner
      /\ table[t].realm \in Realms \cup {Nowhere}
  BY <1>1 DEF TypeOK, TableRows, OthersStay
<1>3. table' \in [Tables -> TableRows]
  BY <1>1, RowTyped
<1>4. PICK rs \in [Realms -> RealmRows] : rs = realm
  BY DEF TypeOK
<1>5. realm' = Swept(rs, table', table[t].realm)
  BY <1>1, <1>4
<1>6. realm' \in [Realms -> RealmRows]
  BY <1>5, SweptTyped
<1>7. \A q \in Realms :
         /\ realm'[q].owner = rs[q].owner /\ realm'[q].named = rs[q].named
         /\ \/ realm'[q].st = rs[q].st
            \/ /\ q = table[t].realm /\ ~rs[q].named /\ StandingOn(table', q) = {}
               /\ rs[q].st = "there" /\ realm'[q].st = "gone"
         /\ q = table[t].realm /\ ~rs[q].named /\ StandingOn(table', q) = {}
               => realm'[q].st # "there"
  BY <1>2, <1>3, <1>5, SweptFacts
<1>8. role' \in [Tables -> [Users -> Roles]]
  BY DEF TypeOK, Roles, DoDisband
<1>9. TypeOK'
  BY <1>3, <1>6, <1>8 DEF TypeOK, DoDisband
<1> QED
  BY <1>1, <1>2, <1>4, <1>7, <1>9 DEF Kindly, There

LEMMA MoveDoes ==
    ASSUME TypeOK, NEW u \in Users, NEW t \in Tables, NEW g \in Somewhere, NEW left \in Somewhere,
           DoMove(u, t, g, left)
    PROVE  TypeOK' /\ \E r \in Realms :
              /\ Open(t) /\ OthersStay(t)
              /\ table'[t].st = "open" /\ table'[t].owner = table[t].owner /\ table'[t].realm = r
              /\ realm'[r].st = "there" /\ realm'[r].owner = u
              /\ realm[r].st = "unborn" \/ (There(r) /\ realm[r].owner = u)
              /\ \A q \in Realms : q # r => Kindly(q)
<1>1. PICK r \in Realms :
         /\ Open(t)
         /\ IF g = Nowhere THEN realm[r].st = "unborn" ELSE r = g /\ There(r) /\ realm[r].owner = u
         /\ table' = [table EXCEPT ![t].realm = r]
         /\ realm' = Swept(IF g = Nowhere THEN Minted(r, u) ELSE realm, table', left)
  BY DEF DoMove
<1> DEFINE rs == IF g = Nowhere THEN Minted(r, u) ELSE realm
<1>2. /\ rs \in [Realms -> RealmRows]
      /\ rs[r].st = "there" /\ rs[r].owner = u
      /\ \A q \in Realms : q # r => rs[q] = realm[q]
  <2>1. CASE g = Nowhere
    <3>1. rs = Minted(r, u)
      BY <2>1
    <3>2. /\ Minted(r, u) \in [Realms -> RealmRows]
          /\ Minted(r, u)[r].st = "there" /\ Minted(r, u)[r].owner = u
          /\ \A q \in Realms : q # r => Minted(r, u)[q] = realm[q]
      BY MintedTyped, Zenon
    <3> HIDE DEF rs
    <3> QED
      BY <3>1, <3>2
  <2>2. CASE g # Nowhere
    BY <1>1, <2>2 DEF There, TypeOK
  <2> QED
    BY <2>1, <2>2
<1>3. /\ OthersStay(t)
      /\ table'[t].st = "open" /\ table'[t].owner = table[t].owner /\ table'[t].realm = r
  BY <1>1 DEF TypeOK, TableRows, OthersStay, Open
<1>4. table' \in [Tables -> TableRows]
  BY <1>1, RowTyped
<1>5. t \in StandingOn(table', r)
  BY <1>3 DEF StandingOn
<1>6. realm' = Swept(rs, table', left)
  BY <1>1
<1>7. realm[r].st = "unborn" \/ (There(r) /\ realm[r].owner = u)
  BY <1>1
<1> HIDE DEF rs
<1>8. realm' \in [Realms -> RealmRows]
  BY <1>2, <1>6, SweptTyped
<1>9. \A q \in Realms :
         /\ realm'[q].owner = rs[q].owner /\ realm'[q].named = rs[q].named
         /\ \/ realm'[q].st = rs[q].st
            \/ /\ ~rs[q].named /\ StandingOn(table', q) = {}
               /\ rs[q].st = "there" /\ realm'[q].st = "gone"
  <2>1. left \in Realms \cup {Nowhere} /\ rs \in [Realms -> RealmRows]
    BY <1>2 DEF Somewhere
  <2> QED
    BY <1>4, <1>6, <2>1, SweptFacts
<1>10. \A q \in Realms : q # r => Kindly(q)
  BY <1>2, <1>9 DEF Kindly, There
<1>11. realm'[r].st = "there" /\ realm'[r].owner = u
  BY <1>2, <1>5, <1>9
<1>12. TypeOK'
  BY <1>4, <1>8 DEF TypeOK, DoMove
<1> QED
  BY <1>1, <1>3, <1>7, <1>10, <1>11, <1>12

LEMMA TransferDoes ==
    ASSUME TypeOK, NEW t \in Tables, NEW v \in Users, NEW left \in Somewhere, NEW as \in Roles,
           DoTransfer(t, v, left, as)
    PROVE  /\ Open(t) /\ OthersStay(t) /\ TypeOK'
           /\ table'[t].st = "open" /\ table'[t].owner = v
           /\ \/ /\ table'[t].realm = table[t].realm
                 /\ \A q \in Realms : realm'[q].st = realm[q].st /\ realm'[q].named = realm[q].named
              \/ \E r \in Realms : /\ realm[r].st = "unborn" /\ table'[t].realm = r
                                   /\ realm'[r].st = "there"
                                   /\ \A q \in Realms : q # r => realm'[q] = realm[q]
<1>1. Open(t)
  BY DEF DoTransfer
<1>0. ASSUME table' \in [Tables -> TableRows], realm' \in [Realms -> RealmRows] PROVE TypeOK'
  <2>1. PICK x \in Roles : role' = [role EXCEPT ![t][v] = x]
    <3>1. role[t][v] \in Roles /\ "dm" \in Roles
      BY DEF TypeOK, Roles
    <3> QED
      BY <3>1 DEF DoTransfer
  <2>2. role' \in [Tables -> [Users -> Roles]]
    BY <2>1 DEF TypeOK
  <2> QED
    BY <1>0, <2>2 DEF TypeOK, DoTransfer
<1>2. CASE table' = [table EXCEPT ![t].owner = v] /\ realm' = [realm EXCEPT ![left].owner = v]
  <2>1. /\ OthersStay(t) /\ table'[t].st = "open" /\ table'[t].owner = v
        /\ table'[t].realm = table[t].realm
    BY <1>1, <1>2 DEF TypeOK, TableRows, OthersStay, Open
  <2>2. table' \in [Tables -> TableRows]
    BY <1>2, RowTyped
  <2>3. /\ realm' \in [Realms -> RealmRows]
        /\ \A q \in Realms : realm'[q].st = realm[q].st /\ realm'[q].named = realm[q].named
    <3>1. CASE left \in Realms
      BY <1>2, <3>1 DEF TypeOK, RealmRows
    <3>2. CASE left \notin Realms
      BY <1>2, <3>2 DEF TypeOK
    <3> QED
      BY <3>1, <3>2
  <2> QED
    BY <1>0, <1>1, <2>1, <2>2, <2>3
<1>3. CASE \E r \in Realms : /\ realm[r].st = "unborn" /\ realm' = Minted(r, v)
                             /\ table' = [table EXCEPT ![t] = [st |-> "open", owner |-> v, realm |-> r]]
  <2>1. PICK r \in Realms : /\ realm[r].st = "unborn" /\ realm' = Minted(r, v)
                            /\ table' = [table EXCEPT ![t] = [st |-> "open", owner |-> v, realm |-> r]]
    BY <1>3
  <2>2. /\ OthersStay(t) /\ table'[t].st = "open" /\ table'[t].owner = v
        /\ table'[t].realm = r
    BY <2>1 DEF TypeOK, OthersStay
  <2>3. table' \in [Tables -> TableRows]
    BY <2>1, RowTyped
  <2>4. /\ realm' \in [Realms -> RealmRows] /\ realm'[r].st = "there"
        /\ \A q \in Realms : q # r => realm'[q] = realm[q]
    <3>1. /\ Minted(r, v) \in [Realms -> RealmRows] /\ Minted(r, v)[r].st = "there"
          /\ \A q \in Realms : q # r => Minted(r, v)[q] = realm[q]
      BY MintedTyped, Zenon
    <3> QED
      BY <2>1, <3>1
  <2> QED
    BY <1>0, <1>1, <2>1, <2>2, <2>3, <2>4
<1> QED
  BY <1>2, <1>3 DEF DoTransfer

LEMMA RequestTyped ==
    ASSUME NEW q \in Requests
    PROVE  /\ q.op \in Racing /\ q.by \in Users /\ q.at \in Tables /\ q.who \in Users
           /\ q.ground \in Somewhere /\ q.left \in Somewhere /\ q.as \in Roles
  BY DEF Requests

\* What coming, going, appointing, asking to leave and signing in leave alone.
LEMMA StillEffect ==
    ASSUME NEW q, Effect(q),
           q.op \in {"join", "kick", "ban", "unban", "leave", "appoint", "schedule", "signin"}
    PROVE  UNCHANGED <<table, realm>>
  BY DEF Effect, DoJoin, DoRemove, DoBan, DoUnban, DoAppoint, DoSchedule, DoSignIn

LEMMA PurgeTyped ==
    ASSUME TypeOK, NEW u \in Users, Purge(u) \/ OperatorCancels(u)
    PROVE  TypeOK'
<1>1. CASE OperatorCancels(u)
  BY <1>1 DEF TypeOK, OperatorCancels, Reprieved
<1>2. CASE Purge(u)
  <2>1. realm' \in [Realms -> RealmRows]
    BY <1>2, ZenonT(30) DEF TypeOK, RealmRows, Purge, There
  <2>2. role' \in [Tables -> [Users -> Roles]]
    BY <1>2 DEF TypeOK, Roles, Purge
  <2> QED
    BY <1>2, <2>1, <2>2 DEF TypeOK, Purge
<1> QED
  BY <1>1, <1>2

\* Every transaction keeps the types, whenever it runs.
LEMMA EffectTyped ==
    ASSUME TypeOK, NEW q \in Requests, Effect(q)
    PROVE  TypeOK'
<1>0. /\ q.by \in Users /\ q.at \in Tables /\ q.who \in Users
      /\ q.ground \in Somewhere /\ q.left \in Somewhere /\ q.as \in Roles
  BY RequestTyped
<1> USE <1>0
<1>1. CASE q.op = "found" /\ DoFound(q.by, q.ground)
  BY <1>1, FoundDoes
<1>2. CASE q.op = "disband" /\ DoDisband(q.at)
  BY <1>2, DisbandDoes
<1>3. CASE q.op = "move" /\ DoMove(q.by, q.at, q.ground, q.left)
  BY <1>3, MoveDoes
<1>4. CASE q.op \in {"rename", "raze"}
  <2>1. realm' \in [Realms -> RealmRows]
    <3>1. CASE realm' = [realm EXCEPT ![q.ground].named = TRUE]
      BY <3>1, ZenonT(30) DEF TypeOK, RealmRows
    <3>2. CASE realm' = [realm EXCEPT ![q.ground].st = "gone"]
      BY <3>2, ZenonT(30) DEF TypeOK, RealmRows
    <3> QED
      BY <1>4, <3>1, <3>2 DEF Effect, DoRename, DoRaze
  <2>2. UNCHANGED <<table, role, banned, account, signedIn>>
    BY <1>4 DEF Effect, DoRename, DoRaze
  <2> QED
    BY <2>1, <2>2 DEF TypeOK
<1>5. CASE q.op \in {"join", "kick", "ban", "unban", "leave", "appoint"}
  <2>1. role' \in [Tables -> [Users -> Roles]]
    <3>1. CASE DoJoin(q.by, q.at)
      BY <3>1 DEF TypeOK, Roles, DoJoin
    <3>2. CASE \E u \in Users : role' = Unseated(q.at, u)
      BY <3>2 DEF TypeOK, Roles, Unseated
    <3>3. CASE DoAppoint(q.at, q.who, q.as)
      BY <3>3 DEF TypeOK, DoAppoint
    <3>4. CASE DoUnban(q.at, q.who)
      BY <3>4 DEF TypeOK, DoUnban
    <3> QED
      BY <1>5, <3>1, <3>2, <3>3, <3>4 DEF Effect, DoRemove, DoBan
  <2>2. banned' \subseteq Tables \X Users
    BY <1>5 DEF TypeOK, Effect, DoJoin, DoRemove, DoBan, DoUnban, DoAppoint
  <2>3. UNCHANGED <<account, signedIn>>
    BY <1>5 DEF Effect, DoJoin, DoRemove, DoBan, DoUnban, DoAppoint
  <2> QED
    BY <1>5, <2>1, <2>2, <2>3, StillEffect DEF TypeOK
<1>6. CASE q.op = "transfer" /\ DoTransfer(q.at, q.who, q.left, q.as)
  BY <1>6, TransferDoes
<1>7. CASE q.op \in {"schedule", "signin"}
  <2>1. account' \in [Users -> {"active", "leaving", "gone"}] /\ signedIn' \subseteq Users
    BY <1>7 DEF TypeOK, Effect, DoSchedule, DoSignIn, Reprieved
  <2>2. UNCHANGED <<role, banned>>
    BY <1>7 DEF Effect, DoSchedule, DoSignIn
  <2> QED
    BY <1>7, <2>1, <2>2, StillEffect DEF TypeOK
<1> QED
  BY <1>1, <1>2, <1>3, <1>4, <1>5, <1>6, <1>7 DEF Effect

-----------------------------------------------------------------------------
(* What holds whatever races.                                              *)

\* The inductive invariant of every choice of Racing.
RaceInv == RaceTypeOK /\ GroundStands /\ ClosedHoldsNobody

\* Every transaction leaves the tables on realms that exist.
LEMMA GroundEffect ==
    ASSUME TypeOK, GroundStands, NEW q \in Requests, Effect(q)
    PROVE  GroundStands'
<1>0. /\ q.by \in Users /\ q.at \in Tables /\ q.who \in Users
      /\ q.ground \in Somewhere /\ q.left \in Somewhere /\ q.as \in Roles
  BY RequestTyped
<1> USE <1>0 DEF GroundStands, Open, There
<1>1. CASE q.op = "found" /\ DoFound(q.by, q.ground)
  <2>1. PICK t \in Tables, r \in Realms :
           /\ OthersStay(t) /\ table'[t].realm = r
           /\ realm'[r].st = "there" /\ \A p \in Realms : p # r => realm'[p] = realm[p]
    BY <1>1, FoundDoes
  <2> QED
    BY <2>1 DEF OthersStay
<1>2. CASE q.op = "disband" /\ DoDisband(q.at)
  <2>1. /\ OthersStay(q.at) /\ table'[q.at].st = "struck"
        /\ \A p \in Realms : Kindly(p)
    BY <1>2, DisbandDoes
  <2>2. ASSUME NEW x \in Tables, table'[x].st = "open"
        PROVE  table'[x].realm \in Realms /\ realm'[table'[x].realm].st = "there"
    <3>1. x # q.at /\ table'[x] = table[x]
      BY <2>1, <2>2 DEF OthersStay
    <3>2. table[x].realm \in Realms /\ realm[table[x].realm].st = "there"
      BY <2>2, <3>1
    <3>3. x \in StandingOn(table', table[x].realm)
      BY <2>2, <3>1 DEF StandingOn
    <3> QED
      BY <2>1, <3>1, <3>2, <3>3 DEF Kindly
  <2> QED
    BY <2>2
<1>3. CASE q.op = "move" /\ DoMove(q.by, q.at, q.ground, q.left)
  <2>1. PICK r \in Realms :
           /\ OthersStay(q.at) /\ table'[q.at].realm = r /\ realm'[r].st = "there"
           /\ \A p \in Realms : p # r => Kindly(p)
    BY <1>3, MoveDoes
  <2>2. ASSUME NEW x \in Tables, table'[x].st = "open"
        PROVE  table'[x].realm \in Realms /\ realm'[table'[x].realm].st = "there"
    <3>1. CASE table'[x].realm = r
      BY <2>1, <3>1
    <3>2. CASE table'[x].realm # r
      <4>1. x # q.at /\ table'[x] = table[x]
        BY <2>1, <3>2 DEF OthersStay
      <4>2. table[x].realm \in Realms /\ realm[table[x].realm].st = "there"
        BY <2>2, <4>1
      <4>3. x \in StandingOn(table', table[x].realm)
        BY <2>2, <4>1 DEF StandingOn
      <4> QED
        BY <2>1, <3>2, <4>1, <4>2, <4>3 DEF Kindly
    <3> QED
      BY <3>1, <3>2
  <2> QED
    BY <2>2
<1>4. CASE q.op = "transfer" /\ DoTransfer(q.at, q.who, q.left, q.as)
  <2>1. Open(q.at) /\ OthersStay(q.at)
    BY <1>4, TransferDoes
  <2>2. CASE /\ table'[q.at].realm = table[q.at].realm
             /\ \A p \in Realms : realm'[p].st = realm[p].st
    BY <2>1, <2>2 DEF OthersStay
  <2>3. CASE \E r \in Realms : /\ table'[q.at].realm = r /\ realm'[r].st = "there"
                               /\ \A p \in Realms : p # r => realm'[p] = realm[p]
    BY <2>1, <2>3 DEF OthersStay
  <2> QED
    BY <1>4, <2>2, <2>3, TransferDoes
<1>5. CASE q.op = "rename" /\ DoRename(q.ground)
  BY <1>5 DEF TypeOK, RealmRows, DoRename
<1>6. CASE q.op = "raze" /\ DoRaze(q.ground)
  <2>1. table' = table /\ StandingOn(table, q.ground) = {}
    BY <1>6 DEF DoRaze
  <2>2. \A p \in Realms : p # q.ground => realm'[p] = realm[p]
    BY <1>6 DEF TypeOK, DoRaze
  <2> QED
    BY <2>1, <2>2 DEF StandingOn
<1>7. CASE UNCHANGED <<table, realm>>
  BY <1>7
<1> QED
  BY <1>1, <1>2, <1>3, <1>4, <1>5, <1>6, <1>7, StillEffect DEF Effect

LEMMA GroundPurge ==
    ASSUME TypeOK, GroundStands, NEW u \in Users, Purge(u) \/ OperatorCancels(u)
    PROVE  GroundStands'
<1>1. CASE OperatorCancels(u)
  BY <1>1 DEF GroundStands, Open, There, OperatorCancels
<1>2. CASE Purge(u)
  <2>1. /\ table' = table
        /\ \A r \in Realms : realm'[r] = realm[r] \/ StandingOn(table, r) = {}
    BY <1>2 DEF TypeOK, Purge
  <2> QED
    BY <2>1 DEF GroundStands, Open, There, StandingOn
<1> QED
  BY <1>1, <1>2

\* Every transaction leaves the tables that are not open without members and bans.
LEMMA ClosedEffect ==
    ASSUME TypeOK, ClosedHoldsNobody, NEW q \in Requests, Effect(q)
    PROVE  ClosedHoldsNobody'
<1>0. /\ q.by \in Users /\ q.at \in Tables /\ q.who \in Users
      /\ q.ground \in Somewhere /\ q.left \in Somewhere /\ q.as \in Roles
  BY RequestTyped
<1> USE <1>0 DEF ClosedHoldsNobody, Open, Member
\* An operation at an open table, which stays open and keeps the other tables' rows.
<1>1. ASSUME Open(q.at), OthersStay(q.at), table'[q.at].st = "open",
             \A x \in Tables : x # q.at => role'[x] = role[x],
             \A x \in Tables, w \in Users : x # q.at /\ <<x, w>> \in banned' => <<x, w>> \in banned
      PROVE  ClosedHoldsNobody'
  BY <1>1 DEF OthersStay
<1>2. CASE q.op = "found" /\ DoFound(q.by, q.ground)
  <2>1. PICK t \in Tables, r \in Realms :
           /\ OthersStay(t) /\ table'[t].st = "open" /\ banned' = banned
           /\ \A x \in Tables : x # t => role'[x] = role[x]
    BY <1>2, FoundDoes
  <2> QED
    BY <2>1 DEF OthersStay
<1>3. CASE q.op = "disband" /\ DoDisband(q.at)
  <2>1. OthersStay(q.at) /\ banned' = {b \in banned : b[1] # q.at}
    BY <1>3, DisbandDoes DEF DoDisband
  <2>2. /\ role'[q.at] = [w \in Users |-> "none"]
        /\ \A x \in Tables : x # q.at => role'[x] = role[x]
    BY <1>3 DEF TypeOK, DoDisband
  <2> QED
    BY <2>1, <2>2 DEF OthersStay
<1>4. CASE q.op = "move" /\ DoMove(q.by, q.at, q.ground, q.left)
  <2>1. PICK r \in Realms : Open(q.at) /\ OthersStay(q.at) /\ table'[q.at].st = "open"
    BY <1>4, MoveDoes
  <2>2. UNCHANGED <<role, banned>>
    BY <1>4 DEF DoMove
  <2> QED
    BY <1>1, <2>1, <2>2
<1>5. CASE q.op = "transfer" /\ DoTransfer(q.at, q.who, q.left, q.as)
  <2>1. Open(q.at) /\ OthersStay(q.at) /\ table'[q.at].st = "open"
    BY <1>5, TransferDoes
  <2>2. banned' = banned /\ \A x \in Tables : x # q.at => role'[x] = role[x]
    BY <1>5 DEF TypeOK, DoTransfer
  <2> QED
    BY <1>1, <2>1, <2>2
<1>6. CASE q.op \in {"rename", "raze"}
  BY <1>6 DEF Effect, DoRename, DoRaze
<1>7. CASE \/ q.op = "join" /\ DoJoin(q.by, q.at)
           \/ q.op = "ban" /\ DoBan(q.at, q.who)
           \/ q.op = "appoint" /\ DoAppoint(q.at, q.who, q.as)
  <2>1. Open(q.at) /\ table' = table
    BY <1>7 DEF DoJoin, DoBan, DoAppoint
  <2>2. \A x \in Tables : x # q.at => role'[x] = role[x]
    BY <1>7 DEF TypeOK, DoJoin, DoBan, DoAppoint, Unseated
  <2>3. banned' = banned \/ banned' = banned \cup {<<q.at, q.who>>}
    BY <1>7 DEF DoJoin, DoBan, DoAppoint
  <2> QED
    BY <1>1, <2>1, <2>2, <2>3 DEF OthersStay
<1>8. CASE q.op \in {"kick", "leave", "unban"}
  <2>1. table' = table /\ banned' \subseteq banned
    BY <1>8 DEF Effect, DoRemove, DoUnban
  <2>2. \A x \in Tables, w \in Users : role'[x][w] = role[x][w] \/ role'[x][w] = "none"
    <3>1. CASE role' = role
      BY <3>1
    <3>2. CASE \E u \in Users : role' = Unseated(q.at, u)
      BY <3>2 DEF TypeOK, Unseated
    <3> QED
      BY <1>8, <3>1, <3>2 DEF Effect, DoRemove, DoUnban
  <2> QED
    BY <2>1, <2>2
<1>9. CASE q.op \in {"schedule", "signin"}
  BY <1>9 DEF Effect, DoSchedule, DoSignIn
<1> QED
  BY <1>2, <1>3, <1>4, <1>5, <1>6, <1>7, <1>8, <1>9 DEF Effect

LEMMA ClosedPurge ==
    ASSUME TypeOK, ClosedHoldsNobody, NEW u \in Users, Purge(u) \/ OperatorCancels(u)
    PROVE  ClosedHoldsNobody'
<1>1. table' = table /\ banned' \subseteq banned
  BY DEF Purge, OperatorCancels
<1>2. \A x \in Tables, w \in Users : role'[x][w] = role[x][w] \/ role'[x][w] = "none"
  BY DEF TypeOK, Purge, OperatorCancels
<1> QED
  BY <1>1, <1>2 DEF ClosedHoldsNobody, Open, Member

LEMMA RaceStep == RaceInv /\ [RaceNext]_raceVars => RaceInv'
<1> SUFFICES ASSUME RaceInv, [RaceNext]_raceVars PROVE RaceInv'
  OBVIOUS
<1>1. RaceTypeOK /\ TypeOK /\ GroundStands /\ ClosedHoldsNobody
  BY DEF RaceInv, RaceTypeOK
<1>2. TypeOK' /\ GroundStands' /\ ClosedHoldsNobody'
  <2>1. CASE UNCHANGED vars
    BY <1>1, <2>1 DEF vars, TypeOK, GroundStands, ClosedHoldsNobody, Open, There, Member
  <2>2. ASSUME NEW q \in Requests, Effect(q) PROVE TypeOK' /\ GroundStands' /\ ClosedHoldsNobody'
    BY <1>1, <2>2, EffectTyped, GroundEffect, ClosedEffect
  <2>3. ASSUME NEW u \in Users, Purge(u) \/ OperatorCancels(u)
        PROVE  TypeOK' /\ GroundStands' /\ ClosedHoldsNobody'
    BY <1>1, <2>3, PurgeTyped, GroundPurge, ClosedPurge
  <2> QED
    BY <1>1, <2>1, <2>2, <2>3, RaceCases
<1>3. IsABag(inflight') /\ BagToSet(inflight') \subseteq Requests
  BY <1>1, RaceCases DEF RaceTypeOK
<1> QED
  BY <1>2, <1>3 DEF RaceInv, RaceTypeOK

LEMMA RaceStart == RaceInit => RaceInv
<1> SUFFICES ASSUME RaceInit PROVE RaceInv
  OBVIOUS
<1>1. IInv
  BY InitInv DEF RaceInit
<1>2. IsABag(inflight) /\ BagToSet(inflight) = {}
  BY DEF RaceInit, EmptyBag, SetToBag, IsABag, BagToSet
<1>3. GroundStands
  BY DEF RaceInit, Init, GroundStands, Open
<1> QED
  BY <1>1, <1>2, <1>3 DEF RaceInv, RaceTypeOK, IInv

\* RaceInv holds of every behaviour, whatever races.
THEOREM RaceInvariance == RaceSpec => []RaceInv
  BY RaceStart, RaceStep, PTL DEF RaceSpec

\* Every variable has its type, whatever races.
THEOREM RaceTypeCorrect == RaceSpec => []RaceTypeOK
<1>1. RaceInv => RaceTypeOK
  BY DEF RaceInv
<1> QED
  BY <1>1, RaceInvariance, PTL

\* A table stands on a realm that exists, whatever races.
THEOREM GroundStandsHolds == RaceSpec => []GroundStands
<1>1. RaceInv => GroundStands
  BY DEF RaceInv
<1> QED
  BY <1>1, RaceInvariance, PTL

\* A join, an appointment or a ban let in before its table is struck leaves nothing behind:
\* a table that is not open seats and bars nobody, whatever races.
THEOREM ClosedHoldsNobodyRacing == RaceSpec => []ClosedHoldsNobody
<1>1. RaceInv => ClosedHoldsNobody
  BY DEF RaceInv
<1> QED
  BY <1>1, RaceInvariance, PTL

\* A realm somebody named is struck only when nothing stands on it, as the step begins: a
\* move holds on to a realm it saw earlier, and yet its sweep looks at the name again.
LEMMA NamedRacing ==
    ASSUME TypeOK, RaceTypeOK, [RaceNext]_raceVars,
           NEW r \in Realms, There(r), realm[r].named, realm'[r].st = "gone"
    PROVE  StandingOn(table, r) = {}
<1> USE DEF There
<1>1. ASSUME NEW q \in Requests, Effect(q) PROVE StandingOn(table, r) = {}
  <2>0. /\ q.by \in Users /\ q.at \in Tables /\ q.who \in Users
        /\ q.ground \in Somewhere /\ q.left \in Somewhere /\ q.as \in Roles
    BY RequestTyped
  <2> USE <2>0
  <2>1. CASE q.op = "found" /\ DoFound(q.by, q.ground)
    <3>1. PICK p \in Realms : /\ realm'[p].st = "there"
                              /\ \A x \in Realms : x # p => realm'[x] = realm[x]
      BY <2>1, FoundDoes
    <3> QED
      BY <3>1
  <2>2. CASE q.op = "disband" /\ DoDisband(q.at)
    <3>1. Kindly(r)
      BY <2>2, DisbandDoes
    <3> QED
      BY <3>1 DEF Kindly
  <2>3. CASE q.op = "move" /\ DoMove(q.by, q.at, q.ground, q.left)
    <3>1. PICK p \in Realms : realm'[p].st = "there" /\ \A x \in Realms : x # p => Kindly(x)
      BY <2>3, MoveDoes
    <3> QED
      BY <3>1 DEF Kindly
  <2>4. CASE q.op = "transfer" /\ DoTransfer(q.at, q.who, q.left, q.as)
    <3>1. \/ realm'[r].st = realm[r].st
          \/ \E p \in Realms : /\ realm'[p].st = "there"
                               /\ \A x \in Realms : x # p => realm'[x] = realm[x]
      BY <2>4, TransferDoes
    <3> QED
      BY <3>1
  <2>5. CASE q.op \in {"rename", "raze"}
    <3>1. CASE DoRename(q.ground)
      BY <3>1 DEF TypeOK, RealmRows, DoRename
    <3>2. CASE DoRaze(q.ground)
      BY <3>2 DEF TypeOK, RealmRows, DoRaze
    <3> QED
      BY <1>1, <2>5, <3>1, <3>2 DEF Effect
  <2>6. CASE UNCHANGED <<table, realm>>
    BY <2>6
  <2> QED
    BY <1>1, <2>1, <2>2, <2>3, <2>4, <2>5, <2>6, StillEffect DEF Effect
<1>2. ASSUME NEW u \in Users, Purge(u) \/ OperatorCancels(u) PROVE StandingOn(table, r) = {}
  BY <1>2 DEF TypeOK, RealmRows, Purge, OperatorCancels
<1>3. CASE UNCHANGED vars
  BY <1>3 DEF vars
<1> QED
  BY <1>1, <1>2, <1>3, RaceCases

\* A realm somebody named outlives its tables, whatever races.
THEOREM NamedOutlivesRacing == RaceSpec => NamedOutlives
<1>1. RaceInv /\ [RaceNext]_raceVars =>
         [\A r \in Realms : There(r) /\ realm[r].named /\ realm'[r].st = "gone"
              => StandingOn(table, r) = {}]_vars
  BY NamedRacing DEF RaceInv, RaceTypeOK
<1> QED
  BY <1>1, RaceInvariance, PTL DEF RaceSpec, NamedOutlives

-----------------------------------------------------------------------------
(* What holds while no table is handed over.                               *)

\* What a request was let in by and still has when it writes: its table was founded, the
\* person to go is not the table's owner, the table or the realm is the caller's own.
Kept(q) ==
    /\ q.op \in {"kick", "ban", "appoint"} =>
           table[q.at].st # "unfounded" /\ q.who # table[q.at].owner
    /\ q.op = "leave" => table[q.at].st # "unfounded" /\ q.by # table[q.at].owner
    /\ q.op = "move" => table[q.at].st # "unfounded" /\ q.by = table[q.at].owner
    /\ q.op = "found" /\ q.ground # Nowhere =>
           realm[q.ground].st # "unborn" /\ q.by = realm[q.ground].owner

\* The inductive invariant of a run without handovers. That the owner is a DM needs of a
\* kick in flight that it is not the owner's, and that tables follow their ground needs of
\* a move and of a founding that the caller still owns what they asked for.
SteadyInv ==
    RaceInv /\ OwnerIsDM /\ GroundFollowsOwner /\ \A q \in BagToSet(inflight) : Kept(q)

\* Tables and realms keep their owners from the moment they have one.
OwnersLast ==
    /\ \A t \in Tables : table[t].st # "unfounded" =>
           table'[t].st # "unfounded" /\ table'[t].owner = table[t].owner
    /\ \A r \in Realms : realm[r].st # "unborn" =>
           realm'[r].st # "unborn" /\ realm'[r].owner = realm[r].owner

LEMMA Lasting ==
    ASSUME TypeOK, NEW q \in Requests, Effect(q), q.op # "transfer"
    PROVE  OwnersLast
<1>0. /\ q.by \in Users /\ q.at \in Tables /\ q.who \in Users
      /\ q.ground \in Somewhere /\ q.left \in Somewhere /\ q.as \in Roles
  BY RequestTyped
<1> USE <1>0 DEF OwnersLast, Open, There
<1>1. CASE q.op = "found" /\ DoFound(q.by, q.ground)
  <2>1. PICK t \in Tables, r \in Realms :
           /\ table[t].st = "unfounded" /\ OthersStay(t)
           /\ \/ q.ground = Nowhere /\ realm[r].st = "unborn" /\ realm'[r].owner = q.by
              \/ r = q.ground /\ There(r) /\ realm'[r] = realm[r]
           /\ \A p \in Realms : p # r => realm'[p] = realm[p]
    BY <1>1, FoundDoes
  <2> QED
    BY <2>1 DEF OthersStay
<1>2. CASE q.op = "disband" /\ DoDisband(q.at)
  <2>1. /\ OthersStay(q.at) /\ table'[q.at].st = "struck" /\ table'[q.at].owner = table[q.at].owner
        /\ \A p \in Realms : Kindly(p)
    BY <1>2, DisbandDoes
  <2> QED
    BY <2>1 DEF OthersStay, Kindly
<1>3. CASE q.op = "move" /\ DoMove(q.by, q.at, q.ground, q.left)
  <2>1. PICK r \in Realms :
           /\ OthersStay(q.at) /\ table'[q.at].st = "open" /\ table'[q.at].owner = table[q.at].owner
           /\ realm'[r].st = "there" /\ realm'[r].owner = q.by
           /\ realm[r].st = "unborn" \/ (There(r) /\ realm[r].owner = q.by)
           /\ \A p \in Realms : p # r => Kindly(p)
    BY <1>3, MoveDoes
  <2> QED
    BY <2>1 DEF OthersStay, Kindly
<1>4. CASE q.op \in {"rename", "raze"}
  <2>1. CASE DoRename(q.ground)
    BY <2>1 DEF TypeOK, RealmRows, DoRename
  <2>2. CASE DoRaze(q.ground)
    BY <2>2 DEF TypeOK, RealmRows, DoRaze
  <2> QED
    BY <1>4, <2>1, <2>2 DEF Effect
<1>5. CASE UNCHANGED <<table, realm>>
  BY <1>5
<1> QED
  BY <1>1, <1>2, <1>3, <1>4, <1>5, StillEffect DEF Effect

LEMMA LastingPurge ==
    ASSUME TypeOK, NEW u \in Users, Purge(u) \/ OperatorCancels(u)
    PROVE  OwnersLast
  BY DEF TypeOK, RealmRows, Purge, OperatorCancels, OwnersLast

\* What lets a request in is what it keeps.
LEMMA KeptAtFirst ==
    ASSUME TypeOK, NEW q \in Requests, Entitled(q)
    PROVE  Kept(q)
  BY DEF Entitled, Kept, Open, There, MayFound, Owns, Runs, MayKick, MayBan, MayLeave, MayAppoint

LEMMA KeptLasts ==
    ASSUME NEW q \in Requests, Kept(q), OwnersLast
    PROVE  Kept(q)'
<1>1. q.at \in Tables /\ (q.ground # Nowhere => q.ground \in Realms)
  BY DEF Requests, Somewhere
<1> QED
  BY <1>1 DEF Kept, OwnersLast

\* Nobody who was let in before removes or demotes whoever holds a table.
LEMMA OwnerEffect ==
    ASSUME TypeOK, OwnerIsDM, NEW q \in Requests, Effect(q), Kept(q), q.op # "transfer"
    PROVE  OwnerIsDM'
<1>0. /\ q.by \in Users /\ q.at \in Tables /\ q.who \in Users
      /\ q.ground \in Somewhere /\ q.left \in Somewhere /\ q.as \in Roles
  BY RequestTyped
<1> USE <1>0 DEF OwnerIsDM, Open
<1>1. CASE q.op = "found" /\ DoFound(q.by, q.ground)
  <2>1. PICK t \in Tables, r \in Realms :
           /\ OthersStay(t) /\ table'[t].owner = q.by
           /\ role'[t][q.by] = "dm" /\ \A x \in Tables : x # t => role'[x] = role[x]
    BY <1>1, FoundDoes
  <2> QED
    BY <2>1 DEF OthersStay
<1>2. CASE q.op = "disband" /\ DoDisband(q.at)
  <2>1. OthersStay(q.at) /\ table'[q.at].st = "struck"
    BY <1>2, DisbandDoes
  <2>2. \A x \in Tables : x # q.at => role'[x] = role[x]
    BY <1>2 DEF TypeOK, DoDisband
  <2> QED
    BY <2>1, <2>2 DEF OthersStay
<1>3. CASE q.op = "move" /\ DoMove(q.by, q.at, q.ground, q.left)
  <2>1. PICK r \in Realms : /\ Open(q.at) /\ OthersStay(q.at)
                            /\ table'[q.at].owner = table[q.at].owner
    BY <1>3, MoveDoes
  <2>2. role' = role
    BY <1>3 DEF DoMove
  <2> QED
    BY <2>1, <2>2 DEF OthersStay
<1>4. CASE q.op = "join" /\ DoJoin(q.by, q.at)
  <2>1. /\ table' = table
        /\ \A x \in Tables, w \in Users : role'[x][w] = role[x][w] \/ role[x][w] = "none"
    BY <1>4 DEF TypeOK, DoJoin
  <2> QED
    BY <2>1
<1>5. CASE q.op \in {"kick", "ban", "leave", "appoint"}
  <2>1. PICK v \in Users :
           /\ v # table[q.at].owner
           /\ \A x \in Tables, w \in Users : x # q.at \/ w # v => role'[x][w] = role[x][w]
    <3>1. CASE q.op \in {"kick", "ban"}
      <4>1. role' = Unseated(q.at, q.who)
        BY <1>5, <3>1 DEF Effect, DoRemove, DoBan
      <4> QED
        BY <3>1, <4>1 DEF TypeOK, Kept, Unseated
    <3>2. CASE q.op = "leave"
      <4>1. role' = Unseated(q.at, q.by)
        BY <1>5, <3>2 DEF Effect, DoRemove
      <4> QED
        BY <3>2, <4>1 DEF TypeOK, Kept, Unseated
    <3>3. CASE q.op = "appoint"
      <4>1. role' = [role EXCEPT ![q.at][q.who] = q.as]
        BY <1>5, <3>3 DEF Effect, DoAppoint
      <4> QED
        BY <3>3, <4>1 DEF TypeOK, Kept
    <3> QED
      BY <1>5, <3>1, <3>2, <3>3
  <2>2. table' = table
    BY <1>5, StillEffect
  <2> QED
    BY <2>1, <2>2
<1>6. CASE q.op \in {"rename", "raze", "unban", "schedule", "signin"}
  BY <1>6 DEF Effect, DoRename, DoRaze, DoUnban, DoSchedule, DoSignIn
<1> QED
  BY <1>1, <1>2, <1>3, <1>4, <1>5, <1>6 DEF Effect

LEMMA OwnerPurge ==
    ASSUME TypeOK, OwnerIsDM, NEW u \in Users, Purge(u) \/ OperatorCancels(u)
    PROVE  OwnerIsDM'
<1>1. CASE OperatorCancels(u)
  BY <1>1 DEF OwnerIsDM, Open, OperatorCancels
<1>2. CASE Purge(u)
  <2>1. /\ table' = table /\ OwnedBy(u) = {}
        /\ \A x \in Tables, w \in Users : w # u => role'[x][w] = role[x][w]
    BY <1>2 DEF TypeOK, Purge
  <2> QED
    BY <2>1 DEF OwnerIsDM, Open, OwnedBy
<1> QED
  BY <1>1, <1>2

\* Nobody who was let in before parts a table's owner from its ground's.
LEMMA FollowEffect ==
    ASSUME TypeOK, GroundFollowsOwner, GroundStands', OwnersLast,
           NEW q \in Requests, Effect(q), Kept(q), q.op # "transfer"
    PROVE  GroundFollowsOwner'
<1>0. /\ q.by \in Users /\ q.at \in Tables /\ q.who \in Users
      /\ q.ground \in Somewhere /\ q.left \in Somewhere /\ q.as \in Roles
  BY RequestTyped
<1> USE <1>0 DEF GroundFollowsOwner, Open, There
\* A table that stays where it is.
<1>1. ASSUME NEW x \in Tables, table'[x].st = "open", table[x].st = "open",
             table'[x].realm = table[x].realm
      PROVE  /\ table'[x].realm \in Realms /\ realm'[table'[x].realm].st = "there"
             /\ realm'[table'[x].realm].owner = table'[x].owner
  <2>1. table'[x].owner = table[x].owner
    BY <1>1 DEF OwnersLast
  <2>2. table[x].realm \in Realms /\ realm'[table[x].realm].owner = realm[table[x].realm].owner
    BY <1>1 DEF OwnersLast
  <2> QED
    BY <1>1, <2>1, <2>2 DEF GroundStands
<1>2. CASE q.op = "found" /\ DoFound(q.by, q.ground)
  <2>1. PICK t \in Tables, r \in Realms :
           /\ OthersStay(t) /\ table'[t].owner = q.by /\ table'[t].realm = r
           /\ \/ q.ground = Nowhere /\ realm[r].st = "unborn" /\ realm'[r].owner = q.by
              \/ r = q.ground /\ There(r) /\ realm'[r] = realm[r]
           /\ realm'[r].st = "there"
    BY <1>2, FoundDoes
  <2>2. realm'[r].owner = q.by
    BY <1>2, <2>1 DEF Kept
  <2> QED
    BY <1>1, <2>1, <2>2 DEF OthersStay
<1>3. CASE q.op = "disband" /\ DoDisband(q.at)
  <2>1. OthersStay(q.at) /\ table'[q.at].st = "struck"
    BY <1>3, DisbandDoes
  <2> QED
    BY <1>1, <2>1 DEF OthersStay
<1>4. CASE q.op = "move" /\ DoMove(q.by, q.at, q.ground, q.left)
  <2>1. PICK r \in Realms :
           /\ OthersStay(q.at)
           /\ table'[q.at].owner = table[q.at].owner /\ table'[q.at].realm = r
           /\ realm'[r].st = "there" /\ realm'[r].owner = q.by
    BY <1>4, MoveDoes
  <2>2. table[q.at].owner = q.by
    BY <1>4 DEF Kept
  <2> QED
    BY <1>1, <2>1, <2>2 DEF OthersStay
<1>5. CASE table' = table
  BY <1>1, <1>5
<1> QED
  BY <1>2, <1>3, <1>4, <1>5, StillEffect DEF Effect, DoRename, DoRaze

LEMMA FollowPurge ==
    ASSUME TypeOK, GroundFollowsOwner, GroundStands', NEW u \in Users, Purge(u) \/ OperatorCancels(u)
    PROVE  GroundFollowsOwner'
<1>1. table' = table /\ OwnersLast
  BY LastingPurge DEF Purge, OperatorCancels
<1> QED
  BY <1>1 DEF GroundFollowsOwner, GroundStands, Open, There, OwnersLast

LEMMA SteadyStep ==
    ASSUME "transfer" \notin Racing, SteadyInv, [RaceNext]_raceVars
    PROVE  SteadyInv'
<1>1. /\ RaceInv /\ RaceTypeOK /\ TypeOK /\ OwnerIsDM /\ GroundFollowsOwner
      /\ \A q \in BagToSet(inflight) : q \in Requests /\ Kept(q)
  BY DEF SteadyInv, RaceInv, RaceTypeOK
<1>2. RaceInv'
  BY <1>1, RaceStep
<1>3. GroundStands'
  BY <1>2 DEF RaceInv
<1>4. CASE /\ UNCHANGED vars
           /\ \A q \in BagToSet(inflight') : q \in BagToSet(inflight) \/ (q \in Requests /\ Entitled(q))
  <2>1. OwnerIsDM' /\ GroundFollowsOwner'
    BY <1>1, <1>4 DEF vars, OwnerIsDM, GroundFollowsOwner, Open, There
  <2>2. \A q \in BagToSet(inflight') : Kept(q)
    BY <1>1, <1>4, KeptAtFirst
  <2>3. \A q : Kept(q) => Kept(q)'
    BY <1>4 DEF vars, Kept
  <2> QED
    BY <1>2, <2>1, <2>2, <2>3 DEF SteadyInv
<1>5. ASSUME BagToSet(inflight') \subseteq BagToSet(inflight),
             NEW q \in BagToSet(inflight), q \in Requests, Effect(q)
      PROVE  SteadyInv'
  <2>1. Kept(q) /\ q.op # "transfer"
    BY <1>1, <1>5 DEF Requests
  <2>2. OwnersLast
    BY <1>1, <1>5, <2>1, Lasting
  <2>3. OwnerIsDM' /\ GroundFollowsOwner'
    BY <1>1, <1>3, <1>5, <2>1, <2>2, OwnerEffect, FollowEffect
  <2>4. \A p \in BagToSet(inflight') : Kept(p)'
    BY <1>1, <1>5, <2>2, KeptLasts
  <2> QED
    BY <1>2, <2>3, <2>4 DEF SteadyInv
<1>6. ASSUME BagToSet(inflight') \subseteq BagToSet(inflight),
             NEW u \in Users, Purge(u) \/ OperatorCancels(u)
      PROVE  SteadyInv'
  <2>1. OwnersLast
    BY <1>1, <1>6, LastingPurge
  <2>2. OwnerIsDM' /\ GroundFollowsOwner'
    BY <1>1, <1>3, <1>6, OwnerPurge, FollowPurge
  <2>3. \A p \in BagToSet(inflight') : Kept(p)'
    BY <1>1, <1>6, <2>1, KeptLasts
  <2> QED
    BY <1>2, <2>2, <2>3 DEF SteadyInv
<1> QED
  BY <1>1, <1>4, <1>5, <1>6, RaceCases

LEMMA SteadyStart == RaceInit => SteadyInv
<1> SUFFICES ASSUME RaceInit PROVE SteadyInv
  OBVIOUS
<1>1. BagToSet(inflight) = {}
  BY DEF RaceInit, EmptyBag, SetToBag, BagToSet
<1>2. OwnerIsDM /\ GroundFollowsOwner
  BY InitInv DEF RaceInit, IInv
<1> QED
  BY <1>1, <1>2, RaceStart DEF SteadyInv

\* SteadyInv holds of every behaviour without handovers.
THEOREM SteadyInvariance ==
    ASSUME "transfer" \notin Racing
    PROVE  RaceSpec => []SteadyInv
<1>1. SteadyInv /\ [RaceNext]_raceVars => SteadyInv'
  BY SteadyStep
<1> QED
  BY SteadyStart, <1>1, PTL DEF RaceSpec

\* Whatever else is in flight, whoever holds a table is a DM of it, as long as no table is
\* handed over: a kick, a ban, an appointment or a leave lets itself in once, and the owner
\* it saw is still the owner when it writes. Race_heir shows what a handover does to it.
THEOREM OwnerIsDMSteady ==
    ASSUME "transfer" \notin Racing
    PROVE  RaceSpec => []OwnerIsDM
<1>1. SteadyInv => OwnerIsDM
  BY DEF SteadyInv
<1> QED
  BY <1>1, SteadyInvariance, PTL

\* Nor do a table and its ground come to have two owners: a move and a founding that were
\* let in with a realm of the caller's write it while it still is.
THEOREM GroundFollowsOwnerSteady ==
    ASSUME "transfer" \notin Racing
    PROVE  RaceSpec => []GroundFollowsOwner
<1>1. SteadyInv => GroundFollowsOwner
  BY DEF SteadyInv
<1> QED
  BY <1>1, SteadyInvariance, PTL

-----------------------------------------------------------------------------
(* What holds while, besides, no table is moved.                           *)

\* A realm on which a table stood, and stands no longer, is judged by whoever took it away:
\* only a disbanding does, and it judges the ground its own statement reads.
LEMMA HollowEffect ==
    ASSUME TypeOK, GroundStands, NoHollowRealm,
           NEW q \in Requests, Effect(q), q.op \notin {"move", "transfer"}
    PROVE  NoHollowRealm'
<1>0. /\ q.by \in Users /\ q.at \in Tables /\ q.who \in Users
      /\ q.ground \in Somewhere /\ q.left \in Somewhere /\ q.as \in Roles
  BY RequestTyped
<1> USE <1>0 DEF There
<1>1. CASE q.op = "found" /\ DoFound(q.by, q.ground)
  <2>1. PICK t \in Tables, r \in Realms :
           /\ table[t].st = "unfounded" /\ OthersStay(t)
           /\ table'[t].st = "open" /\ table'[t].owner = q.by /\ table'[t].realm = r
           /\ \/ q.ground = Nowhere /\ realm[r].st = "unborn" /\ realm'[r].owner = q.by
              \/ r = q.ground /\ There(r) /\ realm'[r] = realm[r]
           /\ realm'[r].st = "there" /\ \A p \in Realms : p # r => realm'[p] = realm[p]
    BY <1>1, FoundDoes
  <2>2. t \in StandingOn(table', r) /\ \A p \in Realms : StandingOn(table, p) \subseteq StandingOn(table', p)
    BY <2>1 DEF StandingOn, OthersStay
  <2> QED
    BY <2>1, <2>2 DEF NoHollowRealm
<1>2. CASE q.op = "disband" /\ DoDisband(q.at)
  <2>1. /\ OthersStay(q.at)
        /\ \A p \in Realms :
              /\ Kindly(p)
              /\ p = table[q.at].realm /\ ~realm[p].named /\ StandingOn(table', p) = {}
                    => realm'[p].st # "there"
    BY <1>2, DisbandDoes
  <2>2. \A p \in Realms : p # table[q.at].realm => StandingOn(table, p) \subseteq StandingOn(table', p)
    BY <2>1 DEF StandingOn, OthersStay
  <2> QED
    BY <2>1, <2>2 DEF NoHollowRealm, Kindly
<1>3. CASE q.op = "rename" /\ DoRename(q.ground)
  <2>1. table' = table /\ \A p \in Realms : realm'[p] = realm[p] \/ realm'[p].named
    BY <1>3 DEF TypeOK, RealmRows, DoRename
  <2> QED
    BY <2>1 DEF NoHollowRealm, StandingOn
<1>4. CASE q.op = "raze" /\ DoRaze(q.ground)
  <2>1. table' = table /\ \A p \in Realms : realm'[p] = realm[p] \/ realm'[p].st = "gone"
    BY <1>4 DEF TypeOK, RealmRows, DoRaze
  <2> QED
    BY <2>1 DEF NoHollowRealm, StandingOn
<1>5. CASE UNCHANGED <<table, realm>>
  BY <1>5 DEF NoHollowRealm, StandingOn
<1> QED
  BY <1>1, <1>2, <1>3, <1>4, <1>5, StillEffect DEF Effect

LEMMA HollowPurge ==
    ASSUME TypeOK, NoHollowRealm, NEW u \in Users, Purge(u) \/ OperatorCancels(u)
    PROVE  NoHollowRealm'
<1>1. table' = table /\ \A p \in Realms : realm'[p] = realm[p] \/ realm'[p].st = "gone"
  BY DEF TypeOK, RealmRows, Purge, OperatorCancels
<1> QED
  BY <1>1 DEF NoHollowRealm, StandingOn, There

\* However foundings, disbandings, renamings, razings, purges and the rest race, no realm
\* that nobody named is left standing empty. With moves or handovers in flight twice over,
\* one can be: each sweeps the ground it saw before its transaction.
THEOREM NoHollowRealmSteady ==
    ASSUME "transfer" \notin Racing, "move" \notin Racing
    PROVE  RaceSpec => []NoHollowRealm
<1>1. ASSUME RaceInv, NoHollowRealm, [RaceNext]_raceVars PROVE NoHollowRealm'
  <2>1. RaceTypeOK /\ TypeOK /\ GroundStands
    BY <1>1 DEF RaceInv, RaceTypeOK
  <2>2. CASE UNCHANGED vars
    BY <1>1, <2>2 DEF vars, NoHollowRealm, StandingOn, There
  <2>3. ASSUME NEW q \in Requests, Effect(q) PROVE NoHollowRealm'
    <3>1. q.op \notin {"move", "transfer"}
      BY DEF Requests
    <3> QED
      BY <1>1, <2>1, <2>3, <3>1, HollowEffect
  <2>4. ASSUME NEW u \in Users, Purge(u) \/ OperatorCancels(u) PROVE NoHollowRealm'
    BY <1>1, <2>1, <2>4, HollowPurge
  <2> QED
    BY <1>1, <2>1, <2>2, <2>3, <2>4, RaceCases
<1>2. RaceInit => NoHollowRealm
  BY InitInv DEF RaceInit, IInv
<1> QED
  BY <1>1, <1>2, RaceInvariance, PTL DEF RaceSpec
=============================================================================
