---------------------------- MODULE TablesProofs ----------------------------
(***************************************************************************)
(* Proofs about Tables, for every set of accounts and realms and every     *)
(* finite set of tables.                                                   *)
(*                                                                         *)
(* The inductive invariant IInv is the type invariant and the safety       *)
(* properties of the component: they rest on each other (a bar keeps out   *)
(* whom a handover would seat; a table that is not open seats nobody) and  *)
(* need no further strengthening.                                          *)
(***************************************************************************)
EXTENDS Tables, FiniteSetTheorems, TLAPS

\* The inductive invariant.
IInv == /\ TypeOK /\ OwnerIsDM /\ GroundFollowsOwner /\ BarredStayOut
        /\ ClosedHoldsNobody /\ NoHollowRealm /\ LeavingIsClear /\ TombstoneHeldClear

USE ConstantsOK DEF ConstantsOK

\* A sweep keeps the types of the realms' rows.
LEMMA SweptTyped ==
    ASSUME NEW rs \in [Realms -> RealmRows], NEW ts, NEW g
    PROVE  Swept(rs, ts, g) \in [Realms -> RealmRows]
  BY DEF Swept, RealmRows

\* A sweep strikes at most the realm it is asked about, and only if that is empty and
\* was never named.
LEMMA SweptFacts ==
    ASSUME NEW rs \in [Realms -> RealmRows], NEW ts \in [Tables -> TableRows],
           NEW g \in Realms \cup {Nowhere}
    PROVE  \A r \in Realms :
                 /\ Swept(rs, ts, g)[r].owner = rs[r].owner
                 /\ Swept(rs, ts, g)[r].named = rs[r].named
                 /\ \/ Swept(rs, ts, g)[r].st = rs[r].st
                    \/ /\ r = g /\ ~rs[r].named /\ StandingOn(ts, r) = {}
                       /\ rs[r].st = "there" /\ Swept(rs, ts, g)[r].st = "gone"
                 /\ r = g /\ ~rs[r].named /\ StandingOn(ts, r) = {}
                       => Swept(rs, ts, g)[r].st # "there"
  <1>2. CASE g \in Realms /\ rs[g].st = "there" /\ ~rs[g].named /\ StandingOn(ts, g) = {}
      BY <1>2 DEF Swept, RealmRows
  <1>3. CASE ~(g \in Realms /\ rs[g].st = "there" /\ ~rs[g].named /\ StandingOn(ts, g) = {})
      BY <1>3 DEF Swept, RealmRows
  <1>4. QED BY <1>2, <1>3

\* A realm that is minted has its type, and nobody has named it.
LEMMA MintedTyped ==
    ASSUME TypeOK, NEW r \in Realms, NEW u \in Users
    PROVE  /\ Minted(r, u) \in [Realms -> RealmRows]
           /\ Minted(r, u)[r].st = "there" /\ Minted(r, u)[r].owner = u
           /\ Minted(r, u)[r].named = FALSE
           /\ \A q \in Realms : q # r => Minted(r, u)[q] = realm[q]
  BY DEF TypeOK, Minted, RealmRows

\* What a table's row becomes when its ground or its owner changes.
LEMMA RowTyped ==
    ASSUME TypeOK, NEW t \in Tables
    PROVE  /\ \A r \in Realms : [table EXCEPT ![t].realm = r] \in [Tables -> TableRows]
           /\ \A v \in Users : [table EXCEPT ![t].owner = v] \in [Tables -> TableRows]
           /\ \A v \in Users, r \in Realms :
                  [table EXCEPT ![t] = [st |-> "open", owner |-> v, realm |-> r]] \in [Tables -> TableRows]
           /\ [table EXCEPT ![t].st = "struck"] \in [Tables -> TableRows]
  <1>1. \A r \in Realms : [table EXCEPT ![t].realm = r] \in [Tables -> TableRows]
      BY SMTT(30) DEF TypeOK, TableRows
  <1>2. \A v \in Users : [table EXCEPT ![t].owner = v] \in [Tables -> TableRows]
      BY DEF TypeOK, TableRows
  <1>3. \A v \in Users, r \in Realms :
           [table EXCEPT ![t] = [st |-> "open", owner |-> v, realm |-> r]] \in [Tables -> TableRows]
      BY DEF TypeOK, TableRows
  <1>4. [table EXCEPT ![t].st = "struck"] \in [Tables -> TableRows]
      BY ZenonT(30) DEF TypeOK, TableRows
  <1>5. QED BY <1>1, <1>2, <1>3, <1>4


\* Every step keeps the types.
LEMMA TypeStep == TypeOK /\ [Next]_vars => TypeOK'
  <1> SUFFICES ASSUME TypeOK, [Next]_vars PROVE TypeOK'
      OBVIOUS
  <1>1. ASSUME NEW u \in Users, NEW g \in Realms \cup {Nowhere}, Found(u, g) PROVE TypeOK'
      BY <1>1 DEF TypeOK, TableRows, RealmRows, Roles, Found, MayFound, DoFound, Minted
  <1>2. ASSUME NEW u \in Users, NEW t \in Tables, Disband(u, t) PROVE TypeOK'
    <2>1. table' \in [Tables -> TableRows] /\ table[t].realm \in Realms \cup {Nowhere}
        BY <1>2, RowTyped DEF TypeOK, TableRows, Disband, DoDisband
    <2>2. realm' = Swept(realm, table', table[t].realm) /\ realm \in [Realms -> RealmRows]
        BY <1>2 DEF TypeOK, Disband, DoDisband
    <2>2a. realm' \in [Realms -> RealmRows]
        BY <2>1, <2>2, SweptTyped
    <2>3. QED BY <1>2, <2>1, <2>2a DEF TypeOK, Roles, Disband, DoDisband
  <1>3. ASSUME NEW u \in Users, NEW t \in Tables, NEW g \in Realms \cup {Nowhere}, Move(u, t, g)
        PROVE  TypeOK'
    <2>1. PICK r \in Realms :
             /\ table' = [table EXCEPT ![t].realm = r]
             /\ realm' = Swept(IF g = Nowhere THEN Minted(r, u) ELSE realm, table', table[t].realm)
             /\ UNCHANGED <<role, banned, account, signedIn>>
        BY <1>3 DEF Move, DoMove
    <2>2. table' \in [Tables -> TableRows] /\ table[t].realm \in Realms \cup {Nowhere}
        BY <2>1, RowTyped DEF TypeOK, TableRows
    <2>3. (IF g = Nowhere THEN Minted(r, u) ELSE realm) \in [Realms -> RealmRows]
        BY MintedTyped DEF TypeOK
    <2>4. realm' \in [Realms -> RealmRows]
        BY <2>1, <2>2, <2>3, SweptTyped
    <2>5. QED BY <2>1, <2>2, <2>4 DEF TypeOK
  <1>4. ASSUME NEW u \in Users, NEW r \in Realms, Rename(u, r) \/ Raze(u, r) PROVE TypeOK'
    <2>1. CASE Rename(u, r)
        BY <2>1 DEF TypeOK, RealmRows, Rename, DoRename
    <2>2. CASE Raze(u, r)
        BY <2>2 DEF TypeOK, RealmRows, Raze, DoRaze
    <2>3. QED BY <1>4, <2>1, <2>2
  <1>5. ASSUME NEW u \in Users, NEW t \in Tables, Join(u, t) \/ Leave(u, t) PROVE TypeOK'
      BY <1>5 DEF TypeOK, Roles, Join, DoJoin, Leave, DoRemove, Unseated
  <1>6. ASSUME NEW u \in Users, NEW t \in Tables, NEW v \in Users,
               Kick(u, t, v) \/ Ban(u, t, v) \/ Unban(u, t, v)
        PROVE  TypeOK'
      BY <1>6 DEF TypeOK, Roles, Kick, DoRemove, Ban, DoBan, Unban, DoUnban, Unseated
  <1>7. ASSUME NEW u \in Users, NEW t \in Tables, NEW v \in Users, NEW as \in {"player", "dm"},
               Appoint(u, t, v, as)
        PROVE  TypeOK'
      BY <1>7 DEF TypeOK, Roles, Appoint, DoAppoint
  <1>8. ASSUME NEW u \in Users, NEW t \in Tables, NEW v \in Users, Transfer(u, t, v) PROVE TypeOK'
    <2>1. role' \in [Tables -> [Users -> Roles]] /\ UNCHANGED <<banned, account, signedIn>>
        BY <1>8 DEF TypeOK, Roles, Transfer, DoTransfer
    <2>2. CASE /\ table' = [table EXCEPT ![t].owner = v]
               /\ realm' = [realm EXCEPT ![table[t].realm].owner = v]
      <3>1. realm' \in [Realms -> RealmRows]
          BY <2>2, ZenonT(30) DEF TypeOK, RealmRows
      <3>2. QED BY <2>1, <2>2, <3>1, RowTyped DEF TypeOK
    <2>3. CASE \E r \in Realms : /\ realm' = Minted(r, v)
                                 /\ table' = [table EXCEPT ![t] = [st |-> "open", owner |-> v, realm |-> r]]
      <3>1. PICK r \in Realms : /\ realm' = Minted(r, v)
                                /\ table' = [table EXCEPT ![t] = [st |-> "open", owner |-> v, realm |-> r]]
          BY <2>3
      <3>2. realm' \in [Realms -> RealmRows]
          BY <3>1, MintedTyped
      <3>3. table' \in [Tables -> TableRows]
          BY <3>1, RowTyped
      <3>4. QED BY <2>1, <3>2, <3>3 DEF TypeOK
    <2>4. QED BY <1>8, <2>2, <2>3 DEF Transfer, DoTransfer
  <1>9. ASSUME NEW u \in Users, OfAccount(u) PROVE TypeOK'
    <2>1. CASE AskToLeave(u) \/ OperatorSchedules(u)
        BY <2>1 DEF TypeOK, AskToLeave, OperatorSchedules, DoSchedule
    <2>2. CASE OperatorCancels(u) \/ SignIn(u)
        BY <2>2 DEF TypeOK, OperatorCancels, Reprieved, SignIn, DoSignIn
    <2>3. CASE Purge(u)
      <3>1. realm' \in [Realms -> RealmRows]
          BY <2>3, ZenonT(30) DEF TypeOK, RealmRows, Purge, There
      <3>2. role' \in [Tables -> [Users -> Roles]]
          BY <2>3 DEF TypeOK, Roles, Purge
      <3>3. QED BY <2>3, <3>1, <3>2 DEF TypeOK, Purge
    <2>4. QED BY <1>9, <2>1, <2>2, <2>3 DEF OfAccount
  <1>10. CASE UNCHANGED vars
      BY <1>10 DEF TypeOK, vars
  <1>11. QED
      BY <1>1, <1>2, <1>3, <1>4, <1>5, <1>6, <1>7, <1>8, <1>9, <1>10 DEF Next, AtTable

\* The rows that say who sits where are left alone.
StillRoster == UNCHANGED <<table, role, banned>>

\* Renaming, razing and what an account does, short of its purge, leave those rows alone.
LEMMA StillSteps ==
    /\ \A u, r : Rename(u, r) \/ Raze(u, r) => StillRoster
    /\ \A u : AskToLeave(u) \/ OperatorSchedules(u) \/ OperatorCancels(u) \/ SignIn(u) => StillRoster
    /\ UNCHANGED vars => StillRoster
  BY DEF StillRoster, Rename, DoRename, Raze, DoRaze, AskToLeave, OperatorSchedules,
         DoSchedule, OperatorCancels, SignIn, DoSignIn, vars

\* What coming, going, appointing and an account, short of its purge, leave alone.
LEMMA StillGround ==
    /\ \A u, t : Join(u, t) \/ Leave(u, t) => UNCHANGED <<table, realm>>
    /\ \A u, t, v : Kick(u, t, v) \/ Ban(u, t, v) \/ Unban(u, t, v) => UNCHANGED <<table, realm>>
    /\ \A u, t, v, as : Appoint(u, t, v, as) => UNCHANGED <<table, realm>>
    /\ \A u : AskToLeave(u) \/ OperatorSchedules(u) \/ OperatorCancels(u) \/ SignIn(u)
                => UNCHANGED <<table, realm>>
    /\ UNCHANGED vars => UNCHANGED <<table, realm>>
  BY DEF Join, DoJoin, Leave, Kick, DoRemove, Ban, DoBan, Unban, DoUnban, Appoint, DoAppoint,
         AskToLeave, OperatorSchedules, DoSchedule, OperatorCancels, SignIn, DoSignIn, vars

\* Nobody removes or demotes whoever holds a table.
LEMMA OwnerStep == IInv /\ [Next]_vars => OwnerIsDM'
  <1> SUFFICES ASSUME IInv, [Next]_vars PROVE OwnerIsDM'
      OBVIOUS
  <1>1. ASSUME NEW u \in Users, NEW g \in Realms \cup {Nowhere}, Found(u, g) PROVE OwnerIsDM'
      BY <1>1 DEF IInv, TypeOK, TableRows, Roles, OwnerIsDM, Open, Found, DoFound
  <1>2. ASSUME NEW u \in Users, NEW t \in Tables, Disband(u, t) PROVE OwnerIsDM'
      BY <1>2 DEF IInv, TypeOK, TableRows, Roles, OwnerIsDM, Open, Disband, DoDisband
  <1>3. ASSUME NEW u \in Users, NEW t \in Tables, NEW g \in Realms \cup {Nowhere}, Move(u, t, g)
        PROVE  OwnerIsDM'
      BY <1>3 DEF IInv, TypeOK, TableRows, OwnerIsDM, Open, Move, DoMove
  <1>4. ASSUME NEW u \in Users, NEW t \in Tables, Join(u, t) \/ Leave(u, t) PROVE OwnerIsDM'
    <2>1. CASE Join(u, t)
        BY <2>1 DEF IInv, TypeOK, TableRows, Roles, OwnerIsDM, Open, Join, DoJoin
    <2>2. CASE Leave(u, t)
        BY <2>2 DEF IInv, TypeOK, TableRows, Roles, OwnerIsDM, Open, Leave, MayLeave, DoRemove,
               Unseated
    <2>3. QED BY <1>4, <2>1, <2>2
  <1>5. ASSUME NEW u \in Users, NEW t \in Tables, NEW v \in Users, Kick(u, t, v) \/ Ban(u, t, v)
        PROVE  OwnerIsDM'
      BY <1>5 DEF IInv, TypeOK, TableRows, Roles, OwnerIsDM, Open, Kick, MayKick, DoRemove,
             Ban, MayBan, DoBan, Unseated
  <1>6. ASSUME NEW u \in Users, NEW t \in Tables, NEW v \in Users, NEW as \in {"player", "dm"},
               Appoint(u, t, v, as)
        PROVE  OwnerIsDM'
      BY <1>6 DEF IInv, TypeOK, TableRows, Roles, OwnerIsDM, Open, Appoint, MayAppoint, Owns, DoAppoint
  <1>7. ASSUME NEW u \in Users, NEW t \in Tables, NEW v \in Users, Transfer(u, t, v)
        PROVE  OwnerIsDM'
    <2>1. /\ \A x \in Tables : x # t => table'[x] = table[x] /\ role'[x] = role[x]
          /\ table'[t].owner = v /\ role'[t][v] = "dm"
        BY <1>7 DEF IInv, TypeOK, TableRows, Roles, Transfer, DoTransfer
    <2>2. QED BY <2>1 DEF IInv, OwnerIsDM, Open
  <1>8. ASSUME NEW u \in Users, Purge(u) PROVE OwnerIsDM'
      BY <1>8 DEF IInv, TypeOK, TableRows, Roles, OwnerIsDM, Open, Purge, OwnedBy
  <1>9. CASE StillRoster \/ \E u \in Users, t \in Tables, v \in Users : Unban(u, t, v)
      BY <1>9 DEF IInv, OwnerIsDM, Open, StillRoster, Unban, DoUnban
  <1>10. QED
      BY <1>1, <1>2, <1>3, <1>4, <1>5, <1>6, <1>7, <1>8, <1>9, StillSteps DEF Next, AtTable, OfAccount

\* Nobody who is barred comes to sit at the table.
LEMMA BarredStep == IInv /\ [Next]_vars => BarredStayOut'
  <1> SUFFICES ASSUME IInv, [Next]_vars PROVE BarredStayOut'
      OBVIOUS
  <1>1. ASSUME NEW u \in Users, NEW g \in Realms \cup {Nowhere}, Found(u, g) PROVE BarredStayOut'
      BY <1>1 DEF IInv, TypeOK, Roles, BarredStayOut, ClosedHoldsNobody, Open, Member, Found, DoFound
  <1>2. ASSUME NEW u \in Users, NEW t \in Tables, Disband(u, t) PROVE BarredStayOut'
      BY <1>2 DEF IInv, TypeOK, Roles, BarredStayOut, Member, Disband, DoDisband
  <1>3. ASSUME NEW u \in Users, NEW t \in Tables, Join(u, t) \/ Leave(u, t) PROVE BarredStayOut'
    <2>1. /\ banned' = banned
          /\ <<t, u>> \notin banned \/ role'[t][u] = "none"
        BY <1>3 DEF IInv, TypeOK, Join, MayJoin, DoJoin, Leave, DoRemove, Unseated
    <2>2. \A x \in Tables, w \in Users : x # t \/ w # u => role'[x][w] = role[x][w]
      <3>1. CASE Join(u, t)
          BY <3>1 DEF IInv, TypeOK, Join, DoJoin
      <3>2. CASE Leave(u, t)
          BY <3>2 DEF IInv, TypeOK, Leave, DoRemove, Unseated
      <3>3. QED BY <1>3, <3>1, <3>2
    <2>3. QED BY <2>1, <2>2 DEF IInv, BarredStayOut, Member
  <1>4. ASSUME NEW u \in Users, NEW t \in Tables, NEW v \in Users,
               Kick(u, t, v) \/ Ban(u, t, v) \/ Unban(u, t, v)
        PROVE  BarredStayOut'
    <2>1. \A x \in Tables, w \in Users : role'[x][w] # role[x][w] => role'[x][w] = "none"
      <3>1. CASE Kick(u, t, v)
          BY <3>1 DEF IInv, TypeOK, Kick, DoRemove, Unseated
      <3>2. CASE Ban(u, t, v)
          BY <3>2 DEF IInv, TypeOK, Ban, DoBan, Unseated
      <3>3. CASE Unban(u, t, v)
          BY <3>3 DEF Unban, DoUnban
      <3>4. QED BY <1>4, <3>1, <3>2, <3>3
    <2>2. \A b \in banned' : b \in banned \/ (b = <<t, v>> /\ role'[t][v] = "none")
        BY <1>4 DEF IInv, TypeOK, Kick, DoRemove, Ban, DoBan, Unban, DoUnban, Unseated
    <2>3. QED BY <2>1, <2>2 DEF IInv, BarredStayOut, Member
  <1>5. ASSUME NEW u \in Users, NEW t \in Tables, NEW v \in Users, NEW as \in {"player", "dm"},
               Appoint(u, t, v, as) \/ Transfer(u, t, v)
        PROVE  BarredStayOut'
    <2>1. <<t, v>> \notin banned /\ banned' = banned
        BY <1>5 DEF IInv, BarredStayOut, Appoint, MayAppoint, DoAppoint, Transfer, MayTransfer, DoTransfer
    <2>2. \A x \in Tables, w \in Users : x # t \/ w # v => role'[x][w] = role[x][w]
      <3>1. CASE Appoint(u, t, v, as)
          BY <3>1 DEF IInv, TypeOK, Appoint, DoAppoint
      <3>2. CASE Transfer(u, t, v)
          BY <3>2 DEF IInv, TypeOK, Transfer, DoTransfer
      <3>3. QED BY <1>5, <3>1, <3>2
    <2>3. QED BY <2>1, <2>2 DEF IInv, BarredStayOut, Member
  <1>6. ASSUME NEW u \in Users, Purge(u) PROVE BarredStayOut'
      BY <1>6 DEF IInv, TypeOK, Roles, BarredStayOut, Member, Purge
  <1>7. ASSUME NEW u \in Users, NEW t \in Tables, NEW g \in Realms \cup {Nowhere}, Move(u, t, g)
        PROVE  BarredStayOut'
      BY <1>7 DEF IInv, BarredStayOut, Member, Move, DoMove
  <1>8. CASE StillRoster
      BY <1>8 DEF IInv, BarredStayOut, Member, StillRoster
  <1>9. QED
      BY <1>1, <1>2, <1>3, <1>4, <1>5, <1>6, <1>7, <1>8, StillSteps DEF Next, AtTable, OfAccount

\* A table that closes, or has not opened, keeps nobody.
LEMMA ClosedStep == IInv /\ [Next]_vars => ClosedHoldsNobody'
  <1> SUFFICES ASSUME IInv, [Next]_vars PROVE ClosedHoldsNobody'
      OBVIOUS
  <1> USE DEF Open, Member
  <1>1. ASSUME NEW u \in Users, NEW g \in Realms \cup {Nowhere}, Found(u, g)
        PROVE  ClosedHoldsNobody'
      BY <1>1 DEF IInv, TypeOK, TableRows, Roles, ClosedHoldsNobody, Found, DoFound
  <1>2. ASSUME NEW u \in Users, NEW t \in Tables, Disband(u, t) PROVE ClosedHoldsNobody'
      BY <1>2 DEF IInv, TypeOK, TableRows, Roles, ClosedHoldsNobody, Disband, DoDisband
  <1>3. ASSUME NEW u \in Users, NEW t \in Tables, NEW g \in Realms \cup {Nowhere}, Move(u, t, g)
        PROVE  ClosedHoldsNobody'
      BY <1>3 DEF IInv, TypeOK, TableRows, ClosedHoldsNobody, Move, DoMove
  <1>4. ASSUME NEW u \in Users, NEW t \in Tables, Join(u, t) \/ Leave(u, t)
        PROVE  ClosedHoldsNobody'
      BY <1>4 DEF IInv, TypeOK, Roles, ClosedHoldsNobody, Join, DoJoin, Leave, DoRemove, Unseated
  <1>5. ASSUME NEW u \in Users, NEW t \in Tables, NEW v \in Users,
               Kick(u, t, v) \/ Ban(u, t, v) \/ Unban(u, t, v)
        PROVE  ClosedHoldsNobody'
      BY <1>5 DEF IInv, TypeOK, Roles, ClosedHoldsNobody, Kick, DoRemove, Ban, DoBan, Unban, DoUnban,
             Unseated
  <1>6. ASSUME NEW u \in Users, NEW t \in Tables, NEW v \in Users, NEW as \in {"player", "dm"},
               Appoint(u, t, v, as) \/ Transfer(u, t, v)
        PROVE  ClosedHoldsNobody'
    <2>1. CASE Appoint(u, t, v, as)
        BY <2>1 DEF IInv, TypeOK, Roles, ClosedHoldsNobody, Appoint, DoAppoint
    <2>2. CASE Transfer(u, t, v)
      <3>1. /\ Open(t) /\ table'[t].st = "open" /\ banned' = banned
            /\ \A x \in Tables : x # t => table'[x] = table[x] /\ role'[x] = role[x]
          BY <2>2 DEF IInv, TypeOK, TableRows, Transfer, DoTransfer
      <3>2. QED BY <3>1 DEF IInv, ClosedHoldsNobody
    <2>3. QED BY <1>6, <2>1, <2>2
  <1>7. ASSUME NEW u \in Users, Purge(u) PROVE ClosedHoldsNobody'
      BY <1>7 DEF IInv, TypeOK, Roles, ClosedHoldsNobody, Purge
  <1>8. CASE StillRoster
      BY <1>8 DEF IInv, ClosedHoldsNobody, StillRoster
  <1>9. QED
      BY <1>1, <1>2, <1>3, <1>4, <1>5, <1>6, <1>7, <1>8, StillSteps DEF Next, AtTable, OfAccount

\* What CountCampaignsInRealm decides of a table on its realm: alone, or in company.
LEMMA AloneOrNot ==
    ASSUME NEW t \in Tables, NEW r, t \in StandingOn(table, r)
    PROVE  /\ Cardinality(StandingOn(table, r)) = 1 => StandingOn(table, r) = {t}
           /\ Cardinality(StandingOn(table, r)) # 1 => \E x \in StandingOn(table, r) : x # t
  <1>1. IsFiniteSet(StandingOn(table, r))
      BY FS_Subset DEF StandingOn
  <1>2. Cardinality(StandingOn(table, r)) = 1 <=> \E x : StandingOn(table, r) = {x}
      BY <1>1, FS_Singleton
  <1>3. QED BY <1>2

\* What a handover does to the table and the ground, one way or the other.
LEMMA TransferEffect ==
    ASSUME IInv, NEW u \in Users, NEW t \in Tables, NEW v \in Users, Transfer(u, t, v)
    PROVE  /\ Open(t) /\ table[t].realm \in Realms /\ There(table[t].realm)
           /\ \A x \in Tables : x # t => table'[x] = table[x]
           /\ table'[t].st = "open" /\ table'[t].owner = v
           /\ \/ /\ StandingOn(table, table[t].realm) = {t}
                 /\ table'[t].realm = table[t].realm
                 /\ \A r \in Realms : /\ realm'[r].st = realm[r].st
                                      /\ realm'[r].named = realm[r].named
                                      /\ r # table[t].realm => realm'[r] = realm[r]
                 /\ realm'[table[t].realm].owner = v
              \/ /\ \E x \in StandingOn(table, table[t].realm) : x # t
                 /\ \E r \in Realms : /\ realm[r].st = "unborn" /\ table'[t].realm = r
                                      /\ realm' = Minted(r, v)
  <1> DEFINE here == table[t].realm
  <1>1. Open(t) /\ here \in Realms /\ There(here)
      BY DEF IInv, GroundFollowsOwner, Transfer, DoTransfer
  <1>2. t \in StandingOn(table, here)
      BY <1>1 DEF StandingOn, Open
  <1>3. CASE Cardinality(StandingOn(table, here)) = 1
    <2>1. table' = [table EXCEPT ![t].owner = v] /\ realm' = [realm EXCEPT ![here].owner = v]
        BY <1>3 DEF Transfer, DoTransfer
    <2>2. StandingOn(table, here) = {t}
        BY <1>2, <1>3, AloneOrNot
    <2>3. QED BY <1>1, <2>1, <2>2 DEF IInv, TypeOK, TableRows, RealmRows, Open
  <1>4. CASE Cardinality(StandingOn(table, here)) # 1
    <2>1. PICK r \in Realms :
             /\ realm[r].st = "unborn" /\ realm' = Minted(r, v)
             /\ table' = [table EXCEPT ![t] = [st |-> "open", owner |-> v, realm |-> r]]
        BY <1>4 DEF Transfer, DoTransfer
    <2>2. \E x \in StandingOn(table, here) : x # t
        BY <1>2, <1>4, AloneOrNot
    <2>3. QED BY <1>1, <2>1, <2>2 DEF IInv, TypeOK, TableRows
  <1>5. QED BY <1>3, <1>4

\* What a move does: the table stands on ground of its owner's, and the realm it left
\* is struck only if that is empty and was never named.
LEMMA MoveEffect ==
    ASSUME IInv, NEW u \in Users, NEW t \in Tables, NEW g \in Realms \cup {Nowhere}, Move(u, t, g)
    PROVE  /\ Open(t) /\ table[t].owner = u
           /\ \A x \in Tables : x # t => table'[x] = table[x]
           /\ table'[t].st = "open" /\ table'[t].owner = u
           /\ \E r \in Realms :
                 /\ table'[t].realm = r
                 /\ realm[r].st = "unborn" \/ (There(r) /\ realm[r].owner = u)
                 /\ realm'[r].st = "there" /\ realm'[r].owner = u
                 /\ \A q \in Realms : q # r =>
                       /\ realm'[q].owner = realm[q].owner /\ realm'[q].named = realm[q].named
                       /\ \/ realm'[q].st = realm[q].st
                          \/ /\ q = table[t].realm /\ ~realm[q].named /\ StandingOn(table', q) = {}
                             /\ realm'[q].st = "gone"
                       /\ q = table[t].realm /\ ~realm[q].named /\ StandingOn(table', q) = {}
                             => realm'[q].st # "there"
  <1>1. Open(t) /\ table[t].owner = u /\ table[t].realm \in Realms /\ There(table[t].realm)
      BY DEF IInv, GroundFollowsOwner, Move, Owns
  <1>2. PICK r \in Realms :
           /\ IF g = Nowhere THEN realm[r].st = "unborn" ELSE r = g /\ There(r) /\ realm[r].owner = u
           /\ table' = [table EXCEPT ![t].realm = r]
           /\ realm' = Swept(IF g = Nowhere THEN Minted(r, u) ELSE realm, table', table[t].realm)
      BY DEF Move, DoMove
  <1> DEFINE rs == IF g = Nowhere THEN Minted(r, u) ELSE realm
  <1>3. /\ rs \in [Realms -> RealmRows]
        /\ rs[r].st = "there" /\ rs[r].owner = u
        /\ \A q \in Realms : q # r => rs[q] = realm[q]
    <2>1. TypeOK /\ realm \in [Realms -> RealmRows]
        BY DEF IInv, TypeOK
    <2>2. CASE g = Nowhere
        BY <2>1, <2>2, MintedTyped DEF Minted
    <2>3. CASE g # Nowhere
        BY <1>2, <2>1, <2>3 DEF There
    <2>4. QED BY <2>2, <2>3
  <1>4. /\ table' \in [Tables -> TableRows]
        /\ \A x \in Tables : x # t => table'[x] = table[x]
        /\ table'[t].st = "open" /\ table'[t].owner = u /\ table'[t].realm = r
      BY <1>1, <1>2, RowTyped DEF IInv, TypeOK, TableRows, Open
  <1>5. t \in StandingOn(table', r)
      BY <1>4 DEF StandingOn
  <1> HIDE DEF rs
  <1>6. realm' = Swept(rs, table', table[t].realm)
      BY <1>2 DEF rs
  <1>7. \A q \in Realms :
           /\ realm'[q].owner = rs[q].owner /\ realm'[q].named = rs[q].named
           /\ \/ realm'[q].st = rs[q].st
              \/ /\ q = table[t].realm /\ ~rs[q].named /\ StandingOn(table', q) = {}
                 /\ realm'[q].st = "gone"
           /\ q = table[t].realm /\ ~rs[q].named /\ StandingOn(table', q) = {} => realm'[q].st # "there"
      BY <1>1, <1>3, <1>4, <1>6, SweptFacts
  <1>8. realm'[r].st = "there" /\ realm'[r].owner = u
      BY <1>3, <1>5, <1>7
  <1>9. \A q \in Realms : q # r =>
           /\ realm'[q].owner = realm[q].owner /\ realm'[q].named = realm[q].named
           /\ \/ realm'[q].st = realm[q].st
              \/ /\ q = table[t].realm /\ ~realm[q].named /\ StandingOn(table', q) = {}
                 /\ realm'[q].st = "gone"
           /\ q = table[t].realm /\ ~realm[q].named /\ StandingOn(table', q) = {}
                 => realm'[q].st # "there"
      BY <1>3, <1>7
  <1>10. realm[r].st = "unborn" \/ (There(r) /\ realm[r].owner = u)
      BY <1>2
  <1>11. QED BY <1>1, <1>4, <1>8, <1>9, <1>10

\* What disbanding does to the ground.
LEMMA DisbandEffect ==
    ASSUME IInv, NEW u \in Users, NEW t \in Tables, Disband(u, t)
    PROVE  /\ Open(t) /\ table'[t].st = "struck"
           /\ \A x \in Tables : x # t => table'[x] = table[x]
           /\ \A q \in Realms :
                 /\ realm'[q].owner = realm[q].owner /\ realm'[q].named = realm[q].named
                 /\ \/ realm'[q].st = realm[q].st
                    \/ /\ q = table[t].realm /\ ~realm[q].named /\ StandingOn(table', q) = {}
                       /\ realm'[q].st = "gone"
                 /\ q = table[t].realm /\ ~realm[q].named /\ StandingOn(table', q) = {}
                       => realm'[q].st # "there"
  <1>1. Open(t) /\ table[t].realm \in Realms
      BY DEF IInv, GroundFollowsOwner, Disband, DoDisband
  <1>2. /\ table' = [table EXCEPT ![t].st = "struck"]
        /\ realm' = Swept(realm, table', table[t].realm)
      BY DEF Disband, DoDisband
  <1>3. /\ table' \in [Tables -> TableRows] /\ table'[t].st = "struck"
        /\ \A x \in Tables : x # t => table'[x] = table[x]
      BY <1>2, RowTyped DEF IInv, TypeOK, TableRows
  <1>4. PICK rs \in [Realms -> RealmRows] : rs = realm
      BY DEF IInv, TypeOK
  <1>5. realm' = Swept(rs, table', table[t].realm)
      BY <1>2, <1>4
  <1>6. \A q \in Realms :
           /\ realm'[q].owner = rs[q].owner /\ realm'[q].named = rs[q].named
           /\ \/ realm'[q].st = rs[q].st
              \/ /\ q = table[t].realm /\ ~rs[q].named /\ StandingOn(table', q) = {}
                 /\ realm'[q].st = "gone"
           /\ q = table[t].realm /\ ~rs[q].named /\ StandingOn(table', q) = {}
                 => realm'[q].st # "there"
      BY <1>1, <1>3, <1>5, SweptFacts
  <1>7. QED BY <1>1, <1>3, <1>4, <1>6

\* What founding does to the ground.
LEMMA FoundEffect ==
    ASSUME IInv, NEW u \in Users, NEW g \in Realms \cup {Nowhere}, Found(u, g)
    PROVE  \E t \in Tables, r \in Realms :
              /\ table[t].st = "unfounded"
              /\ table'[t] = [st |-> "open", owner |-> u, realm |-> r]
              /\ \A x \in Tables : x # t => table'[x] = table[x]
              /\ realm[r].st = "unborn" \/ There(r)
              /\ realm'[r].st = "there" /\ realm'[r].owner = u
              /\ \A q \in Realms : q # r => realm'[q] = realm[q]
              /\ role' = [role EXCEPT ![t][u] = "dm"]
  <1>1. PICK t \in Tables, r \in Realms :
           /\ table[t].st = "unfounded"
           /\ IF g = Nowhere THEN realm[r].st = "unborn" ELSE r = g /\ There(r)
           /\ table' = [table EXCEPT ![t] = [st |-> "open", owner |-> u, realm |-> r]]
           /\ realm' = IF g = Nowhere THEN Minted(r, u) ELSE realm
           /\ role' = [role EXCEPT ![t][u] = "dm"]
      BY DEF Found, DoFound
  <1>2. TypeOK
      BY DEF IInv
  <1>3. /\ realm'[r].st = "there" /\ realm'[r].owner = u
        /\ \A q \in Realms : q # r => realm'[q] = realm[q]
    <2>1. CASE g = Nowhere
        BY <1>1, <1>2, <2>1 DEF TypeOK, Minted
    <2>2. CASE g # Nowhere
        BY <1>1, <2>2 DEF Found, MayFound, There
    <2>3. QED BY <2>1, <2>2
  <1>4. /\ table'[t] = [st |-> "open", owner |-> u, realm |-> r]
        /\ \A x \in Tables : x # t => table'[x] = table[x]
      BY <1>1, <1>2 DEF TypeOK
  <1>5. realm[r].st = "unborn" \/ There(r)
      BY <1>1
  <1>6. QED BY <1>1, <1>3, <1>4, <1>5

\* Every table stands on ground that is there and is its owner's.
LEMMA GroundStep == IInv /\ [Next]_vars => GroundFollowsOwner'
  <1> SUFFICES ASSUME IInv, [Next]_vars PROVE GroundFollowsOwner'
      OBVIOUS
  <1> USE DEF Open, There
  <1>1. ASSUME NEW u \in Users, NEW g \in Realms \cup {Nowhere}, Found(u, g)
        PROVE  GroundFollowsOwner'
    <2>1. PICK t \in Tables, r \in Realms :
             /\ table[t].st = "unfounded"
             /\ table'[t] = [st |-> "open", owner |-> u, realm |-> r]
             /\ \A x \in Tables : x # t => table'[x] = table[x]
             /\ realm[r].st = "unborn" \/ There(r)
             /\ realm'[r].st = "there" /\ realm'[r].owner = u
             /\ \A q \in Realms : q # r => realm'[q] = realm[q]
             /\ role' = [role EXCEPT ![t][u] = "dm"]
        BY <1>1, FoundEffect, ZenonT(30)
    <2>2. There(r) => realm[r].owner = u
        BY <1>1, <2>1 DEF IInv, TypeOK, RealmRows, Found, MayFound, DoFound, Minted
    <2>3. QED BY <2>1, <2>2 DEF IInv, GroundFollowsOwner
  <1>2. ASSUME NEW u \in Users, NEW t \in Tables, Disband(u, t) PROVE GroundFollowsOwner'
      BY <1>2, DisbandEffect DEF IInv, GroundFollowsOwner, StandingOn
  <1>3. ASSUME NEW u \in Users, NEW t \in Tables, NEW g \in Realms \cup {Nowhere}, Move(u, t, g)
        PROVE  GroundFollowsOwner'
    <2>1. PICK r \in Realms :
             /\ table'[t].realm = r
             /\ realm[r].st = "unborn" \/ (There(r) /\ realm[r].owner = u)
             /\ realm'[r].st = "there" /\ realm'[r].owner = u
             /\ \A q \in Realms : q # r =>
                   /\ realm'[q].owner = realm[q].owner
                   /\ \/ realm'[q].st = realm[q].st
                      \/ StandingOn(table', q) = {}
        BY <1>3, MoveEffect
    <2>2. /\ \A x \in Tables : x # t => table'[x] = table[x]
          /\ table'[t].st = "open" /\ table'[t].owner = u
        BY <1>3, MoveEffect
    <2>3. ASSUME NEW x \in Tables, x # t, table'[x].st = "open"
          PROVE  /\ table'[x].realm \in Realms /\ realm'[table'[x].realm].st = "there"
                 /\ realm'[table'[x].realm].owner = table'[x].owner
      <3>1. /\ table[x].realm \in Realms /\ There(table[x].realm) /\ table'[x] = table[x]
            /\ realm[table[x].realm].owner = table[x].owner
          BY <2>2, <2>3 DEF IInv, GroundFollowsOwner
      <3>2. x \in StandingOn(table', table[x].realm)
          BY <2>3, <3>1 DEF StandingOn
      <3>3. QED BY <2>1, <3>1, <3>2
    <2>4. QED BY <2>1, <2>2, <2>3 DEF GroundFollowsOwner
  <1>4. ASSUME NEW u \in Users, NEW r \in Realms, Rename(u, r) PROVE GroundFollowsOwner'
      BY <1>4 DEF IInv, TypeOK, RealmRows, GroundFollowsOwner, Rename, DoRename
  <1>5. ASSUME NEW u \in Users, NEW r \in Realms, Raze(u, r) PROVE GroundFollowsOwner'
      BY <1>5 DEF IInv, TypeOK, RealmRows, GroundFollowsOwner, Raze, DoRaze, StandingOn
  <1>6. ASSUME NEW u \in Users, NEW t \in Tables, NEW v \in Users, Transfer(u, t, v)
        PROVE  GroundFollowsOwner'
    <2>1. /\ Open(t) /\ table[t].realm \in Realms /\ There(table[t].realm)
          /\ \A x \in Tables : x # t => table'[x] = table[x]
          /\ table'[t].st = "open" /\ table'[t].owner = v
        BY <1>6, TransferEffect
    <2>2. CASE /\ StandingOn(table, table[t].realm) = {t}
               /\ table'[t].realm = table[t].realm
               /\ \A r \in Realms : /\ realm'[r].st = realm[r].st
                                    /\ r # table[t].realm => realm'[r] = realm[r]
               /\ realm'[table[t].realm].owner = v
      <3>1. ASSUME NEW x \in Tables, x # t, Open(x)
            PROVE  table[x].realm # table[t].realm
          BY <2>2, <3>1 DEF StandingOn
      <3>2. QED BY <2>1, <2>2, <3>1 DEF IInv, GroundFollowsOwner
    <2>3. CASE \E r \in Realms : /\ realm[r].st = "unborn" /\ table'[t].realm = r
                                 /\ realm' = Minted(r, v)
      <3>1. PICK r \in Realms : /\ realm[r].st = "unborn" /\ table'[t].realm = r
                                /\ realm' = Minted(r, v)
          BY <2>3
      <3>2. /\ realm'[r].st = "there" /\ realm'[r].owner = v
            /\ \A q \in Realms : q # r => realm'[q] = realm[q]
          BY <3>1 DEF IInv, TypeOK, Minted
      <3>3. QED BY <2>1, <3>1, <3>2 DEF IInv, GroundFollowsOwner
    <2>4. QED BY <1>6, <2>2, <2>3, TransferEffect
  <1>7. ASSUME NEW u \in Users, Purge(u) PROVE GroundFollowsOwner'
      BY <1>7 DEF IInv, TypeOK, RealmRows, GroundFollowsOwner, Purge, StandingOn
  <1>8. CASE UNCHANGED <<table, realm>>
      BY <1>8 DEF IInv, GroundFollowsOwner
  <1>9. QED
      BY <1>1, <1>2, <1>3, <1>4, <1>5, <1>6, <1>7, <1>8, StillGround DEF Next, AtTable, OfAccount

\* A realm left empty that nobody named is swept in the step that empties it.
LEMMA HollowStep == IInv /\ [Next]_vars => NoHollowRealm'
  <1> SUFFICES ASSUME IInv, [Next]_vars PROVE NoHollowRealm'
      OBVIOUS
  <1> USE DEF Open, There
  <1>1. ASSUME NEW u \in Users, NEW g \in Realms \cup {Nowhere}, Found(u, g) PROVE NoHollowRealm'
    <2>1. PICK t \in Tables, r \in Realms :
             /\ table[t].st = "unfounded"
             /\ table'[t] = [st |-> "open", owner |-> u, realm |-> r]
             /\ \A x \in Tables : x # t => table'[x] = table[x]
             /\ realm[r].st = "unborn" \/ There(r)
             /\ realm'[r].st = "there" /\ realm'[r].owner = u
             /\ \A q \in Realms : q # r => realm'[q] = realm[q]
             /\ role' = [role EXCEPT ![t][u] = "dm"]
        BY <1>1, FoundEffect, ZenonT(30)
    <2>2. t \in StandingOn(table', r)
        BY <2>1 DEF StandingOn
    <2>3. \A q \in Realms : StandingOn(table, q) \subseteq StandingOn(table', q)
        BY <2>1 DEF StandingOn
    <2>4. QED BY <2>1, <2>2, <2>3 DEF IInv, NoHollowRealm
  <1>2. ASSUME NEW u \in Users, NEW t \in Tables, Disband(u, t) PROVE NoHollowRealm'
    <2>1. /\ \A x \in Tables : x # t => table'[x] = table[x]
          /\ \A q \in Realms :
                /\ realm'[q].named = realm[q].named
                /\ realm'[q].st = realm[q].st \/ realm'[q].st = "gone"
                /\ q = table[t].realm /\ ~realm[q].named /\ StandingOn(table', q) = {}
                      => realm'[q].st # "there"
        BY <1>2, DisbandEffect
    <2>2. \A q \in Realms : q # table[t].realm => StandingOn(table, q) \subseteq StandingOn(table', q)
        BY <2>1 DEF StandingOn
    <2>3. QED BY <2>1, <2>2 DEF IInv, NoHollowRealm
  <1>3. ASSUME NEW u \in Users, NEW t \in Tables, NEW g \in Realms \cup {Nowhere}, Move(u, t, g)
        PROVE  NoHollowRealm'
    <2>1. /\ \A x \in Tables : x # t => table'[x] = table[x]
          /\ table'[t].st = "open"
        BY <1>3, MoveEffect
    <2>2. PICK r \in Realms :
             /\ table'[t].realm = r
             /\ \A q \in Realms : q # r =>
                   /\ realm'[q].named = realm[q].named
                   /\ realm'[q].st = realm[q].st \/ realm'[q].st = "gone"
                   /\ q = table[t].realm /\ ~realm[q].named /\ StandingOn(table', q) = {}
                         => realm'[q].st # "there"
        BY <1>3, MoveEffect
    <2>3. t \in StandingOn(table', r)
        BY <2>1, <2>2 DEF StandingOn
    <2>4. \A q \in Realms : q # table[t].realm => StandingOn(table, q) \subseteq StandingOn(table', q)
        BY <2>1 DEF StandingOn
    <2>5. QED BY <2>2, <2>3, <2>4 DEF IInv, NoHollowRealm
  <1>4. ASSUME NEW u \in Users, NEW r \in Realms, Rename(u, r) \/ Raze(u, r) PROVE NoHollowRealm'
    <2>1. CASE Rename(u, r)
        BY <2>1 DEF IInv, TypeOK, RealmRows, NoHollowRealm, Rename, DoRename, StandingOn
    <2>2. CASE Raze(u, r)
        BY <2>2 DEF IInv, TypeOK, RealmRows, NoHollowRealm, Raze, DoRaze, StandingOn
    <2>3. QED BY <1>4, <2>1, <2>2
  <1>5. ASSUME NEW u \in Users, NEW t \in Tables, NEW v \in Users, Transfer(u, t, v)
        PROVE  NoHollowRealm'
    <2>1. /\ \A x \in Tables : x # t => table'[x] = table[x]
          /\ table'[t].st = "open"
        BY <1>5, TransferEffect
    <2>2. \A q \in Realms : q # table[t].realm => StandingOn(table, q) \subseteq StandingOn(table', q)
        BY <2>1 DEF StandingOn
    <2>3. CASE /\ table'[t].realm = table[t].realm
               /\ \A r \in Realms : realm'[r].st = realm[r].st /\ realm'[r].named = realm[r].named
      <3>1. t \in StandingOn(table', table[t].realm)
          BY <2>1, <2>3 DEF StandingOn
      <3>2. QED BY <2>2, <2>3, <3>1 DEF IInv, NoHollowRealm
    <2>4. CASE /\ \E x \in StandingOn(table, table[t].realm) : x # t
               /\ \E r \in Realms : realm[r].st = "unborn" /\ table'[t].realm = r /\ realm' = Minted(r, v)
      <3>1. PICK r \in Realms : table'[t].realm = r /\ realm' = Minted(r, v)
          BY <2>4
      <3>2. \A q \in Realms : q # r => realm'[q] = realm[q]
          BY <3>1 DEF IInv, TypeOK, Minted
      <3>3. t \in StandingOn(table', r)
          BY <2>1, <3>1 DEF StandingOn
      <3>4. StandingOn(table', table[t].realm) # {}
          BY <2>1, <2>4 DEF StandingOn
      <3>5. QED BY <2>2, <3>2, <3>3, <3>4 DEF IInv, NoHollowRealm
    <2>5. QED BY <1>5, <2>3, <2>4, TransferEffect
  <1>6. ASSUME NEW u \in Users, Purge(u) PROVE NoHollowRealm'
      BY <1>6 DEF IInv, TypeOK, RealmRows, NoHollowRealm, Purge, StandingOn
  <1>7. CASE UNCHANGED <<table, realm>>
      BY <1>7 DEF IInv, NoHollowRealm, StandingOn
  <1>8. QED
      BY <1>1, <1>2, <1>3, <1>4, <1>5, <1>6, <1>7, StillGround DEF Next, AtTable, OfAccount

\* Which tables a person owns after a step: only founding and being handed one adds any.
LEMMA OwnedStep ==
    ASSUME IInv, [Next]_vars, NEW w \in Users
    PROVE  \/ OwnedBy(w)' \subseteq OwnedBy(w)
           \/ \E g \in Realms \cup {Nowhere} : Found(w, g)
           \/ \E u \in Users, t \in Tables : Transfer(u, t, w)
  <1> USE DEF Open
  <1>1. ASSUME NEW u \in Users, NEW g \in Realms \cup {Nowhere}, Found(u, g), u # w
        PROVE  OwnedBy(w)' \subseteq OwnedBy(w)
    <2>1. PICK t \in Tables :
             /\ table'[t].owner = u
             /\ \A x \in Tables : x # t => table'[x] = table[x]
        BY <1>1 DEF IInv, TypeOK, Found, DoFound
    <2>2. QED BY <1>1, <2>1 DEF OwnedBy
  <1>2. ASSUME NEW u \in Users, NEW t \in Tables, Disband(u, t) PROVE OwnedBy(w)' \subseteq OwnedBy(w)
      BY <1>2, DisbandEffect DEF OwnedBy
  <1>3. ASSUME NEW u \in Users, NEW t \in Tables, NEW g \in Realms \cup {Nowhere}, Move(u, t, g)
        PROVE  OwnedBy(w)' \subseteq OwnedBy(w)
      BY <1>3, MoveEffect DEF OwnedBy
  <1>4. ASSUME NEW u \in Users, NEW t \in Tables, NEW v \in Users, Transfer(u, t, v), v # w
        PROVE  OwnedBy(w)' \subseteq OwnedBy(w)
      BY <1>4, TransferEffect DEF OwnedBy
  <1>5. CASE UNCHANGED table
      BY <1>5 DEF OwnedBy
  <1>6. \A u, r : Rename(u, r) \/ Raze(u, r) \/ Purge(u) => UNCHANGED table
      BY DEF Rename, DoRename, Raze, DoRaze, Purge
  <1>7. QED BY <1>1, <1>2, <1>3, <1>4, <1>5, <1>6, StillGround DEF Next, AtTable, OfAccount

\* What a step leaves of the accounts and the sessions, but for asking, cancelling,
\* signing in and the purge.
LEMMA StillAccounts ==
    ASSUME [Next]_vars
    PROVE  \/ UNCHANGED <<account, signedIn>>
           \/ \E u \in Users : AskToLeave(u) \/ OperatorSchedules(u) \/ OperatorCancels(u) \/ SignIn(u)
                             \/ Purge(u)
  <1>1. \A u, g : Found(u, g) => UNCHANGED <<account, signedIn>>
      BY DEF Found, DoFound
  <1>2. \A u, r : Rename(u, r) \/ Raze(u, r) => UNCHANGED <<account, signedIn>>
      BY DEF Rename, DoRename, Raze, DoRaze
  <1>3. \A u, t : AtTable(u, t) => UNCHANGED <<account, signedIn>>
    <2>1. \A u, t : Disband(u, t) \/ Join(u, t) \/ Leave(u, t) => UNCHANGED <<account, signedIn>>
        BY DEF Disband, DoDisband, Join, DoJoin, Leave, DoRemove
    <2>2. \A u, t, g : Move(u, t, g) => UNCHANGED <<account, signedIn>>
        BY DEF Move, DoMove
    <2>3. \A u, t, v : Kick(u, t, v) \/ Ban(u, t, v) \/ Unban(u, t, v) \/ Transfer(u, t, v)
                => UNCHANGED <<account, signedIn>>
        BY DEF Kick, DoRemove, Ban, DoBan, Unban, DoUnban, Transfer, DoTransfer
    <2>4. \A u, t, v, as : Appoint(u, t, v, as) => UNCHANGED <<account, signedIn>>
        BY DEF Appoint, DoAppoint
    <2>5. QED BY <2>1, <2>2, <2>3, <2>4 DEF AtTable
  <1>4. UNCHANGED vars => UNCHANGED <<account, signedIn>>
      BY DEF vars
  <1>5. QED BY <1>1, <1>2, <1>3, <1>4 DEF Next, OfAccount

\* An account that waits out its week comes to own nothing, and stays signed out.
LEMMA LeavingStep == IInv /\ [Next]_vars => LeavingIsClear'
  <1> SUFFICES ASSUME IInv, [Next]_vars, NEW w \in Users \ Flaky, account'[w] = "leaving"
               PROVE  w \notin signedIn' /\ OwnedBy(w)' = {}
      BY DEF LeavingIsClear
  <1>1. CASE account[w] = "leaving"
    <2>1. w \notin signedIn /\ OwnedBy(w) = {}
        BY <1>1 DEF IInv, LeavingIsClear
    <2>2. ~\E g \in Realms \cup {Nowhere} : Found(w, g)
        BY <2>1 DEF Found, MayFound
    <2>3. ~\E u \in Users, t \in Tables : Transfer(u, t, w)
        BY <1>1 DEF Transfer, MayTransfer
    <2>4. OwnedBy(w)' = {}
        BY <2>1, <2>2, <2>3, OwnedStep
    <2>5. CASE UNCHANGED <<account, signedIn>>
        BY <2>1, <2>4, <2>5
    <2>6. ASSUME NEW u \in Users, AskToLeave(u) \/ OperatorSchedules(u) PROVE w \notin signedIn'
        BY <2>1, <2>6 DEF AskToLeave, OperatorSchedules, DoSchedule
    <2>7. ASSUME NEW u \in Users, OperatorCancels(u) \/ Purge(u) PROVE w \notin signedIn'
        BY <2>1, <2>7 DEF OperatorCancels, Purge
    <2>8. ASSUME NEW u \in Users, SignIn(u) PROVE w \notin signedIn'
        BY <2>1, <2>8 DEF IInv, TypeOK, SignIn, DoSignIn, Reprieved
    <2>9. QED BY <2>4, <2>5, <2>6, <2>7, <2>8, StillAccounts
  <1>2. CASE account[w] # "leaving"
    <2>1. ASSUME NEW u \in Users, AskToLeave(u) \/ OperatorSchedules(u)
          PROVE  w \notin signedIn' /\ OwnedBy(w)' = {}
      <3>1. u = w /\ OwnedBy(w) = {} /\ signedIn' = signedIn \ {w}
          BY <1>2, <2>1 DEF IInv, TypeOK, AskToLeave, OperatorSchedules, MayAsk, MaySchedule, DoSchedule
      <3>2. UNCHANGED table
          BY <2>1 DEF AskToLeave, OperatorSchedules, DoSchedule
      <3>3. QED BY <3>1, <3>2 DEF OwnedBy, Open
    <2>2. ASSUME NEW u \in Users, OperatorCancels(u) \/ SignIn(u) \/ Purge(u) PROVE FALSE
        BY <1>2, <2>2 DEF IInv, TypeOK, OperatorCancels, SignIn, DoSignIn, Purge, Reprieved
    <2>3. CASE UNCHANGED <<account, signedIn>>
        BY <1>2, <2>3
    <2>4. QED BY <2>1, <2>2, <2>3, StillAccounts
  <1>3. QED BY <1>1, <1>2

\* Who comes to sit at a table: a founder, and one who joins, is appointed or is handed
\* it; the last two sat there already.
LEMMA MemberStep ==
    ASSUME IInv, [Next]_vars, NEW w \in Users, w \notin signedIn, NEW t \in Tables, ~Member(t, w)
    PROVE  ~Member(t, w)'
  <1> USE DEF Member
  <1>1. ASSUME NEW u \in Users, NEW g \in Realms \cup {Nowhere}, Found(u, g) PROVE ~Member(t, w)'
      BY <1>1 DEF IInv, TypeOK, Found, MayFound, DoFound
  <1>2. ASSUME NEW u \in Users, NEW x \in Tables, Disband(u, x) PROVE ~Member(t, w)'
      BY <1>2 DEF IInv, TypeOK, Disband, DoDisband
  <1>3. ASSUME NEW u \in Users, NEW x \in Tables, Join(u, x) \/ Leave(u, x) PROVE ~Member(t, w)'
      BY <1>3 DEF IInv, TypeOK, Join, MayJoin, DoJoin, Leave, DoRemove, Unseated
  <1>4. ASSUME NEW u \in Users, NEW x \in Tables, NEW v \in Users, Kick(u, x, v) \/ Ban(u, x, v)
        PROVE  ~Member(t, w)'
      BY <1>4 DEF IInv, TypeOK, Kick, DoRemove, Ban, DoBan, Unseated
  <1>5. ASSUME NEW u \in Users, NEW x \in Tables, NEW v \in Users, NEW as \in {"player", "dm"},
               Appoint(u, x, v, as)
        PROVE  ~Member(t, w)'
      BY <1>5 DEF IInv, TypeOK, Appoint, MayAppoint, DoAppoint
  <1>6. ASSUME NEW u \in Users, NEW x \in Tables, NEW v \in Users, Transfer(u, x, v)
        PROVE  ~Member(t, w)'
      BY <1>6 DEF IInv, TypeOK, Transfer, MayTransfer, DoTransfer
  <1>7. ASSUME NEW u \in Users, Purge(u) PROVE ~Member(t, w)'
      BY <1>7 DEF IInv, TypeOK, Purge
  <1>8. ASSUME NEW u \in Users, NEW x \in Tables, NEW v \in Users, NEW g, Unban(u, x, v) \/ Move(u, x, g)
        PROVE  ~Member(t, w)'
      BY <1>8 DEF Unban, DoUnban, Move, DoMove
  <1>9. CASE StillRoster
      BY <1>9 DEF StillRoster
  <1>10. QED
      BY <1>1, <1>2, <1>3, <1>4, <1>5, <1>6, <1>7, <1>8, <1>9, StillSteps DEF Next, AtTable, OfAccount

\* Who comes to own a realm: a founder, one who moves a table, one who is handed it.
LEMMA RealmStep ==
    ASSUME IInv, [Next]_vars, NEW w \in Users, w \notin signedIn, NEW r \in Realms,
           ~(There(r) /\ realm[r].owner = w), \A t \in Tables : ~Member(t, w)
    PROVE  ~(There(r) /\ realm[r].owner = w)'
  <1> USE DEF There
  <1>1. ASSUME NEW u \in Users, NEW g \in Realms \cup {Nowhere}, Found(u, g)
        PROVE  ~(There(r) /\ realm[r].owner = w)'
      BY <1>1 DEF IInv, TypeOK, Found, MayFound, DoFound, Minted
  <1>2. ASSUME NEW u \in Users, NEW t \in Tables, Disband(u, t)
        PROVE  ~(There(r) /\ realm[r].owner = w)'
      BY <1>2, DisbandEffect
  <1>3. ASSUME NEW u \in Users, NEW t \in Tables, NEW g \in Realms \cup {Nowhere}, Move(u, t, g)
        PROVE  ~(There(r) /\ realm[r].owner = w)'
    <2>1. u # w
        BY <1>3 DEF Move, Owns
    <2>2. PICK q \in Realms :
             /\ realm'[q].owner = u
             /\ \A p \in Realms : p # q =>
                   /\ realm'[p].owner = realm[p].owner
                   /\ realm'[p].st = realm[p].st \/ realm'[p].st = "gone"
        BY <1>3, MoveEffect
    <2>3. QED BY <2>1, <2>2
  <1>4. ASSUME NEW u \in Users, NEW q \in Realms, Rename(u, q) \/ Raze(u, q)
        PROVE  ~(There(r) /\ realm[r].owner = w)'
      BY <1>4 DEF IInv, TypeOK, RealmRows, Rename, DoRename, Raze, DoRaze
  <1>5. ASSUME NEW u \in Users, NEW t \in Tables, NEW v \in Users, Transfer(u, t, v)
        PROVE  ~(There(r) /\ realm[r].owner = w)'
    <2>1. v # w
        BY <1>5 DEF Transfer, MayTransfer
    <2>2. CASE /\ \A q \in Realms : /\ realm'[q].st = realm[q].st
                                    /\ q # table[t].realm => realm'[q] = realm[q]
               /\ realm'[table[t].realm].owner = v
        BY <2>1, <2>2
    <2>3. CASE \E q \in Realms : realm' = Minted(q, v)
      <3>1. PICK q \in Realms : realm' = Minted(q, v)
          BY <2>3
      <3>2. realm'[q].owner = v /\ \A p \in Realms : p # q => realm'[p] = realm[p]
          BY <3>1 DEF IInv, TypeOK, Minted
      <3>3. QED BY <2>1, <3>2
    <2>4. QED BY <1>5, <2>2, <2>3, TransferEffect
  <1>6. ASSUME NEW u \in Users, Purge(u) PROVE ~(There(r) /\ realm[r].owner = w)'
      BY <1>6 DEF IInv, TypeOK, RealmRows, Purge
  <1>7. CASE UNCHANGED <<table, realm>>
      BY <1>7
  <1>8. QED
      BY <1>1, <1>2, <1>3, <1>4, <1>5, <1>6, <1>7, StillGround DEF Next, AtTable, OfAccount

\* A tombstone stays empty-handed, and an account becomes one empty-handed.
LEMMA TombstoneStep == IInv /\ [Next]_vars => TombstoneHeldClear'
  <1> SUFFICES ASSUME IInv, [Next]_vars, NEW w \in Users \ Flaky, account'[w] = "gone"
               PROVE  /\ w \notin signedIn'
                      /\ OwnedBy(w)' = {}
                      /\ \A t \in Tables : ~Member(t, w)'
                      /\ \A r \in Realms : ~(There(r) /\ realm[r].owner = w)'
      BY DEF TombstoneHeldClear
  <1>1. CASE account[w] = "gone"
    <2>1. /\ w \notin signedIn /\ OwnedBy(w) = {}
          /\ \A t \in Tables : ~Member(t, w)
          /\ \A r \in Realms : ~(There(r) /\ realm[r].owner = w)
        BY <1>1 DEF IInv, TombstoneHeldClear
    <2>2. ~\E g \in Realms \cup {Nowhere} : Found(w, g)
        BY <2>1 DEF Found, MayFound
    <2>3. ~\E u \in Users, t \in Tables : Transfer(u, t, w)
        BY <2>1 DEF Transfer, MayTransfer
    <2>4. OwnedBy(w)' = {}
        BY <2>1, <2>2, <2>3, OwnedStep
    <2>5. w \notin signedIn'
      <3>1. ASSUME NEW u \in Users, AskToLeave(u) \/ OperatorSchedules(u) PROVE w \notin signedIn'
          BY <2>1, <3>1 DEF AskToLeave, OperatorSchedules, DoSchedule
      <3>2. ASSUME NEW u \in Users, OperatorCancels(u) \/ Purge(u) PROVE w \notin signedIn'
          BY <2>1, <3>2 DEF OperatorCancels, Purge
      <3>3. ASSUME NEW u \in Users, SignIn(u) PROVE w \notin signedIn'
          BY <1>1, <2>1, <3>3 DEF SignIn, MaySignIn, DoSignIn
      <3>4. QED BY <2>1, <3>1, <3>2, <3>3, StillAccounts
    <2>6. \A t \in Tables : ~Member(t, w)'
        BY <2>1, MemberStep
    <2>7. \A r \in Realms : ~(There(r) /\ realm[r].owner = w)'
        BY <2>1, RealmStep
    <2>8. QED BY <2>4, <2>5, <2>6, <2>7
  <1>2. CASE account[w] # "gone"
    <2>1. ASSUME NEW u \in Users,
                 AskToLeave(u) \/ OperatorSchedules(u) \/ OperatorCancels(u) \/ SignIn(u)
          PROVE  FALSE
        BY <1>2, <2>1 DEF IInv, TypeOK, AskToLeave, OperatorSchedules, DoSchedule, OperatorCancels,
               SignIn, DoSignIn, Reprieved
    <2>2. Purge(w)
        BY <1>2, <2>1, StillAccounts DEF IInv, TypeOK, Purge
    <2>3. w \notin signedIn' /\ OwnedBy(w)' = {}
        BY <2>2 DEF IInv, LeavingIsClear, Purge, OwnedBy, Open
    <2>4. \A t \in Tables : ~Member(t, w)'
        BY <2>2 DEF IInv, TypeOK, Member, Purge
    <2>5. \A r \in Realms : ~(There(r) /\ realm[r].owner = w)'
        BY <2>2 DEF IInv, TypeOK, RealmRows, There, Purge
    <2>6. QED BY <2>3, <2>4, <2>5
  <1>3. QED BY <1>1, <1>2

\* A realm somebody named is struck only when nothing stands on it, as the step begins.
LEMMA NamedStep ==
    ASSUME IInv, [Next]_vars, NEW q \in Realms, There(q), realm[q].named, realm'[q].st = "gone"
    PROVE  StandingOn(table, q) = {}
  <1> USE DEF There
  <1>1. ASSUME NEW u \in Users, NEW g \in Realms \cup {Nowhere}, Found(u, g) PROVE FALSE
    <2>1. PICK r \in Realms : /\ realm'[r].st = "there"
                              /\ \A p \in Realms : p # r => realm'[p] = realm[p]
        BY <1>1, FoundEffect
    <2>2. QED BY <2>1
  <1>2. ASSUME NEW u \in Users, NEW t \in Tables, Disband(u, t) PROVE FALSE
      BY <1>2, DisbandEffect
  <1>3. ASSUME NEW u \in Users, NEW t \in Tables, NEW g \in Realms \cup {Nowhere}, Move(u, t, g)
        PROVE  FALSE
    <2>1. PICK r \in Realms :
             /\ realm'[r].st = "there"
             /\ \A p \in Realms : p # r => realm'[p].st = realm[p].st \/ ~realm[p].named
        BY <1>3, MoveEffect
    <2>2. QED BY <2>1
  <1>4. ASSUME NEW u \in Users, NEW r \in Realms, Rename(u, r) \/ Raze(u, r)
        PROVE  StandingOn(table, q) = {}
      BY <1>4, ZenonT(30) DEF IInv, TypeOK, RealmRows, Rename, DoRename, Raze, DoRaze
  <1>5. ASSUME NEW u \in Users, NEW t \in Tables, NEW v \in Users, Transfer(u, t, v) PROVE FALSE
    <2>1. CASE \A r \in Realms : realm'[r].st = realm[r].st
        BY <2>1
    <2>2. CASE \E r \in Realms : realm' = Minted(r, v)
      <3>1. PICK r \in Realms : realm' = Minted(r, v)
          BY <2>2
      <3>2. realm'[r].st = "there" /\ \A p \in Realms : p # r => realm'[p] = realm[p]
          BY <3>1 DEF IInv, TypeOK, Minted
      <3>3. QED BY <3>2
    <2>3. QED BY <1>5, <2>1, <2>2, TransferEffect
  <1>6. ASSUME NEW u \in Users, Purge(u) PROVE StandingOn(table, q) = {}
      BY <1>6 DEF IInv, TypeOK, RealmRows, Purge
  <1>7. CASE UNCHANGED <<table, realm>>
      BY <1>7
  <1>8. QED
      BY <1>1, <1>2, <1>3, <1>4, <1>5, <1>6, <1>7, StillGround DEF Next, AtTable, OfAccount

\* The invariant holds at first.
LEMMA InitInv == Init => IInv
  <1> SUFFICES ASSUME Init PROVE IInv
      OBVIOUS
  <1>1. TypeOK
      BY DEF Init, TypeOK, TableRows, RealmRows, Roles
  <1>2. OwnerIsDM /\ GroundFollowsOwner /\ BarredStayOut /\ ClosedHoldsNobody
      BY DEF Init, OwnerIsDM, GroundFollowsOwner, BarredStayOut, ClosedHoldsNobody, Open, Member
  <1>3. NoHollowRealm
      BY DEF Init, NoHollowRealm, There
  <1>4. LeavingIsClear /\ TombstoneHeldClear
      BY DEF Init, LeavingIsClear, TombstoneHeldClear
  <1>5. QED BY <1>1, <1>2, <1>3, <1>4 DEF IInv

\* Every step keeps the invariant.
THEOREM Inductive == IInv /\ [Next]_vars => IInv'
  BY TypeStep, OwnerStep, GroundStep, BarredStep, ClosedStep, HollowStep, LeavingStep,
     TombstoneStep DEF IInv

\* The invariant holds of every behaviour.
THEOREM Invariance == Spec => []IInv
  <1>1. QED BY InitInv, Inductive, PTL DEF Spec

\* Every variable has its type.
THEOREM TypeCorrect == Spec => []TypeOK
  <1>1. IInv => TypeOK
      BY DEF IInv
  <1>2. QED BY <1>1, Invariance, PTL

\* Whoever holds a table is a DM of it, always.
THEOREM OwnerIsDMHolds == Spec => []OwnerIsDM
  <1>1. IInv => OwnerIsDM
      BY DEF IInv
  <1>2. QED BY <1>1, Invariance, PTL

\* A realm's tables share the realm's owner, always.
THEOREM GroundFollowsOwnerHolds == Spec => []GroundFollowsOwner
  <1>1. IInv => GroundFollowsOwner
      BY DEF IInv
  <1>2. QED BY <1>1, Invariance, PTL

\* Nobody sits where they are barred, always.
THEOREM BarredStayOutHolds == Spec => []BarredStayOut
  <1>1. IInv => BarredStayOut
      BY DEF IInv
  <1>2. QED BY <1>1, Invariance, PTL

\* No unnamed realm stands empty, ever.
THEOREM NoHollowRealmHolds == Spec => []NoHollowRealm
  <1>1. IInv => NoHollowRealm
      BY DEF IInv
  <1>2. QED BY <1>1, Invariance, PTL

\* Nothing an account owns stands in the way of its purge, if sessions can be ended.
THEOREM LeavingIsClearHolds == Spec => []LeavingIsClear
  <1>1. IInv => LeavingIsClear
      BY DEF IInv
  <1>2. QED BY <1>1, Invariance, PTL

\* A tombstone holds nothing, if sessions can be ended.
THEOREM TombstoneHeldClearHolds == Spec => []TombstoneHeldClear
  <1>1. IInv => TombstoneHeldClear
      BY DEF IInv
  <1>2. QED BY <1>1, Invariance, PTL

\* A table that is struck, or not founded, seats and bars nobody, always.
THEOREM ClosedHoldsNobodyHolds == Spec => []ClosedHoldsNobody
  <1>1. IInv => ClosedHoldsNobody
      BY DEF IInv
  <1>2. QED BY <1>1, Invariance, PTL

\* A realm somebody named is never struck by the table that leaves it.
THEOREM NamedOutlivesHolds == Spec => NamedOutlives
  <1>1. IInv /\ [Next]_vars =>
           [\A r \in Realms : There(r) /\ realm[r].named /\ realm'[r].st = "gone"
                                => StandingOn(table, r) = {}]_vars
      BY NamedStep
  <1>2. QED BY <1>1, Invariance, PTL DEF Spec, NamedOutlives
=============================================================================
