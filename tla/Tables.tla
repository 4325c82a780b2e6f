------------------------------- MODULE Tables -------------------------------
(***************************************************************************)
(* Who sits at which table, who holds it, on whose ground it stands, and   *)
(* who may leave the place altogether: memberships, bans, ownership,       *)
(* realms and account deletion, which share the campaigns row.             *)
(*                                                                         *)
(* Source: internal/http/api.go, members.go, ownership.go, realms.go,      *)
(* account_deletion.go, internal/accounts, internal/auth/deletion.go,      *)
(* cmd/server/admin_delete.go and their queries.                           *)
(*                                                                         *)
(* A handler first reads, outside any transaction, what entitles the       *)
(* caller (MayKick ...), and then writes in one transaction (DoKick ...).  *)
(* The two halves are kept apart: here an operation is both at once, and   *)
(* TablesRace lets other requests run between them. A transaction is one   *)
(* step. What it needs of a foreign key is a conjunct of its Do operator.  *)
(***************************************************************************)
EXTENDS Naturals, FiniteSets

CONSTANTS
    Users,       \* accounts
    Tables,      \* campaign rows; an id is never used twice
    Realms,      \* realm rows; an id is never used twice
    Nobody,      \* the owner of a row that does not exist yet
    Nowhere,     \* uuid.Nil: "ground of its own" in a request
    Flaky        \* those for whom ending sessions, or undoing a deletion, may fail

ASSUME ConstantsOK ==
    /\ IsFiniteSet(Tables)
    /\ Nobody \notin Users
    /\ Nowhere \notin Realms
    /\ Flaky \subseteq Users

VARIABLES
    table,       \* campaigns rows: state, owner and realm
    role,        \* memberships: role[t][u], "none" without a row
    banned,      \* campaign_bans rows, <<t, u>>
    realm,       \* realms rows: state, owner and whether it was ever named
    account,     \* users rows: active, leaving (scheduled) or gone
    signedIn     \* accounts with a live session or API token

vars == <<table, role, banned, realm, account, signedIn>>

Roles == {"none", "player", "dm"}

TableRows == [st : {"unfounded", "open", "struck"},
              owner : Users \cup {Nobody}, realm : Realms \cup {Nowhere}]

RealmRows == [st : {"unborn", "there", "gone"},
              owner : Users \cup {Nobody}, named : BOOLEAN]

TypeOK ==
    /\ table \in [Tables -> TableRows]
    /\ role \in [Tables -> [Users -> Roles]]
    /\ banned \subseteq Tables \X Users
    /\ realm \in [Realms -> RealmRows]
    /\ account \in [Users -> {"active", "leaving", "gone"}]
    /\ signedIn \subseteq Users

Init ==
    /\ table = [t \in Tables |-> [st |-> "unfounded", owner |-> Nobody, realm |-> Nowhere]]
    /\ role = [t \in Tables |-> [u \in Users |-> "none"]]
    /\ banned = {}
    /\ realm = [r \in Realms |-> [st |-> "unborn", owner |-> Nobody, named |-> FALSE]]
    /\ account = [u \in Users |-> "active"]
    /\ signedIn = Users

-----------------------------------------------------------------------------
(* Helpers.                                                                *)

Open(t) == table[t].st = "open"
There(r) == realm[r].st = "there"
Member(t, u) == role[t][u] # "none"

\* requireOwner and requireDM: the caller is signed in and holds the table, or runs it.
Owns(u, t) == u \in signedIn /\ Open(t) /\ table[t].owner = u
Runs(u, t) == u \in signedIn /\ Open(t) /\ role[t][u] = "dm"

\* CountCampaignsInRealm, over the rows ts.
StandingOn(ts, r) == {t \in Tables : ts[t].st = "open" /\ ts[t].realm = r}

\* ListCampaignsOwnedBy: what blocks a deletion.
OwnedBy(u) == {t \in Tables : Open(t) /\ table[t].owner = u}

\* realmOfItsOwn: a realm nobody has named, of u's.
Minted(r, u) == [realm EXCEPT ![r] = [st |-> "there", owner |-> u, named |-> FALSE]]

\* Mutant of Swept: a realm somebody named goes too.
SweptNamed(rs, ts, g) ==
    IF g \in Realms /\ rs[g].st = "there" /\ StandingOn(ts, g) = {}
    THEN [rs EXCEPT ![g].st = "gone"]
    ELSE rs

\* The realms after sweepUnnamedRealm(g), when the tables are ts and the realms rs.
Swept(rs, ts, g) ==
    IF g \in Realms /\ rs[g].st = "there" /\ ~rs[g].named /\ StandingOn(ts, g) = {}
    THEN [rs EXCEPT ![g].st = "gone"]
    ELSE rs

\* accounts.LeaveTable for one person at one table.
Unseated(t, u) == [role EXCEPT ![t][u] = "none"]

-----------------------------------------------------------------------------
(* Founding, disbanding and moving a table (api.go, realms.go).            *)

\* CreateCampaign: on ground of its own, or on a realm that is the caller's.
MayFound(u, g) == u \in signedIn /\ (g = Nowhere \/ (g \in Realms /\ There(g) /\ realm[g].owner = u))

\* createCampaignTx: the realm (if it is founding one), the campaign and the DM's seat.
DoFound(u, g) ==
    \E t \in Tables, r \in Realms :
        /\ table[t].st = "unfounded"
        /\ IF g = Nowhere THEN realm[r].st = "unborn" ELSE r = g /\ There(r)
        /\ table' = [table EXCEPT ![t] = [st |-> "open", owner |-> u, realm |-> r]]
        /\ realm' = IF g = Nowhere THEN Minted(r, u) ELSE realm
        /\ role' = [role EXCEPT ![t][u] = "dm"]
        /\ UNCHANGED <<banned, account, signedIn>>

\* Mutant of DoDisband: the ground is not judged.
DoDisbandUnswept(t) ==
    /\ Open(t)
    /\ table' = [table EXCEPT ![t].st = "struck"]
    /\ role' = [role EXCEPT ![t] = [u \in Users |-> "none"]]
    /\ banned' = {b \in banned : b[1] # t}
    /\ UNCHANGED <<realm, account, signedIn>>

\* deleteCampaignTx: the row goes, and its memberships and bans cascade.
DoDisband(t) ==
    /\ Open(t)
    /\ LET ts == [table EXCEPT ![t].st = "struck"] IN
       /\ table' = ts
       /\ realm' = Swept(realm, ts, table[t].realm)
    /\ role' = [role EXCEPT ![t] = [u \in Users |-> "none"]]
    /\ banned' = {b \in banned : b[1] # t}
    /\ UNCHANGED <<account, signedIn>>

\* SetCampaignRealm's transaction, for the caller u; the realm left is the one seen before it.
DoMove(u, t, g, previous) ==
    \E r \in Realms :
        /\ Open(t)
        /\ IF g = Nowhere THEN realm[r].st = "unborn"
           ELSE r = g /\ There(r) /\ realm[r].owner = u
        /\ LET ts == [table EXCEPT ![t].realm = r]
               rs == IF g = Nowhere THEN Minted(r, u) ELSE realm
           IN table' = ts /\ realm' = Swept(rs, ts, previous)
        /\ UNCHANGED <<role, banned, account, signedIn>>

\* RenameRealm and DeleteRealm are for whoever made the realm.
MayRename(u, r) == u \in signedIn /\ There(r) /\ realm[r].owner = u
MayRaze(u, r) == MayRename(u, r) /\ StandingOn(table, r) = {}

DoRename(r) ==
    /\ There(r)
    /\ realm' = [realm EXCEPT ![r].named = TRUE]
    /\ UNCHANGED <<table, role, banned, account, signedIn>>

\* Mutant of DoRaze: the statement does not look.
DoRazeStanding(r) ==
    /\ There(r)
    /\ realm' = [realm EXCEPT ![r].st = "gone"]
    /\ UNCHANGED <<table, role, banned, account, signedIn>>

\* DeleteRealm refuses in the statement itself while anything stands there.
DoRaze(r) ==
    /\ There(r) /\ StandingOn(table, r) = {}
    /\ realm' = [realm EXCEPT ![r].st = "gone"]
    /\ UNCHANGED <<table, role, banned, account, signedIn>>

-----------------------------------------------------------------------------
(* Coming and going (api.go, members.go).                                  *)

\* Mutant of MayJoin: nobody asks for the ban.
MayJoinBarred(u, t) == u \in signedIn /\ Open(t)

\* JoinCampaign: anybody with the invite code who is not barred.
MayJoin(u, t) == u \in signedIn /\ Open(t) /\ <<t, u>> \notin banned

\* Mutant of DoJoin: the membership does not hang from its table.
DoJoinAnywhere(u, t) ==
    /\ role' = [role EXCEPT ![t][u] = IF @ = "none" THEN "player" ELSE @]
    /\ UNCHANGED <<table, banned, realm, account, signedIn>>

DoJoin(u, t) ==
    /\ Open(t)
    /\ role' = [role EXCEPT ![t][u] = IF @ = "none" THEN "player" ELSE @]
    /\ UNCHANGED <<table, banned, realm, account, signedIn>>

\* Mutant of MayKick: a DM kicks any player, and the owner any DM, the owner included.
MayKickOwner(u, t, v) ==
    /\ Runs(u, t) /\ Member(t, v)
    /\ role[t][v] = "dm" => u = table[t].owner

\* KickMember: never the owner, and a DM only by the owner.
MayKick(u, t, v) ==
    /\ Runs(u, t) /\ Member(t, v) /\ v # table[t].owner
    /\ role[t][v] = "dm" => u = table[t].owner

\* BanMember asks the same, but the person need not sit at the table.
MayBan(u, t, v) ==
    /\ Runs(u, t) /\ v # table[t].owner
    /\ role[t][v] = "dm" => u = table[t].owner

\* Mutant of MayLeave: the owner may walk away like anyone else.
MayLeaveOwner(u, t) == u \in signedIn /\ Open(t) /\ Member(t, u)

MayLeave(u, t) == u \in signedIn /\ Open(t) /\ Member(t, u) /\ u # table[t].owner

\* removeMemberTx, without and with the ban.
DoRemove(t, u) ==
    /\ role' = Unseated(t, u)
    /\ UNCHANGED <<table, banned, realm, account, signedIn>>

\* Mutant of DoBan: the columns are swapped.
DoBanSwapped(t, u) ==
    /\ Open(t)
    /\ role' = Unseated(t, u)
    /\ banned' = banned \cup {<<u, t>>}
    /\ UNCHANGED <<table, realm, account, signedIn>>

DoBan(t, u) ==
    /\ Open(t)
    /\ role' = Unseated(t, u)
    /\ banned' = banned \cup {<<t, u>>}
    /\ UNCHANGED <<table, realm, account, signedIn>>

MayUnban(u, t) == Runs(u, t)

DoUnban(t, u) ==
    /\ <<t, u>> \in banned
    /\ banned' = banned \ {<<t, u>>}
    /\ UNCHANGED <<table, role, realm, account, signedIn>>

-----------------------------------------------------------------------------
(* The screen and the table change hands (ownership.go).                   *)

\* SetMemberRole: the owner appoints another member, whose role differs.
MayAppoint(u, t, v, as) == Owns(u, t) /\ v # u /\ Member(t, v) /\ role[t][v] # as

\* AddMembership is an upsert: it makes the row if there is none.
DoAppoint(t, v, as) ==
    /\ Open(t)
    /\ role' = [role EXCEPT ![t][v] = as]
    /\ UNCHANGED <<table, banned, realm, account, signedIn>>

\* Mutant of MayTransfer: to somebody who has asked to leave.
MayTransferLeaving(u, t, v) == Owns(u, t) /\ v # u /\ Member(t, v)

\* TransferCampaign: to another member, who has not asked to leave.
MayTransfer(u, t, v) == Owns(u, t) /\ v # u /\ Member(t, v) /\ account[v] # "leaving"

\* Mutant of DoTransfer: the ground always goes along.
DoTransferWholeRealm(t, v, seenRealm, seenRole) ==
    /\ Open(t)
    /\ role' = [role EXCEPT ![t][v] = IF seenRole = "dm" THEN @ ELSE "dm"]
    /\ table' = [table EXCEPT ![t].owner = v]
    /\ realm' = [realm EXCEPT ![seenRealm].owner = v]
    /\ UNCHANGED <<banned, account, signedIn>>

\* Its transaction. The realm and the heir's role are the ones read before it began.
\* The ground goes along if one table stands on it, and otherwise the table moves.
DoTransfer(t, v, seenRealm, seenRole) ==
    /\ Open(t)
    /\ role' = [role EXCEPT ![t][v] = IF seenRole = "dm" THEN @ ELSE "dm"]
    /\ \/ /\ Cardinality(StandingOn(table, seenRealm)) = 1
          /\ table' = [table EXCEPT ![t].owner = v]
          /\ realm' = [realm EXCEPT ![seenRealm].owner = v]
       \/ /\ Cardinality(StandingOn(table, seenRealm)) # 1
          /\ \E r \in Realms :
                /\ realm[r].st = "unborn"
                /\ realm' = Minted(r, v)
                /\ table' = [table EXCEPT ![t] = [st |-> "open", owner |-> v, realm |-> r]]
    /\ UNCHANGED <<banned, account, signedIn>>

-----------------------------------------------------------------------------
(* Leaving for good (account_deletion.go, accounts.go, auth/deletion.go,   *)
(* cmd/server/admin_delete.go).                                            *)

\* Mutant of MaySchedule: the operator does not ask what they own.
MayScheduleOwner(u) == account[u] # "gone"

\* RequestAccountDeletion and ConfirmAccountDeletion by the person; the operator's
\* delete-account asks the same of anybody who is not gone.
MayAsk(u) == u \in signedIn /\ OwnedBy(u) = {}
MaySchedule(u) == account[u] # "gone" /\ OwnedBy(u) = {}

\* scheduleDeletion: the stamp, then the sessions, whose end may fail after it.
DoSchedule(u) ==
    /\ account[u] # "gone"
    /\ account' = [account EXCEPT ![u] = "leaving"]
    /\ \/ signedIn' = signedIn \ {u}
       \/ u \in Flaky /\ UNCHANGED signedIn
    /\ UNCHANGED <<table, role, banned, realm>>

\* A tombstone has no password and no identity to sign in with.
MaySignIn(u) == account[u] # "gone"

\* CancelAccountDeletion, one statement.
Reprieved(u) == IF account[u] = "leaving" THEN [account EXCEPT ![u] = "active"] ELSE account

\* signIn: the session first, and then the cancel, which is best effort.
DoSignIn(u) ==
    /\ signedIn' = signedIn \cup {u}
    /\ \/ account' = Reprieved(u)
       \/ u \in Flaky /\ UNCHANGED account
    /\ UNCHANGED <<table, role, banned, realm>>

\* delete-account --cancel.
OperatorCancels(u) ==
    /\ account[u] = "leaving"
    /\ account' = Reprieved(u)
    /\ UNCHANGED <<table, role, banned, realm, signedIn>>

\* Mutant of Purge: the person's realms are left behind.
PurgeKeepsRealms(u) ==
    /\ account[u] = "leaving"
    /\ OwnedBy(u) = {}
    /\ role' = [t \in Tables |-> [role[t] EXCEPT ![u] = "none"]]
    /\ banned' = {b \in banned : b[2] # u}
    /\ account' = [account EXCEPT ![u] = "gone"]
    /\ UNCHANGED <<table, realm, signedIn>>

\* Purge, by the sweep when the week is up or by the operator at once. It refuses an
\* owner, and fails while any table stands on a realm of the person's.
Purge(u) ==
    /\ account[u] = "leaving"
    /\ OwnedBy(u) = {}
    /\ \A r \in Realms : There(r) /\ realm[r].owner = u => StandingOn(table, r) = {}
    /\ role' = [t \in Tables |-> [role[t] EXCEPT ![u] = "none"]]
    /\ realm' = [r \in Realms |->
                    IF There(r) /\ realm[r].owner = u THEN [realm[r] EXCEPT !.st = "gone"]
                    ELSE realm[r]]
    /\ banned' = {b \in banned : b[2] # u}
    /\ account' = [account EXCEPT ![u] = "gone"]
    /\ UNCHANGED <<table, signedIn>>

-----------------------------------------------------------------------------
(* One request at a time.                                                  *)

Found(u, g) == MayFound(u, g) /\ DoFound(u, g)
Disband(u, t) == Owns(u, t) /\ DoDisband(t)
Move(u, t, g) == Owns(u, t) /\ DoMove(u, t, g, table[t].realm)
Rename(u, r) == MayRename(u, r) /\ DoRename(r)
Raze(u, r) == MayRaze(u, r) /\ DoRaze(r)
Join(u, t) == MayJoin(u, t) /\ DoJoin(u, t)
Kick(u, t, v) == MayKick(u, t, v) /\ DoRemove(t, v)
Ban(u, t, v) == MayBan(u, t, v) /\ DoBan(t, v)
Unban(u, t, v) == MayUnban(u, t) /\ DoUnban(t, v)
Leave(u, t) == MayLeave(u, t) /\ DoRemove(t, u)
Appoint(u, t, v, as) == MayAppoint(u, t, v, as) /\ DoAppoint(t, v, as)
Transfer(u, t, v) == MayTransfer(u, t, v) /\ DoTransfer(t, v, table[t].realm, role[t][v])
AskToLeave(u) == MayAsk(u) /\ DoSchedule(u)
OperatorSchedules(u) == MaySchedule(u) /\ DoSchedule(u)
SignIn(u) == MaySignIn(u) /\ DoSignIn(u)

AtTable(u, t) ==
    \/ Disband(u, t) \/ Join(u, t) \/ Leave(u, t)
    \/ \E g \in Realms \cup {Nowhere} : Move(u, t, g)
    \/ \E v \in Users :
          \/ Kick(u, t, v) \/ Ban(u, t, v) \/ Unban(u, t, v) \/ Transfer(u, t, v)
          \/ \E as \in {"player", "dm"} : Appoint(u, t, v, as)

OfAccount(u) ==
    AskToLeave(u) \/ OperatorSchedules(u) \/ OperatorCancels(u) \/ SignIn(u) \/ Purge(u)

Next ==
    \E u \in Users :
        \/ \E g \in Realms \cup {Nowhere} : Found(u, g)
        \/ \E r \in Realms : Rename(u, r) \/ Raze(u, r)
        \/ \E t \in Tables : AtTable(u, t)
        \/ OfAccount(u)

Spec == Init /\ [][Next]_vars

\* The sweep runs every hour for as long as the server does (accounts.Run).
FairSpec == Spec /\ \A u \in Users : WF_vars(Purge(u))

-----------------------------------------------------------------------------
(* Safety.                                                                 *)

\* "The owner is always a DM" (ownership.go): through joining, kicks, bans, leaving,
\* appointments, handovers and purges, nobody removes or demotes whoever holds a table.
OwnerIsDM == \A t \in Tables : Open(t) => table[t].owner \in Users /\ role[t][table[t].owner] = "dm"

\* "A realm's campaigns always share one owner, and a transfer has to keep that true"
\* (ownership.go): every table stands on ground that is there, and is its owner's.
GroundFollowsOwner ==
    \A t \in Tables : Open(t) =>
        /\ table[t].realm \in Realms /\ There(table[t].realm)
        /\ realm[table[t].realm].owner = table[t].owner

\* "A kicked-and-banned user cannot rejoin with the invite code" (000024_campaign_bans),
\* nor be appointed or handed a table they are barred from.
BarredStayOut == \A t \in Tables, u \in Users : <<t, u>> \in banned => ~Member(t, u)

\* No realm that nobody named stands empty: it "would go on offering itself in the
\* 'found a table here' picker forever" (api.go); moves, handovers and disbanding sweep it.
NoHollowRealm ==
    \A r \in Realms : There(r) /\ ~realm[r].named => StandingOn(table, r) # {}

\* A table that is struck, or not founded, has no members and bars nobody: what was let
\* in before it went (a join, an appointment, a ban) leaves nothing behind.
ClosedHoldsNobody ==
    \A t \in Tables, u \in Users : ~Open(t) => ~Member(t, u) /\ <<t, u>> \notin banned

\* Where no session or cancel fails: an account that waits out its week is signed out
\* everywhere and owns no table, so its purge will not be refused for one.
LeavingIsClear ==
    \A u \in Users \ Flaky : account[u] = "leaving" => u \notin signedIn /\ OwnedBy(u) = {}

\* "no address, no avatar, no password, no way in" (accounts.go): where no session or
\* cancel fails, a tombstone holds no table, realm, seat or session.
TombstoneHeldClear ==
    \A u \in Users \ Flaky : account[u] = "gone" =>
        /\ u \notin signedIn
        /\ OwnedBy(u) = {}
        /\ \A t \in Tables : ~Member(t, u)
        /\ \A r \in Realms : There(r) => realm[r].owner # u

\* "A realm the owner NAMED outlives its campaigns on purpose" (api.go): it is struck
\* only when it stood empty already, never by the table that leaves it.
NamedOutlives ==
    [][\A r \in Realms : There(r) /\ realm[r].named /\ realm'[r].st = "gone"
           => StandingOn(table, r) = {}]_vars

-----------------------------------------------------------------------------
(* Liveness.                                                               *)

\* An account scheduled for deletion is purged, or thought better of: nothing it owned,
\* held or stood on keeps the sweep refusing it (accounts.Sweep), where no session or
\* cancel fails.
LeavingResolves == \A u \in Users \ Flaky : account[u] = "leaving" ~> account[u] # "leaving"
=============================================================================
