----------------------------- MODULE TablesRace -----------------------------
(***************************************************************************)
(* The operations of Tables with other requests between their halves: a    *)
(* handler that has been let in holds what it read, and writes later, when *)
(* what let it in may no longer be so. No row lock spans the two halves.   *)
(***************************************************************************)
EXTENDS Tables, Bags

CONSTANTS
    Racing,        \* the operations of a run
    MaxInFlight    \* bound: requests let in and not yet answered

Operations == {"found", "disband", "move", "rename", "raze", "join", "kick", "ban",
               "unban", "leave", "appoint", "transfer", "schedule", "signin"}

ASSUME RaceOK == Racing \subseteq Operations /\ MaxInFlight \in Nat \ {0}

VARIABLE inflight         \* the requests let in, a bag: a double click is two of them

raceVars == <<vars, inflight>>

Somewhere == Realms \cup {Nowhere}

\* A request with what its handler read. "who", "ground" and "as" are the person, the
\* realm and the role in question, where the operation has one.
Requests == [op : Racing,
             by : Users, at : Tables, who : Users, ground : Somewhere,
             left : Somewhere, as : Roles]

\* What lets each request in, and what its handler keeps of it.
Entitled(q) ==
    \/ q.op = "found"    /\ MayFound(q.by, q.ground)
    \/ q.op = "disband"  /\ Owns(q.by, q.at)
    \/ q.op = "move"     /\ Owns(q.by, q.at) /\ q.left = table[q.at].realm
    \/ q.op = "rename"   /\ q.ground # Nowhere /\ MayRename(q.by, q.ground)
    \/ q.op = "raze"     /\ q.ground # Nowhere /\ MayRaze(q.by, q.ground)
    \/ q.op = "join"     /\ MayJoin(q.by, q.at)
    \/ q.op = "kick"     /\ MayKick(q.by, q.at, q.who)
    \/ q.op = "ban"      /\ MayBan(q.by, q.at, q.who)
    \/ q.op = "unban"    /\ MayUnban(q.by, q.at)
    \/ q.op = "leave"    /\ MayLeave(q.by, q.at)
    \/ q.op = "appoint"  /\ q.as # "none" /\ MayAppoint(q.by, q.at, q.who, q.as)
    \/ q.op = "transfer" /\ MayTransfer(q.by, q.at, q.who)
                         /\ q.left = table[q.at].realm /\ q.as = role[q.at][q.who]
    \/ q.op = "schedule" /\ MaySchedule(q.who) \* by the operator, or by the person
    \/ q.op = "signin"   /\ MaySignIn(q.by)

\* Its transaction, whatever has happened since.
Effect(q) ==
    \/ q.op = "found"    /\ DoFound(q.by, q.ground)
    \/ q.op = "disband"  /\ DoDisband(q.at)
    \/ q.op = "move"     /\ DoMove(q.by, q.at, q.ground, q.left)
    \/ q.op = "rename"   /\ DoRename(q.ground)
    \/ q.op = "raze"     /\ DoRaze(q.ground)
    \/ q.op = "join"     /\ DoJoin(q.by, q.at)
    \/ q.op = "kick"     /\ DoRemove(q.at, q.who)
    \/ q.op = "ban"      /\ DoBan(q.at, q.who)
    \/ q.op = "unban"    /\ DoUnban(q.at, q.who)
    \/ q.op = "leave"    /\ DoRemove(q.at, q.by)
    \/ q.op = "appoint"  /\ DoAppoint(q.at, q.who, q.as)
    \/ q.op = "transfer" /\ DoTransfer(q.at, q.who, q.left, q.as)
    \/ q.op = "schedule" /\ DoSchedule(q.who)
    \/ q.op = "signin"   /\ DoSignIn(q.by)

\* The fields an operation does not use are fixed, so that a request has one record.
Canonical(q) ==
    /\ q.op \notin {"kick", "ban", "unban", "appoint", "transfer", "schedule"} => q.who = q.by
    /\ q.op \notin {"found", "move", "rename", "raze"} => q.ground = Nowhere
    /\ q.op \notin {"move", "transfer"} => q.left = Nowhere
    /\ q.op \notin {"appoint", "transfer"} => q.as = "none"
    /\ q.op = "schedule" => q.by = q.who
    /\ q.op \in {"found", "rename", "raze", "schedule", "signin"} =>
           q.at = CHOOSE t \in Tables : TRUE

RaceInit == Init /\ inflight = EmptyBag

LetIn(q) ==
    /\ BagCardinality(inflight) < MaxInFlight
    /\ Canonical(q) /\ Entitled(q)
    /\ inflight' = inflight (+) SetToBag({q})
    /\ UNCHANGED vars

\* The transaction commits, or fails and is rolled back: a row it needs is gone, the
\* connection is lost.
Answer(q) ==
    /\ BagIn(q, inflight)
    /\ inflight' = inflight (-) SetToBag({q})
    /\ Effect(q) \/ UNCHANGED vars

\* Reads what it needs in its own transaction.
PurgeNow(u) == Purge(u) /\ UNCHANGED inflight

CancelNow(u) == OperatorCancels(u) /\ UNCHANGED inflight

RaceNext ==
    \/ \E q \in Requests : LetIn(q)
    \/ \E q \in BagToSet(inflight) : Answer(q)
    \/ \E u \in Users : PurgeNow(u) \/ CancelNow(u)

RaceSpec == RaceInit /\ [][RaceNext]_raceVars

-----------------------------------------------------------------------------
(* What no interleaving can break.                                         *)

\* The requests in flight are requests.
RaceTypeOK ==
    TypeOK /\ IsABag(inflight) /\ BagToSet(inflight) \subseteq Requests

\* Whatever is moved, handed over, razed, swept or purged at once, a table stands on a
\* realm that exists: each of the statements that strike a realm looks for itself.
GroundStands ==
    \A t \in Tables : Open(t) => table[t].realm \in Realms /\ There(table[t].realm)
=============================================================================
