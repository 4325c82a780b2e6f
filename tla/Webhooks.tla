------------------------------ MODULE Webhooks ------------------------------
(***************************************************************************)
(* The delivery of the event catalogue to webhooks: the fan-out that turns *)
(* one event into a delivery per listening hook, the lines held for a      *)
(* daily digest, the worker that claims deliveries in a transaction, posts *)
(* them and records the outcome, and the doors through which a hook is     *)
(* made, re-enabled, pinged and deleted, and a table disbanded, while all  *)
(* of that is going on.                                                    *)
(*                                                                         *)
(* Source: internal/webhooks/service.go, internal/webhooks/digest.go,      *)
(* internal/http/webhooks.go, internal/http/notifications.go and their     *)
(* queries in backend/queries (webhooks.sql, digest.sql).                  *)
(*                                                                         *)
(* The database is read-committed with row locks: what the worker's        *)
(* transaction writes is kept apart (stagedDelivery, stagedHook) until its *)
(* commit, and a statement that needs a row the transaction has locked is  *)
(* not enabled until the lock is released.                                 *)
(***************************************************************************)
EXTENDS Naturals, FiniteSets

CONSTANTS
    Users,        \* people, whose hooks are selected by an event's audience
    Tables,       \* campaigns, each with at most one channel of its own
    Hooks,        \* webhook rows; a row id is never used twice
    Events,       \* events that may be emitted
    Deliveries,   \* delivery rows; a row id is never used twice
    Owner,        \* Owner[h]: the person, or the table whose channel h is
    At,           \* At[h]: the one table h is confined to, or None
    TableOf,      \* TableOf[e]: the campaign an event happened at
    Wants,        \* the <<h, e>> that pass the hook's own filters (Hears)
    MaxAttempts,  \* maxAttempts of the code (5)
    DisableAfter, \* disableAfter of the code (8)
    ClaimBatch,   \* claimBatch of the code (10)
    MaxEmbeds,    \* maxEmbeds of the code (10)
    MaxFaults,    \* bound: crashes, lost inserts and failed transactions
    MaxPings,     \* bound: test deliveries
    MaxDoors,     \* bound: requests that change an existing hook
    None          \* no table, no event

ASSUME ConstantsOK ==
    /\ Users \cap Tables = {} /\ Hooks \cap Tables = {}
    /\ None \notin Tables \cup Events
    /\ Hooks # {} /\ Deliveries # {}
    /\ Owner \in [Hooks -> Users \cup Tables]
    /\ At \in [Hooks -> Tables \cup {None}]
    /\ TableOf \in [Events -> Tables]
    /\ Wants \subseteq Hooks \X Events
    /\ \A h \in Hooks : Owner[h] \in Tables => At[h] = Owner[h]
    /\ \A w \in Wants : At[w[1]] \in {None, TableOf[w[2]]}
    /\ MaxAttempts \in Nat \ {0}
    /\ DisableAfter \in Nat \ {0}
    /\ ClaimBatch \in Nat \ {0}
    /\ MaxEmbeds \in Nat \ {0}
    /\ MaxFaults \in Nat /\ MaxPings \in Nat /\ MaxDoors \in Nat

Lines == Events \X Hooks           \* a digest item: one event held for one hook

VARIABLES
    hook,            \* webhooks rows
    delivery,        \* webhook_deliveries rows
    line,            \* digest_items rows, by <<event, hook>>
    fan,             \* the fan-out of each event
    phase,           \* the worker: idle, posting, recording an answer, digest
    claimed,         \* deliveries the worker's transaction has locked
    todo,            \* of those, the ones not posted yet
    current,         \* the delivery just posted ...
    answer,          \* ... and whether a 2xx came back
    stagedDelivery,  \* claimed deliveries as the transaction has written them
    touched,         \* hooks the transaction has written, hence locked ...
    stagedHook,      \* ... and what it wrote
    digHook,         \* the hook whose digest is being queued ...
    digLines,        \* ... and the lines its transaction has deleted
    deleting,        \* hooks and tables whose DELETE waits for the worker
    struck,          \* tables that were disbanded
    resched,         \* <<hook, daily>>: a channel was set, its lines not yet moved
    leaving,         \* people who asked for their account to be deleted
    answered,        \* history: deliveries some receiver answered with a 2xx
    died,            \* history: deliveries that were ever recorded dead
    faults, doors    \* how much of MaxFaults and MaxDoors is spent

workVars == <<phase, claimed, todo, current, answer, stagedDelivery, touched,
              stagedHook, digHook, digLines>>
doorVars == <<deleting, struck, resched, leaving, doors>>
history == <<answered, died>>
vars == <<hook, delivery, line, fan, workVars, doorVars, history, faults>>

-----------------------------------------------------------------------------
(* Rows.                                                                   *)

HookRow == [st : {"absent", "live", "disabled", "gone"}, failures : Nat, daily : BOOLEAN]

DeliveryRow == [st : {"absent", "pending", "delivered", "dead", "gone"},
                hook : Hooks, event : Events \cup {None}, attempts : 0..MaxAttempts,
                due : BOOLEAN, carries : SUBSET Lines]

FanRow == [st : {"quiet", "told", "inserting", "over"}, audience : SUBSET Users,
           public : BOOLEAN, now : SUBSET Hooks, daily : SUBSET Hooks]

Fan(st, audience, public, now, daily) ==
    [st |-> st, audience |-> audience, public |-> public, now |-> now, daily |-> daily]
Quiet == Fan("quiet", {}, FALSE, {}, {})
Over == Fan("over", {}, FALSE, {}, {})

NewHook(daily) == [st |-> "live", failures |-> 0, daily |-> daily]

Queued(h, event, carried) ==
    [st |-> "pending", hook |-> h, event |-> event, attempts |-> 0,
     due |-> TRUE, carries |-> carried]

NoHook == [st |-> "absent", failures |-> 0, daily |-> FALSE]
NoDelivery ==
    [st |-> "absent", hook |-> CHOOSE h \in Hooks : TRUE, event |-> None, attempts |-> 0,
     due |-> FALSE, carries |-> {}]
Nobody == [h \in Hooks |-> NoHook]
Nothing == [d \in Deliveries |-> NoDelivery]

Exists(h) == hook[h].st \in {"live", "disabled"}
Falls(x) == {h \in Hooks : h = x \/ At[h] = x}         \* the hooks that go with a hook or a table
Going(h) == \E x \in deleting : h \in Falls(x)
Free(h) == h \notin touched /\ ~Going(h)              \* no one else holds the row's lock
Fresh == {d \in Deliveries : delivery[d].st = "absent"}
Pings == {d \in Deliveries : /\ delivery[d].st # "absent" /\ delivery[d].event = None
                             /\ delivery[d].carries = {}}
LinesOf(h) == {l \in Lines : l[2] = h}
DueOf(h) == {l \in LinesOf(h) : line[l] = "due"}
TablesOf(ls) == {TableOf[l[1]] : l \in ls}
AsSeen(h) == IF h \in touched THEN stagedHook[h] ELSE hook[h]
Fault == faults < MaxFaults /\ faults' = faults + 1

EndTx ==     \* the worker holds no transaction: no lock, nothing staged
    /\ phase' = "idle"
    /\ claimed' = {} /\ todo' = {} /\ touched' = {} /\ digLines' = {}
    /\ stagedDelivery' = Nothing /\ stagedHook' = Nobody
    /\ UNCHANGED <<current, answer, digHook>>

Init ==
    /\ hook = Nobody
    /\ delivery = Nothing
    /\ line = [l \in Lines |-> "none"]
    /\ fan = [e \in Events |-> Quiet]
    /\ phase = "idle"
    /\ claimed = {} /\ todo = {} /\ touched = {} /\ digLines = {}
    /\ stagedDelivery = Nothing /\ stagedHook = Nobody
    /\ current = (CHOOSE d \in Deliveries : TRUE) /\ answer = FALSE
    /\ digHook = (CHOOSE h \in Hooks : TRUE)
    /\ deleting = {} /\ struck = {} /\ resched = {} /\ leaving = {}
    /\ answered = {} /\ died = {}
    /\ faults = 0 /\ doors = 0

-----------------------------------------------------------------------------
(* The fan-out: one per event, in the goroutine of the request that        *)
(* emitted it.                                                             *)

\* The emitter names the audience and whether every player may know.  An event
\* nobody may hear queues nothing.  The outbox row names the table.
Emit(e, audience, public) ==
    /\ fan[e].st = "quiet"
    /\ TableOf[e] \notin struck \cup deleting
    /\ fan' = [fan EXCEPT ![e] = IF audience = {} THEN Over
                                 ELSE Fan("told", audience, public, {}, {})]
    /\ UNCHANGED <<hook, delivery, line, workVars, doorVars, history, faults>>

\* The outbox could not record the event, its table being gone or by a fault:
\* every row that names it will be refused.
EmitUnstored(e) ==
    /\ \/ TableOf[e] \in struck /\ UNCHANGED faults
       \/ Fault
    /\ fan[e].st = "quiet"
    /\ fan' = [fan EXCEPT ![e] = Over]
    /\ UNCHANGED <<hook, delivery, line, workVars, doorVars, history>>

\* The hooks that hear it: live hooks of people in the audience who are not
\* leaving, and the table's own channel for a public event.
Hearing(e) ==
    {h \in Hooks : /\ hook[h].st = "live"
                   /\ <<h, e>> \in Wants
                   /\ \/ Owner[h] \in fan[e].audience \ leaving
                      \/ fan[e].public /\ Owner[h] = TableOf[e]}

FanoutRead(e) ==
    /\ fan[e].st = "told"
    /\ LET daily == {h \in Hearing(e) : hook[h].daily}
       IN  fan' = [fan EXCEPT ![e] = IF Hearing(e) = {} THEN Over
                        ELSE Fan("inserting", {}, FALSE, Hearing(e) \ daily, daily)]
    /\ UNCHANGED <<hook, delivery, line, workVars, doorVars, history, faults>>

Passed(e, h) ==   \* the fan-out is done with hook h
    LET f == fan[e]
        rest == Fan("inserting", {}, FALSE, f.now \ {h}, f.daily \ {h})
    IN  [fan EXCEPT ![e] = IF rest.now \cup rest.daily = {} THEN Over
                           ELSE rest]

\* The row names the hook and the event, so that neither may be gone.
Insertable(e, h) == Exists(h) /\ ~Going(h) /\ TableOf[e] \notin struck \cup deleting

FanoutQueue(e, h) ==
    /\ h \in fan[e].now
    /\ Insertable(e, h)
    /\ \E d \in Fresh : delivery' = [delivery EXCEPT ![d] = Queued(h, e, {})]
    /\ fan' = Passed(e, h)
    /\ UNCHANGED <<hook, line, workVars, doorVars, history, faults>>

FanoutHold(e, h) ==
    /\ h \in fan[e].daily
    /\ Insertable(e, h)
    /\ line' = [line EXCEPT ![<<e, h>>] = "held"]
    /\ fan' = Passed(e, h)
    /\ UNCHANGED <<hook, delivery, workVars, doorVars, history, faults>>

\* The insert fails and is only logged: the hook or the event is gone, or the
\* database said no.
FanoutSkip(e, h) ==
    /\ h \in fan[e].now \cup fan[e].daily
    /\ \/ (~Exists(h) \/ TableOf[e] \in struck) /\ UNCHANGED faults
       \/ Fault
    /\ fan' = Passed(e, h)
    /\ UNCHANGED <<hook, delivery, line, workVars, doorVars, history>>

-----------------------------------------------------------------------------
(* Time: a retry's backoff or a digest's hour passes.                      *)

BackoffOver(d) ==
    /\ delivery[d].st = "pending" /\ ~delivery[d].due
    /\ d \notin claimed
    /\ delivery' = [delivery EXCEPT ![d].due = TRUE]
    /\ UNCHANGED <<hook, line, fan, workVars, doorVars, history, faults>>

DigestHour(l) ==
    /\ line[l] = "held"
    /\ line' = [line EXCEPT ![l] = "due"]
    /\ UNCHANGED <<hook, delivery, fan, workVars, doorVars, history, faults>>

-----------------------------------------------------------------------------
(* The worker: deliverDue.                                                 *)

\* Mutants of Due: the claim forgets delivered_at, or the hook's disabled_at.
DueAgain == {d \in Deliveries : /\ delivery[d].st \in {"pending", "delivered"} /\ delivery[d].due
                                /\ hook[delivery[d].hook].st = "live"}
DueAnyHook == {d \in Deliveries : /\ delivery[d].st = "pending" /\ delivery[d].due
                                  /\ Exists(delivery[d].hook)}

Due == {d \in Deliveries : /\ delivery[d].st = "pending" /\ delivery[d].due
                           /\ hook[delivery[d].hook].st = "live"}

\* What the database deletes along with a hook or a table: the deliveries and the
\* lines of its hooks, and those of the table's events whoever they are for.
LostWith(x) == {d \in Deliveries : /\ delivery[d].st # "absent"
                                   /\ \/ delivery[d].hook \in Falls(x)
                                      \/ delivery[d].event # None /\ TableOf[delivery[d].event] = x}
LinesWith(x) == {l \in Lines : l[2] \in Falls(x) \/ TableOf[l[1]] = x}

\* One batch of what is due, locked.  A row some DELETE has already reached is
\* skipped.
Claim ==
    /\ phase = "idle"
    /\ \E skipped \in SUBSET (Due \cap UNION {LostWith(x) : x \in deleting}),
          batch \in SUBSET Due :
         LET open == Due \ skipped
         IN  /\ batch \subseteq open /\ batch # {}
             /\ \/ batch = open /\ Cardinality(open) <= ClaimBatch
                \/ Cardinality(batch) = ClaimBatch
             /\ claimed' = batch /\ todo' = batch
    /\ phase' = "posting"
    /\ stagedDelivery' = delivery
    /\ UNCHANGED <<hook, delivery, line, fan, doorVars, history, faults, current,
                   answer, touched, stagedHook, digHook, digLines>>

Post(d, ok) ==
    /\ phase = "posting" /\ d \in todo
    /\ todo' = todo \ {d}
    /\ current' = d /\ answer' = ok
    /\ answered' = IF ok THEN answered \cup {d} ELSE answered
    /\ phase' = "recording"
    /\ UNCHANGED <<hook, delivery, line, fan, doorVars, died, faults, claimed, touched,
                   stagedDelivery, stagedHook, digHook, digLines>>

\* Mutants of LastAttempt: one too late, one too early.
LastAttemptLate == stagedDelivery[current].attempts >= MaxAttempts
LastAttemptEarly == stagedDelivery[current].attempts + 2 >= MaxAttempts

LastAttempt == stagedDelivery[current].attempts + 1 >= MaxAttempts

\* Mutant of Stage: the attempt is not counted.
StageUncounted(st, due) ==
    stagedDelivery' = [stagedDelivery EXCEPT ![current].st = st, ![current].due = due]

Stage(st, due) ==
    stagedDelivery' = [stagedDelivery EXCEPT ![current].st = st, ![current].due = due,
                                             ![current].attempts = @ + 1]

Touch(row) ==     \* update the hook's row; it must not be under a DELETE
    LET h == delivery[current].hook
    IN  /\ ~Going(h)
        /\ touched' = touched \cup {h}
        /\ stagedHook' = [stagedHook EXCEPT ![h] = row]

RecordDelivered ==
    /\ phase = "recording" /\ answer
    /\ Stage("delivered", TRUE)
    /\ Touch([AsSeen(delivery[current].hook) EXCEPT !.failures = 0])
    /\ phase' = "posting"
    /\ UNCHANGED <<hook, delivery, line, fan, doorVars, history, faults, claimed, todo,
                   current, answer, digHook, digLines>>

\* Mutant of RecordDead: the failure is counted outside the transaction.
RecordDeadOutside ==
    /\ phase = "recording" /\ ~answer /\ LastAttempt
    /\ Stage("dead", TRUE)
    /\ LET h == delivery[current].hook
           failures == hook[h].failures + 1
       IN  /\ ~Going(h)
           /\ hook' = [hook EXCEPT ![h].failures = failures,
                                   ![h].st = IF failures >= DisableAfter THEN "disabled" ELSE @]
    /\ phase' = "posting"
    /\ UNCHANGED <<delivery, line, fan, doorVars, history, faults, claimed, todo, current,
                   answer, touched, stagedHook, digHook, digLines>>

\* The last attempt failed: the delivery is dead, and the hook with it after
\* DisableAfter of them in a row.
RecordDead ==
    /\ phase = "recording" /\ ~answer /\ LastAttempt
    /\ Stage("dead", TRUE)
    /\ LET row == AsSeen(delivery[current].hook)
           failures == row.failures + 1
       IN  Touch([row EXCEPT !.failures = failures,
                             !.st = IF failures >= DisableAfter THEN "disabled" ELSE @])
    /\ phase' = "posting"
    /\ UNCHANGED <<hook, delivery, line, fan, doorVars, history, faults, claimed, todo,
                   current, answer, digHook, digLines>>

RecordRetry ==
    /\ phase = "recording" /\ ~answer /\ ~LastAttempt
    /\ Stage("pending", FALSE)
    /\ phase' = "posting"
    /\ UNCHANGED <<hook, delivery, line, fan, doorVars, history, faults, claimed, todo,
                   current, answer, touched, stagedHook, digHook, digLines>>

CommitBatch ==
    /\ phase = "posting" /\ todo = {}
    /\ delivery' = [d \in Deliveries |-> IF d \in claimed THEN stagedDelivery[d] ELSE delivery[d]]
    /\ hook' = [h \in Hooks |-> AsSeen(h)]
    /\ died' = died \cup {d \in claimed : stagedDelivery[d].st = "dead"}
    /\ EndTx
    /\ UNCHANGED <<line, fan, doorVars, answered, faults>>

-----------------------------------------------------------------------------
(* The worker: QueueDueDigests.                                            *)

DropDisabledHookDigest ==
    LET forgotten == {l \in Lines : line[l] \in {"held", "due"} /\ hook[l[2]].st = "disabled"}
    IN  /\ phase = "idle" /\ forgotten # {}
        /\ line' = [l \in Lines |-> IF l \in forgotten THEN "forgotten" ELSE line[l]]
        /\ UNCHANGED <<hook, delivery, fan, workVars, doorVars, history, faults>>

\* Mutant of ClaimHookDigest: only hooks that are still daily are listed.
ClaimHookDigestDaily(h) ==
    /\ phase = "idle"
    /\ hook[h].st = "live" /\ hook[h].daily /\ ~Going(h)
    /\ DueOf(h) # {}
    /\ phase' = "digest"
    /\ digHook' = h /\ digLines' = DueOf(h)
    /\ UNCHANGED <<hook, delivery, line, fan, doorVars, history, faults, claimed, todo,
                   current, answer, stagedDelivery, touched, stagedHook>>

ClaimHookDigest(h) ==
    /\ phase = "idle"
    /\ hook[h].st = "live" /\ ~Going(h)
    /\ DueOf(h) # {}
    /\ phase' = "digest"
    /\ digHook' = h /\ digLines' = DueOf(h)
    /\ UNCHANGED <<hook, delivery, line, fan, doorVars, history, faults, claimed, todo,
                   current, answer, stagedDelivery, touched, stagedHook>>

\* Mutant of QueueDigest: the lines are deleted and no message is written.
QueueDigestLoses ==
    /\ phase = "digest" /\ ~Going(digHook)
    /\ line' = [l \in Lines |-> IF l \in digLines THEN "queued" ELSE line[l]]
    /\ EndTx
    /\ UNCHANGED <<hook, delivery, fan, doorVars, history, faults>>

\* The claimed lines become messages of at most MaxEmbeds tables each, every
\* table whole in one message; the lines and the messages change hands in one
\* commit.
QueueDigest ==
    LET ts == TablesOf(digLines)
    IN  /\ phase = "digest" /\ ~Going(digHook)
        /\ \E into \in [ts -> Fresh] :
             LET used == {into[t] : t \in ts}
                 inside(d) == {t \in ts : into[t] = d}
             IN  /\ \A d \in used : Cardinality(inside(d)) <= MaxEmbeds
                 /\ \A d, c \in used : \/ d = c
                                       \/ Cardinality(inside(d)) = MaxEmbeds
                                       \/ Cardinality(inside(c)) = MaxEmbeds
                 /\ delivery' = [d \in Deliveries |->
                      IF d \in used
                      THEN Queued(digHook, None, {l \in digLines : into[TableOf[l[1]]] = d})
                      ELSE delivery[d]]
        /\ line' = [l \in Lines |-> IF l \in digLines THEN "queued" ELSE line[l]]
        /\ EndTx
        /\ UNCHANGED <<hook, fan, doorVars, history, faults>>

-----------------------------------------------------------------------------
(* What ends a transaction early.                                          *)

Rollback ==          \* a statement failed: nothing of the batch is recorded
    /\ Fault
    /\ phase # "idle"
    /\ EndTx
    /\ UNCHANGED <<hook, delivery, line, fan, doorVars, history>>

Crash ==             \* the process dies, and every request with it
    /\ Fault
    /\ EndTx
    /\ fan' = [e \in Events |-> IF fan[e].st = "quiet" THEN fan[e]
                                ELSE Over]
    /\ deleting' = {} /\ resched' = {}
    /\ UNCHANGED <<hook, delivery, line, struck, leaving, doors, history>>

\* The worker needs a hook's row, and the DELETE that holds it waits for a row
\* the worker has claimed.
Deadlock(x) ==
    /\ x \in deleting
    /\ \/ /\ phase = "recording" /\ delivery[current].hook \in Falls(x)
          /\ answer \/ LastAttempt
       \/ phase = "digest" /\ digHook \in Falls(x)

DeadlockKillsWorker ==
    /\ \E x \in Hooks \cup Tables : Deadlock(x)
    /\ EndTx
    /\ UNCHANGED <<hook, delivery, line, fan, doorVars, history, faults>>

DeadlockKillsDelete(x) ==
    /\ Deadlock(x)
    /\ deleting' = deleting \ {x}
    /\ UNCHANGED <<hook, delivery, line, fan, workVars, struck, resched, leaving, doors,
                   history, faults>>

-----------------------------------------------------------------------------
(* The doors.                                                              *)

Door == doors < MaxDoors /\ doors' = doors + 1

CreateWebhook(h, daily) ==
    /\ Owner[h] \in Users
    /\ hook[h].st = "absent" /\ At[h] \notin struck \cup deleting
    /\ hook' = [hook EXCEPT ![h] = NewHook(daily)]
    /\ UNCHANGED <<delivery, line, fan, workVars, doorVars, history, faults>>

\* Mutant of EnableWebhook: the count is not cleared.
EnableWebhookKeepsCount(h) ==
    /\ Door
    /\ Owner[h] \in Users /\ Exists(h) /\ Free(h)
    /\ hook' = [hook EXCEPT ![h].st = "live"]
    /\ UNCHANGED <<delivery, line, fan, workVars, deleting, struck, resched, leaving, history, faults>>

EnableWebhook(h) ==
    /\ Door
    /\ Owner[h] \in Users /\ Exists(h) /\ Free(h)
    /\ hook' = [hook EXCEPT ![h].st = "live", ![h].failures = 0]
    /\ UNCHANGED <<delivery, line, fan, workVars, deleting, struck, resched, leaving, history, faults>>

PingWebhook(h) ==
    /\ Cardinality(Pings) < MaxPings
    /\ Exists(h) /\ ~Going(h)
    /\ \E d \in Fresh : delivery' = [delivery EXCEPT ![d] = Queued(h, None, {})]
    /\ UNCHANGED <<hook, line, fan, workVars, doorVars, history, faults>>

\* SetTableChannel's upsert: the table's row is made, or made over and live.
SetTableChannel(h, daily) ==
    /\ Door
    /\ Owner[h] \in Tables
    /\ \/ /\ hook[h].st = "absent" /\ Owner[h] \notin struck \cup deleting
          /\ \A g \in Hooks : Owner[g] = Owner[h] => ~Exists(g)
       \/ Exists(h) /\ Free(h)
    /\ hook' = [hook EXCEPT ![h] = NewHook(daily)]
    /\ resched' = resched \cup {<<h, daily>>}
    /\ UNCHANGED <<delivery, line, fan, workVars, deleting, struck, leaving, history, faults>>

\* Mutant of RescheduleHook: it does not wait for lines the worker has deleted.
RescheduleHookUnlocked(h, daily) ==
    /\ <<h, daily>> \in resched
    /\ line' = [l \in Lines |-> IF l \in LinesOf(h) /\ line[l] \in {"held", "due"}
                                THEN IF daily THEN "held" ELSE "due"
                                ELSE line[l]]
    /\ resched' = resched \ {<<h, daily>>}
    /\ UNCHANGED <<hook, delivery, fan, workVars, deleting, struck, leaving, doors, history, faults>>

\* ... and then, in a statement of its own, whatever the hook's lines wait for
\* is moved: to the next hour, or to now.  It may fail, which is only logged.
RescheduleHook(h, daily) ==
    /\ <<h, daily>> \in resched
    /\ digLines \cap LinesOf(h) = {}
    /\ \/ /\ line' = [l \in Lines |-> IF l \in LinesOf(h) /\ line[l] \in {"held", "due"}
                                      THEN IF daily THEN "held" ELSE "due"
                                      ELSE line[l]]
          /\ UNCHANGED faults
       \/ Fault /\ UNCHANGED line
    /\ resched' = resched \ {<<h, daily>>}
    /\ UNCHANGED <<hook, delivery, fan, workVars, deleting, struck, leaving, doors, history>>

HeldByWorker(x) == claimed \cap LostWith(x) # {} \/ digLines \cap LinesWith(x) # {}

Removed(x) ==        \* the row goes, and all that falls with it
    /\ hook' = [h \in Hooks |-> IF h \in Falls(x) /\ Exists(h)
                                THEN [NoHook EXCEPT !.st = "gone"] ELSE hook[h]]
    /\ delivery' = [d \in Deliveries |->
          IF d \in LostWith(x) THEN [delivery[d] EXCEPT !.st = "gone"] ELSE delivery[d]]
    /\ line' = [l \in Lines |-> IF l \in LinesWith(x) /\ line[l] \in {"held", "due"}
                                THEN "forgotten" ELSE line[l]]
    /\ struck' = struck \cup ({x} \cap Tables)

\* A hook, or a table, whose row a DELETE may take.
Deletable(x) ==
    \/ x \in Hooks /\ Exists(x) /\ Free(x)
    \/ x \in Tables \ (struck \cup deleting) /\ \A h \in Falls(x) : Free(h)

\* DeleteWebhook and DeleteTableChannel, a purge, which deletes its person's hooks,
\* and a table disbanded.
Delete(x) ==
    /\ Deletable(x)
    /\ ~HeldByWorker(x)
    /\ Removed(x)
    /\ UNCHANGED <<fan, workVars, deleting, resched, leaving, doors, history, faults>>

DeleteBegins(x) ==
    /\ Door
    /\ Deletable(x)
    /\ HeldByWorker(x)
    /\ deleting' = deleting \cup {x}
    /\ UNCHANGED <<hook, delivery, line, fan, workVars, struck, resched, leaving, history, faults>>

DeleteEnds(x) ==
    /\ x \in deleting
    /\ ~HeldByWorker(x)
    /\ Removed(x)
    /\ deleting' = deleting \ {x}
    /\ UNCHANGED <<fan, workVars, resched, leaving, doors, history, faults>>

AskToLeave(u) ==
    /\ Door
    /\ u \notin leaving
    /\ leaving' = leaving \cup {u}
    /\ UNCHANGED <<hook, delivery, line, fan, workVars, deleting, struck, resched, history, faults>>

ComeBack(u) ==
    /\ Door
    /\ u \in leaving
    /\ leaving' = leaving \ {u}
    /\ UNCHANGED <<hook, delivery, line, fan, workVars, deleting, struck, resched, history, faults>>

-----------------------------------------------------------------------------
FanoutNext ==
    \E e \in Events :
        \/ \E audience \in SUBSET Users, public \in BOOLEAN : Emit(e, audience, public)
        \/ EmitUnstored(e)
        \/ FanoutRead(e)
        \/ \E h \in Hooks : FanoutQueue(e, h) \/ FanoutHold(e, h) \/ FanoutSkip(e, h)

TimeNext == (\E d \in Deliveries : BackoffOver(d)) \/ (\E l \in Lines : DigestHour(l))

WorkerNext ==
    \/ Claim
    \/ \E d \in Deliveries, ok \in BOOLEAN : Post(d, ok)
    \/ RecordDelivered \/ RecordDead \/ RecordRetry
    \/ CommitBatch
    \/ DropDisabledHookDigest
    \/ \E h \in Hooks : ClaimHookDigest(h)
    \/ QueueDigest
    \/ Rollback \/ Crash
    \/ DeadlockKillsWorker
    \/ \E x \in Hooks \cup Tables : DeadlockKillsDelete(x)

DoorNext ==
    \/ \E h \in Hooks, daily \in BOOLEAN :
          CreateWebhook(h, daily) \/ SetTableChannel(h, daily) \/ RescheduleHook(h, daily)
    \/ \E h \in Hooks : EnableWebhook(h) \/ PingWebhook(h)
    \/ \E x \in Hooks \cup Tables : Delete(x) \/ DeleteBegins(x) \/ DeleteEnds(x)
    \/ \E u \in Users : AskToLeave(u) \/ ComeBack(u)

Next == FanoutNext \/ TimeNext \/ WorkerNext \/ DoorNext

Spec == Init /\ [][Next]_vars

-----------------------------------------------------------------------------
(* Safety.                                                                 *)

\* Every variable has its type.
TypeOK ==
    /\ hook \in [Hooks -> HookRow]
    /\ delivery \in [Deliveries -> DeliveryRow]
    /\ line \in [Lines -> {"none", "held", "due", "queued", "forgotten"}]
    /\ fan \in [Events -> FanRow]
    /\ phase \in {"idle", "posting", "recording", "digest"}
    /\ claimed \subseteq Deliveries /\ todo \subseteq claimed
    /\ current \in Deliveries /\ answer \in BOOLEAN
    /\ stagedDelivery \in [Deliveries -> DeliveryRow]
    /\ touched \subseteq Hooks /\ stagedHook \in [Hooks -> HookRow]
    /\ digHook \in Hooks /\ digLines \subseteq Lines
    /\ deleting \subseteq Hooks \cup Tables /\ struck \subseteq Tables
    /\ resched \subseteq Hooks \X BOOLEAN
    /\ leaving \subseteq Users
    /\ answered \subseteq Deliveries /\ died \subseteq Deliveries
    /\ faults \in 0..MaxFaults /\ doors \in 0..MaxDoors

\* A delivery ends for the reason it gives: delivered only if some receiver
\* answered 2xx, dead only after exactly MaxAttempts attempts, and one that is
\* still pending has an attempt left -- whatever batches were rolled back,
\* crashed or lost a deadlock on the way (deliverDue).
EndsForItsReason ==
    \A d \in Deliveries :
        /\ delivery[d].st = "delivered" => d \in answered
        /\ delivery[d].st = "dead" => delivery[d].attempts = MaxAttempts
        /\ delivery[d].st = "pending" => delivery[d].attempts < MaxAttempts

\* A line held for a digest is carried by exactly one delivery once it is
\* queued and by none before or after being forgotten: "a crash between the
\* two loses neither, and nothing is ever queued twice" (digest.go).
LineOnce ==
    \A l \in Lines :
        LET carriers == {d \in Deliveries : l \in delivery[d].carries}
        IN  /\ line[l] = "queued" <=> carriers # {}
            /\ \A d, c \in carriers : d = c

\* A hook in service is below the threshold: nothing re-enables a hook without
\* clearing its count, and nothing counts past the threshold without disabling
\* (RecordWebhookDeadDelivery, DisableWebhook, EnableWebhook, the upsert).
LiveBelowThreshold == \A h \in Hooks : hook[h].st = "live" => hook[h].failures < DisableAfter

\* A hook's count of failures never exceeds the deliveries to it that ever died,
\* and it is out of service only after DisableAfter of them: a rolled-back batch
\* leaves no failure behind, a retry counts none.  The rows left may be fewer:
\* disbanding a table takes the dead deliveries of its events away from people's
\* hooks and leaves those hooks their count (000066:7, 000067:27).
FailuresAreDeaths ==
    \A h \in Hooks :
        LET deaths == Cardinality({d \in died : delivery[d].hook = h})
        IN  /\ hook[h].failures <= deaths
            /\ hook[h].st = "disabled" => DisableAfter <= deaths

\* What has ended stays as it ended, attempts and all, until its hook or the table
\* of its event is deleted; attempts never go back.
OutcomeFinal ==
    [][\A d \in Deliveries :
          /\ delivery[d].st \in {"delivered", "dead"} =>
                 delivery'[d] = delivery[d] \/ delivery'[d].st = "gone"
          /\ delivery[d].st # "absent" => delivery'[d].attempts >= delivery[d].attempts]_vars

Posting == phase = "posting" /\ phase' = "recording"

\* A post goes to a hook that exists and is in service as far as anyone but the
\* worker can see, for a delivery that is still due: a DELETE or a disabling
\* that has returned is never followed by a message.
PostsOnlyDue ==
    [][Posting => /\ hook[delivery[current'].hook].st = "live"
                  /\ delivery[current'].st = "pending" /\ delivery[current'].due]_vars

\* The worker's transaction stands on what it read: while a batch is open its
\* deliveries are still pending, due and of hooks in service in the committed
\* rows, a delivery not yet recorded is staged as it was read, a recorded one
\* is exactly one attempt further, and the lines of a digest being queued are
\* still there.  Locks, and nothing else, keep every door from breaking this.
BatchIntact ==
    /\ phase \in {"idle", "digest"} => claimed = {} /\ touched = {}
    /\ phase = "digest" <=> digLines # {}
    /\ phase = "digest" => hook[digHook].st = "live"
    /\ phase = "recording" => current \in claimed \ todo /\ (answer => current \in answered)
    /\ \A l \in digLines : line[l] = "due" /\ l[2] = digHook
    /\ \A h \in touched : /\ \E d \in claimed : delivery[d].hook = h
                          /\ stagedHook[h].st \in {"live", "disabled"}
    /\ \A d \in claimed : LET was == delivery[d] staged == stagedDelivery[d] IN
          /\ was.st = "pending" /\ was.due /\ hook[was.hook].st = "live"
          /\ staged.hook = was.hook /\ staged.event = was.event /\ staged.carries = was.carries
          /\ IF d \in todo \/ (phase = "recording" /\ d = current)
             THEN staged = was
             ELSE /\ staged.attempts = was.attempts + 1
                  /\ \/ staged.st = "delivered" /\ d \in answered
                     \/ staged.st = IF staged.attempts = MaxAttempts THEN "dead" ELSE "pending"

-----------------------------------------------------------------------------
(* Liveness.  The worker's loop runs for as long as the process does, time *)
(* passes, and a request in flight runs on.  Whether a receiver answers,   *)
(* whether a delete is a deadlock's victim and every fault are free.       *)

Fairness ==
    /\ \A e \in Events, h \in Hooks :
          WF_vars(FanoutRead(e)) /\ WF_vars(FanoutQueue(e, h) \/ FanoutHold(e, h) \/ FanoutSkip(e, h))
    /\ \A d \in Deliveries : WF_vars(BackoffOver(d))
    /\ \A l \in Lines : WF_vars(DigestHour(l))
    /\ WF_vars(Claim \/ \E h \in Hooks : ClaimHookDigest(h))
    /\ WF_vars(\E d \in Deliveries, ok \in BOOLEAN : Post(d, ok))
    /\ WF_vars(RecordDelivered \/ RecordDead \/ RecordRetry \/ DeadlockKillsWorker)
    /\ WF_vars(CommitBatch)
    /\ WF_vars(QueueDigest \/ DeadlockKillsWorker)
    /\ WF_vars(DropDisabledHookDigest)
    /\ \A x \in Hooks \cup Tables : SF_vars(DeleteEnds(x))
    /\ \A h \in Hooks, daily \in BOOLEAN : WF_vars(RescheduleHook(h, daily))

FairSpec == Spec /\ Fairness

\* A pending delivery of a hook in service is settled, or its hook goes out of
\* service: retries, rollbacks and deadlocks never leave one stuck.
PendingSettles ==
    \A d \in Deliveries :
        (delivery[d].st = "pending" /\ hook[delivery[d].hook].st = "live")
            ~> \/ delivery[d].st \in {"delivered", "dead", "gone"}
               \/ hook[delivery[d].hook].st # "live"

\* A line held for a digest is eventually carried by a message, or forgotten
\* with its hook or its table, even when the channel is set back to immediate in between:
\* it "must not strand what is waiting" (SetTableChannel).
HeldIsCarried ==
    \A l \in Lines : line[l] \in {"held", "due"} ~> line[l] \in {"queued", "forgotten"}

-----------------------------------------------------------------------------
(* Refinement.                                                             *)

Ledger == INSTANCE DeliveryLedger WITH
              state   <- [d \in Deliveries |-> delivery[d].st],
              tries   <- [d \in Deliveries |-> delivery[d].attempts],
              carries <- [d \in Deliveries |-> delivery[d].carries]

\* The fan-out, the worker's batches and the doors together keep the ledger.
KeepsLedger == Ledger!Spec

-----------------------------------------------------------------------------
(* What the documents say and the code does not do.                        *)

\* "Eight dead deliveries in a row and the hook is disabled ... nothing more is
\* sent there until you do" (docs/API.md), taken from the moment the worker has
\* disabled the hook and mailed its owner.
NothingAfterDisabling == [][Posting => AsSeen(delivery[current'].hook).st = "live"]_vars
=============================================================================
