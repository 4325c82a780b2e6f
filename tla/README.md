# Quest Board: TLA+ models of its backend

Quest Board (`src/`) is a Go service in front of PostgreSQL for tables of a role-playing
game: people keep heroes, seat them at campaigns ("tables"), and a table's DMs run quests,
maps, encounters and shops. One process serves HTTP requests concurrently and runs three
background workers (webhook deliveries, the email digest, the hourly account sweep) over a
read-committed database. This directory models and checks the parts of it where requests,
workers and faults meet.

- [The system](#the-system)
- [The modules](#the-modules)
- [The runs](#the-runs)
- [The proofs](#the-proofs)
- [What the code does not do](#what-the-code-does-not-do)
- [The plan](#the-plan)

## The system

Paths are under `src/backend/`. "State" is rows of PostgreSQL unless it says otherwise.

| component | state | operations | interacts with |
|---|---|---|---|
| Webhook delivery (`internal/webhooks`, `http/webhooks.go`) | `webhooks`, `webhook_deliveries`, `digest_items` of a hook | fan-out of an event, claim/post/record a batch, queue a digest, create, enable, ping, delete, set a table's channel | event bus (in), receivers over HTTP (out), the hooks' owners leaving, their tables disbanded |
| Tables and accounts (`http/api.go`, `members.go`, `ownership.go`, `realms.go`, `account_deletion.go`, `internal/accounts`, `auth/deletion.go`, `cmd/server/admin_delete.go`) | `campaigns`, `memberships`, `campaign_bans`, `realms`, `users`, sessions | found, disband, move, join, leave, kick, ban, appoint, hand over, name/raze a realm, ask to leave, sign in, purge | everything: the cascade of a table or an account |
| Seats (`http/heroes.go`, `seating.go`, `pregens.go`, `characters.go`) | `characters`, `seat_requests`, two settings of a campaign | make, delete, seat, knock, approve, deny, offer, withdraw, claim, release | tables (membership), accounts (`LeaveTable`, `Purge`) |
| Event bus and outbox (`internal/events`, `http/emit.go`, `audience.go`, `feed.go`) | `event_outbox` | `Emit` to its subscribers after the write it reports | every handler; webhooks; email |
| Email notices (`internal/notify`) | `digest_items` of a person, what they chose | notify at once, hold a line, daily digest, unsubscribe | event bus, mailer |
| Live streams (`internal/live`, `http/stream.go`) | rooms of subscribers, in memory | subscribe, leave, publish, close | every handler |
| Quests and payout (`http/quests*.go`) | `quests`, `quest_rewards`, claims | create, replace, claim, pay out | packs, events |
| Money, shops, gifts, packs (`http/money.go`, `vendors.go`, `gifts.go`, `inventory.go`, `starting_packs.go`) | `character_items`, `vendor_stock`, a table's coinage | buy, give, edit, equip, stock | quests, encounters (armour class) |
| Encounters (`http/encounters*.go`) | `encounters`, `encounter_combatants` | start, stand down, advance, damage, roll | heroes' hit points |
| The sheet (`http/rest.go`, `pools.go`, `conditions.go`, `levelup.go`, `multiclass.go`, `feature_choices.go`, `spells.go`, `internal/rules`) | columns of `characters` and its satellites | rest, spend, level up, choose | milestones of a table |
| Forge (`http/forge.go`) | a hero and its kit, the forge key | forge once per key | codex |
| Who sees what (`http/parties.go`, `visibility.go`, `sheet_veil.go`, `codex.go`, `packs.go`) | parties, reveals, rulings | upserts; redaction of reads | every list |
| Maps, fog, marks; realms' people and places; handouts, chronicle, dice | documents | single-row writes; fog united under a lock; the tree of places | realms |
| Libraries (bestiary, creatures, species, skill trees, rules) | documents | validated single-row writes | heroes |
| Friends and messages (`http/friends.go`, `messages.go`) | `friendships`, blocks, messages | ask, accept, drop, block | live streams |
| Sign-in, tokens, MCP (`internal/auth`, `http/tokens.go`, `mcp*.go`) | sessions, one-time tokens and codes, API tokens | sign in, verify, reset, enable a second factor | accounts |
| Serving, export, search, generated code, browser client | none of their own | reads and plumbing | |

What makes it hard:

- **Check, then act.** A handler reads what entitles its caller outside any transaction and
  writes in one later. No lock spans the two.
- **Read, compute, write back.** Packs, sheets, rounds and hit points are computed in Go
  from a row read earlier and written whole.
- **A transaction that spans HTTP calls.** The webhook worker posts while it holds row
  locks; requests that need those rows wait, or deadlock, or fail.
- **Cascades.** Deleting a table, leaving one, and purging an account touch many parts, in
  an order that matters (table-born sheets die before the rest are unseated).
- **Best-effort second steps.** Events, mails, nudges and the end of sessions come after
  the commit and may be lost.
- **Two owners of one fact.** A realm's owner and its tables' owners; the owner of a table
  and its DM seat; a hero's seat and its holder's membership; a hook's failures and the
  deliveries to it that died.

`PROJECT.json` lists the weightiest hazards at their lines, with the property that covers
each or the part of the plan that will; [the plan](#the-plan) names the rest.

What makes each component correct: a delivery ends once and for its reason, and nothing is
stranded (webhooks); the owner runs the table and the ground is the owner's, the barred stay
out, whoever asked to leave can (tables); whoever sits is a member, nobody sits past the
cap, heroes outlive tables (seats); what is paid is paid once, and purses and shelves add up
(treasury); what a fight shows and what a sheet holds agree (tracker); a milestone buys one
level (sheet); a line is mailed once and a reader who keeps up misses nothing (notices,
streams).

## The modules

### Webhooks, DeliveryLedger

`Webhooks.tla` models `internal/webhooks/service.go`, `digest.go`, the doors of
`http/webhooks.go` and `http/notifications.go`, and the SQL behind them.

| in the model | in the code |
|---|---|
| `hook`, `delivery`, `line` | rows of `webhooks`, `webhook_deliveries`, `digest_items` |
| `fan` | the fan-out goroutine of one event: the audience it was told, the hooks it read and has yet to insert for |
| `phase`, `claimed`, `todo`, `stagedDelivery`, `stagedHook`, `touched` | the worker's open transaction: the rows it has locked and what it has written and not committed |
| `digHook`, `digLines` | the digest transaction and the lines it has deleted |
| `At` | `webhooks.campaign_id`: the table a hook is confined to, if any |
| `deleting`, `resched` | requests between two statements, or waiting for a lock |
| `struck` | tables that were disbanded |
| `answered`, `died` | history: the deliveries a receiver has really answered, and those ever recorded dead |

The worker is one action per statement that matters: `Claim` (`FOR UPDATE SKIP LOCKED`),
`Post`, `RecordDelivered`/`RecordRetry`/`RecordDead`, `CommitBatch`, and
`ClaimHookDigest`/`QueueDigest` for a digest. What the transaction writes stays apart until
the commit; a statement that needs a row the transaction locks is not enabled. A `DELETE` of
a hook locks the hook first and its deliveries in the cascade, the worker the other way
about: the deadlock is a state, and PostgreSQL's victim a choice. A table that is disbanded
goes the same way, and takes more along (`Removed`): its own hooks (`Falls`), and the
deliveries and lines of its events, whoever's hook they are for (`LostWith`, `LinesWith`),
by way of `event_outbox`. A hook of a person who hears other tables stays in service, with
the failures it has counted and fewer dead rows to show for them. A `DELETE` takes its rows
in one step, once none of them is locked. `Crash` and `Rollback` may come at any step of the
worker; a crash also ends requests. The payload, the signature, the length of a backoff and
the policy on addresses are left out; whether a receiver answers is a free choice.

`DeliveryLedger.tla` is the abstract specification: deliveries queued once, attempted at
most `MaxAttempts` times, ending delivered or dead, carrying lines nobody else carries. It has
no worker, no hooks and no transaction. `Webhooks!KeepsLedger` is the refinement, checked
and proved.

### Tables, TablesRace

`Tables.tla` models memberships, bans, ownership, realms and the departure of accounts. Each
operation is a pair: `MayKick` and its like are what the handler reads to let the caller in,
`DoRemove` and its like are its transaction, whose conjuncts include what a foreign key or a
`WHERE` clause demands. In `Tables` the two happen at one moment, so that what the code
means to guarantee can be stated and proved. `TablesRace.tla` puts every request in a bag
(`inflight`) between the two, where it keeps what it read and lets others run: the same
operations, raced. A transaction remains one step there: the statements in it run under read
committed, and the ones that judge a realm (`sweepUnnamedRealm`, `DeleteRealm`) look again
in the statement itself.

`Flaky` names the people for whom ending sessions or undoing a deletion, which are best
effort, may fail.

### Seats

`Seats.tla` models sheets, seats, the barred door and pre-made heroes. Its memberships are
the part of `Tables` that seats depend on: a role per person and table, a table's owner who
never changes (a handover touches no hero), and being struck. A request is one step. The
order inside `LeaveTable` and `deleteCampaignTx` is kept (`TableLeft`, `TableStruck`): the
table-born are struck while they are still seated, and only then are the others unseated.
`ender` is history: by whose act, or whose purge, the last step struck sheets.

### Treasury, CoinLedger

`Treasury.tla` models where coin goes: the till (`vendors.go`), the DM's gifts (`gifts.go`),
what a quest pays (`quests.go`, `quests_payout.go`) and the edits of a purse by hand
(`inventory.go`). Here a transaction is not one step, since two of them meet in one purse.

| in the model | in the code |
|---|---|
| `purse`, `shelf`, `price`, `quest` | purse rows of `character_items`, `vendor_stock`, `quests` with `quest_rewards`, as committed |
| `req` | the requests in flight: what each was let in on, the hero it is at, the purse row it has found |
| `puts` of a request | what its transaction has written and not committed, a row a hero |
| `Held`, `Wanted`, `Free` | the row locks it has, and the one it asks for next |
| `RollBack` | an error, a lost connection or a deadlock that PostgreSQL breaks, at any step |
| `due`, `left`, `payouts` | history: what a purse or a shelf should count, and how often a quest was paid |

`SellStock` takes the line's row and looks in the pack, `PayForStock` reads the purse again
under its lock and commits; `BeginGift` or `MarkQuestPaid`, then `LookInPack` and `FillPack`
for one hero after another, and a commit after the last. Reads see what is committed; an
insert has an id that nobody knows. Amounts are in the table's smallest coin, and a fresh
purse takes the low 32 bits of its amount (`Int32`). Left out: everything in a pack that is
not coin, shelves without a count, claims, the parsing of prices, and who may ask.

`CoinLedger.tla` is the abstract specification: a request is let in, and later it is either
turned away or served in one step, for everybody it names, on the purses, shelves and quests
as they are at that step. It has no stages, no locks and no row read twice. `Asking` is the
refinement mapping: what a request was let in to do (`Plea`), read off its record, with the
heroes it has seen to and those it has yet to see to (`Names`). Its looks, its locks and its
staged writes are stutters, and the commit is the step that serves it.
`Treasury!ServedWhole` is the refinement, checked and proved.

### Tracker

`Tracker.tla` models the fights of a table and the hit points that live in two places: on
the sheet of a hero (or the row of one of the Folk, which is what the code calls the
characters of the DM), and on a combatant.

| in the model | in the code |
|---|---|
| `sheet`, `folk`, `fight`, `comb` | `characters`, `npcs`, `encounters`, `encounter_combatants` |
| `HeroGets` | a write of a sheet with `syncSeatedHero` after it |
| `MirrorsHome` | an edit of the tracker going to the sheet (`syncCharacterHP`) or to the person's row |
| `Stricken`, `Emptied` | the foreign keys (`ON DELETE SET NULL`, `CASCADE`) |
| `Mob`, `SetGroupInitiative` | the rows of one `group_id` |
| `WithHp` | the `CASE` in the `UPDATE` that clears death saves above 0 |

`SheetNext` is the doors of the sheets and the Folk (`characters.go`, `rest.go`,
`levelup.go`, `inventory.go`, `npcs.go`, `conditions.go`), `FightNext` those of the tracker
(`encounters*.go`). A request is one step. The two tallies of death saves are one, monsters
and lines typed in by hand are one kind, and the initiative of a combatant that is of no mob
is not kept; labels, armour class, conditions, rounds and turns are left out, as is who may
ask.

### MC modules

`MCWebhooks`, `MCTables`, `MCTablesRace`, `MCSeats`, `MCTreasury` and `MCTracker` name the
constants' values and the symmetry. In the two runs with liveness (`Webhooks_live`,
`Tables_life`) no symmetry is used.

## The runs

| run | question | instance |
|---|---|---|
| `Webhooks_live` | Is every outcome earned and final, is the ledger implemented, and is nothing pending or held stranded? | 1 table and its channel, 1 event, 2 deliveries, 2 attempts, disabled after 1, batches of 2, 1 fault, 1 ping, 2 doors, fair |
| `Webhooks_digest` | Is a held line carried once, whatever is rescheduled, deleted, disbanded or rolled back; is a hook disabled at its threshold, and only for deaths that were? | a person's hook and a table's channel, 2 events at 2 tables, 3 deliveries, 1 attempt, disabled after 2, 1 fault, 1 door |
| `Tables_life` | Does the owner keep the screen and the ground, are the barred out, do realms live and die as they should, and can whoever asked to leave be purged? | 2 people, one of them `Flaky`, 2 tables, 2 realms, fair |
| `Race_steady` | Which of that survives two requests in each other's gaps? | 2 people, 1 table, 2 realms, every operation but a handover |
| `Race_ground` | Does a table ever lose the ground it stands on, or a struck one seat somebody? | 2 people, 2 tables, 2 realms, founding, moving, disbanding, joining, handing over and razing |
| `Seats_life` | Does only a member hold a seat, through every door and departure, within the table's cap, and does a hero end by its owner alone? | 2 people, 2 tables, 2 heroes, caps to 2 |
| `Treasury` | Do purses and shelves add up, quests pay once, and requests take effect in one step or not at all, with two in each other's way? | 2 heroes, an order of both, 1 line, 1 quest, 2 requests, 2 purse rows a hero, one amount, a ceiling of 2 |
| `Tracker` | Do the two places of a hero's hit points agree, through summonings, forged and struck bodies, releases and mobs? | 1 sheet, 1 of the Folk, 2 fights, 2 combatants, hit points -1/0, 0/1 and 1/1 |
| `Webhooks_disabled`, `Race_heir`, `Seats_pool`, `Tracker_apart` | What the documents say and the code does not do | the smallest instance that shows it |

Every property names in its comment the behaviour of the code it is about. `mutants` in
`PROJECT.json` gives for each property of each passing run a plausible bug in the code that
breaks it; the mutated definitions stand before the ones they replace.

**Why the bounds are enough.** Two attempts are a first and a last one; two deaths before
disabling are a count that can be kept or lost; a batch of two has a delivery done and one
to do; three deliveries are a batch and something outside it. A door is an enabling, an
upsert, a deletion that waits, or an account asking to leave or coming back; a deletion that
finds nothing locked is free. One fault is enough for one transaction lost between any two
steps, and the invariants are proved for any number. Two tables on two realms give a realm
shared, alone and left, and two people an owner and somebody to kick, to bar or to hand it
to; the proofs cover any number of either. Two requests in flight are the smallest race, and
the races found need no more. In `Seats_life` two heroes fill a cap of one and ask for more,
or sit at two tables. In `Treasury` two requests are two buyers, two DMs, or one of each in
the other's gap; an order of two heroes is a transaction that has written one pack and may
fail at the next; two purse rows let two gifts make two purses; a ceiling of 2 is reached by
the second gift of 1, and one unit on the shelf makes the second purchase find it empty. In
`Tracker` one hero and one of the Folk (who may have a body forged, and so a sheet) with two
rows give two combatants of one hero, a hero beside an ally, a mob of two, and a hero in two
fights; three points are below the floor, on it and above it, and in `Tracker_apart` a full
that can grow. More than two heroes or members add pairs of the same kinds, and the theorems
hold for all of them.

The bounds of a run are in its cfg: `MaxFaults`, `MaxPings`, `MaxDoors` (requests that
change a hook), `MaxInFlight`, `MaxCap`, `Requests`, `MaxRows`, `Coins`, `Rewards`,
`MaxShelf`, `Rows`, `Points`, `Rolls`, `MaxPips`, and the sizes of the sets, which bound the
rows ever made. `MaxAttempts`, `DisableAfter`, `ClaimBatch`, `Ceiling` and `Width` are
constants of the code (5, 8, 10, 2,000,000,000 and 2^31), given small values.

**Deadlock.** `Treasury` and `Tracker` are checked for deadlock: a request can always be
asked or given up, a row always be made or deleted. The other cfgs have `CHECK_DEADLOCK
FALSE`: an instance has so many rows, people and tables, an id is never used twice there, and
when they are used up it really has nothing left to do.

**Fairness.** `Webhooks!Fairness` is weak fairness of the worker's steps, of time, and of a
request's next statement: `Run` claims at every tick until the process ends, and a fan-out
or a request that is running goes on. `DeleteEnds` is strongly fair because a `DELETE`
waiting for a row lock is queued for it: the worker takes and releases those locks again and
again, and the wait is granted in one of the gaps. Nothing is assumed of a receiver, of the
faults or of anybody's requests. `Tables!FairSpec` assumes only the hourly sweep
(`accounts.Run`), for each account. A sweep takes the 50 that have waited longest
(`accounts.go:204`), and the ones it refuses stay first in line: with 50 accounts it must
refuse for good, the rest would never come up. The assumption leaves that out; it asks that
fewer are refused at a time.

## The proofs

`tlapm` checks every proof. Each holds for every value of the constants that satisfies the
module's named assumption (`ConstantsOK` of `Webhooks` and of `Tables`, `TablesRace!RaceOK`,
`Seats!SeatsOK`, `Treasury!TreasuryOK`, `Tracker!TrackerOK`), and what is named below
besides: any number of people, hooks, tables, heroes, requests and combatants, any amounts,
and any bound on the faults.

- **WebhooksProofs.** `EndsForItsReason`, `LineOnce`, `LiveBelowThreshold`, `BatchIntact`,
  `OutcomeFinal`, `PostsOnlyDue` and the refinement `KeepsLedger`. The inductive invariant
  (`IInv`) adds to the properties what they stand on: `BatchIntact`, that the open
  transaction agrees with the committed rows (the one the locks are there for); that rows not
  yet made are blank; that a staged hook stays below the threshold; and that a line that was
  carried is held no more. Without `BatchIntact` a commit could overwrite what a door did
  meanwhile, and no other invariant would be preserved by `CommitBatch`. `FailuresAreDeaths`
  is proved beside it (`CountInv`), for any finite set of deliveries, whose ids are rows:
  the count a transaction has staged for a hook is set against the deaths as that
  transaction sees them (`Dying`), since a death and the count that goes with it are
  written by two statements and reach the rows in one commit. It counts the deliveries that
  ever died (`died`) and not the dead rows left, which a disbanded table may take away from
  a hook that keeps its count; `DeadAreOver` says that nothing dies twice.
- **TablesProofs.** `OwnerIsDM`, `GroundFollowsOwner`, `BarredStayOut`, `NoHollowRealm`,
  `NamedOutlives`, `LeavingIsClear`, `TombstoneHeldClear`. They are inductive together: a
  handover keeps the ground because the owner's realms carry no one else's table, a purge
  because a leaver owns none. `ClosedHoldsNobody` is the strengthening: a table's id is
  founded once, so a seat or a ban surviving the table would meet the next founder.
- **TablesRaceProofs.** What survives the gaps, for any number of requests in them. Whatever
  races, `RaceInv` is inductive: `RaceTypeOK`, `GroundStands` and `ClosedHoldsNobody`; and
  `NamedOutlives` follows. A transaction that writes a seat, a ban or a table's ground meets
  a foreign key there, and the ones that strike a realm look again in the statement, so these
  do not depend on what the handler read. `OwnerIsDM` and
  `GroundFollowsOwner` do. They are proved where no table is handed over
  (`"transfer" \notin Racing`) with the strengthening `Kept`: what let a request in (the
  person to go is not the owner, the table or the realm is the caller's) is still so when it
  writes, because owners are then for good. With handovers both are false, and `Race_heir`
  shows the first. `NoHollowRealm` is proved where tables are not moved either; it is false
  with moves or with handovers, since each sweeps the ground it saw before its transaction.
- **SeatsProofs.** `TypeOK` and `SeatedByMember` with the strengthening that whoever waits
  at a door is a hero that is not table-born (approval seats it) and that a table-born sheet
  was never offered (a release would hand it on). The action properties `CapHolds`,
  `BarredDoor`, `BornStays`, `HeroesOutliveTables` follow from one lemma, `Fates`, which
  says what a step may do to one sheet: leave it, make it, delete it (by whom, unless it was
  table-born), unseat it, seat it by a free seat, or pass it between its author and a
  player.
- **TreasuryProofs.** `TreasuryTypeOK`, `QuestPaysOnce`, `ShelfAddsUp`, and `CoinAddsUp`. The
  inductive invariant (`TreasuryInv`) is what the committed rows satisfy (`Settled`), that no
  row is held by two requests (`Apart`), and what each request in flight knows (`Fine`): a
  staged write is what the row counts plus the coin it is about, a purchase past the shelf
  still has its unit there, a payout past its mark is of a quest nobody else can mark.
  `Fine` of one request survives a step of another because the rows the first stands on are
  `Held`: that lemma is the argument for the locks. `CoinAddsUpHolds` needs `NoWrap`: the gold
  rewards of a quest stay below 2^32 of the smallest coin. Past that, a fresh purse would
  count the low 32 bits (`gifts.go:399`).
- **CoinLedgerProofs.** `ServedWhole`, the refinement of `CoinLedger`, under the same `NoWrap`.
  `WholeInv` adds to `TreasuryInv` what the writes of a request owe to what it asked: every
  hero it has seen to was given the same coin, in a purse not past its ceiling (`EvenHanded`),
  and a quest that was marked stays on the board until the payout ends (`OnBoard`). A commit
  is then `Moves` of one amount on one purse each, because `Fine` says that a staged row is
  the committed one plus that amount: nobody has written it since it was read.
- **TrackerProofs.** `TrackerTypeOK` says that every reference leads somewhere and that a body
  is one person's; it is inductive. `PipsOnFloor` and `MobRollsOnce` are preserved on top of
  it, by way of two lemmas on what a step may do to a row. `MirrorKept` follows from
  it and `PcFree` (a hero's row is tied to none of the Folk): a step that leaves the homes as
  they are keeps the mirror (`QuietStep`), and each door that writes a home or a combatant
  has a lemma of its own. It excepts the two doors that tell no combatant (`Silent`), about
  which see below.

Left to TLC: the three liveness properties `PendingSettles`, `HeldIsCarried` and
`LeavingResolves`, since liveness under fairness and `ENABLED` are out of the prover's reach.
Every invariant and action property of a run that passes, and both refinements, have a
theorem; `OwnerIsDM` and `GroundFollowsOwner` of `TablesRace` have theirs without handovers,
which is how `Race_steady` checks them. No module here has a recursive operator.

## What the code does not do

Four runs expect a violation, each of a sentence of the repository:

- **`Webhooks_disabled`** (`NothingAfterDisabling`): the worker disables a hook in the
  middle of a batch, mails its owner, and posts the rest of the batch to it. `docs/API.md`
  says that nothing more is sent.
- **`Race_heir`** (`OwnerIsDM`): a co-DM leaves between the check and the transaction of a
  handover to them, and owns a table they do not sit at (`ownership.go` says that the owner
  is always a DM).
- **`Seats_pool`** (`PoolByOffer`): unseating a pre-made hero clears its seat and not
  `pregen_by`, so when its author seats it again it is in that table's pool, though nobody
  offered it there. `characters.sql` says it becomes an ordinary hero.
- **`Tracker_apart`** (`NeverApart`): `LevelUpCharacter` raises both numbers of a sheet and
  tells no combatant, so a hero who levels up during a fight has old hit points in the
  tracker, and the next edit there writes them back: the level's hit points are lost.
  `SetNpcHp` writes a body's sheet without a word to the tracker likewise.
  `encounters_tracker.go` calls the two a live mirror that never drifts apart mid-fight.

`TablesRace` shows more races in which two of the same kind meet; they have no run of their
own: a join that was let in before a ban commits after it (`BarredStayOut`); a sign-in and a
purge leave a tombstone a session; founding a table on a realm while it is handed over, or
handing over a table while it moves, splits its owners (`GroundFollowsOwner`); two moves off
one realm at once leave an unnamed realm empty (`NoHollowRealm`). They are listed as
hazards.

`Webhooks` reaches a hook in service with more failures than dead deliveries: a disbanded
table takes the rows of its events along and leaves the count. The hook may so be disabled
by deaths its log no longer shows; `FailuresAreDeaths` holds of the deaths.

`combatantDeathSaves` refuses death saves only above 0 hit points (`conditions.go:179`), and
the tracker's edit writes any number it is sent: nothing below it has a minimum. A hero at
-3 can so have a failure marked, and `Tracker` reaches it, although `encounters.yaml:284`
and `conditions.go:165` speak of 0 alone. `PipsOnFloor` says what does hold: never above 0.

`Treasury` reaches two purses of one hero: two gifts, or a gift and a line written by hand,
that both find none. `inventory.go:222` refuses a second purse because of what follows: the
till and the next gift go to one of the two, whichever was begun first. Coin is not lost,
and `CoinAddsUp` holds of each row. An edit by hand writes the whole row, the count it read
included, even if it is about the notes, or about the price of a line on a shelf; the
history takes that as what was meant, so no property calls it a loss. `Tracker` reaches a
hero with two rows in two running fights, when each was prepared before either was
triggered; an edit of one leaves the other behind, as the comment on the sync grants, and
`Alone` leaves the case out. An ally who was seated before their body was forged mirrors to
the row of the person, which nobody reads while they have a sheet; `Home` stays what the
combatant refers to.

## The plan

In order, with the statement each is to be held to:

1. Webhooks and DeliveryLedger; Tables and TablesRace; Seats; Treasury and CoinLedger;
Tracker. *Done*, with their proofs. 2. **SeatsRace**: the gaps between the check and the
write of claims and seatings; parties and the sheets of the Folk next to the seats
(`members.sql:29`, `accounts.go:88`); a pre-made hero handed back to an author who has left
(`pregens.go:322`). 3. **TrackerRace**: the tracker's requests between their reads and their
writes. The mirror writes name, class and level back as it read them
(`encounters_tracker.go:472`), a change of kit tells the tracker hit points read before it,
and rounds and turns are written absolutely (`encounters_run.go:151`). 4. **Sheet**: rests,
milestones, pools; with pure operators for spell slots, hit dice and pools against a
reference. 5. **NotifyDigest** and **LiveHub**: a line mailed at most once and dropped only
by a fault; a line held for somebody who is just unsubscribing (`notify.go:158`); a reader
that keeps draining sees a nudge after every change: a nudge dropped because the buffer of
four is full of other topics is not sent again (`hub.go:122`); a channel is closed once. 6.
**Quota**: the counts that are checked and then inserted under (hooks, API tokens, starting
packs). **Forge** and **Tokens**: things to be used once, in statements of their own
(`email.go:195`, `twofa.go:127`). Starting packs, which stamp after the commit
(`gifts.go:240`), and what else is in a pack: stacks, and edits that write the whole row
(`inventory.go:470`). 7. **Friends** (two people asking each other at once,
`friends.go:325`), **Fog**, and the places of a realm. 8. Proofs of the modules to come: the
hub never closing a channel twice, a line mailed at most once, the seats of `SeatsRace` that
survive the gaps.

Not planned: reads and their redaction beyond membership, rendering, validation of
documents, geometry, generated code and the browser client. They keep no state between
statements, or are data and not control.
