# A formal model of auto-publisher

TLA+ modules, TLC configurations and TLAPS proofs about the auto-publisher: a
Discord bot that publishes ("crossposts") the messages of announcement
channels. Paths are relative to the repository.

    tlc -workers 2 -config Rollover.cfg MCRolloverDrain.tla        check a run
    tlapm RolloverDrain_proofs.tla                                 check proofs

`PROJECT.json` lists components, runs, mutants (a plausible bug for each
property, which TLC must find), the source lines of each definition, findings,
hazards and theorems.

## 1. The system

Five processes and two stores.

| process | source | job |
|---|---|---|
| bot | `apps/bot` | receives messages from Discord, decides from Redis keys alone whether to publish, pushes to the proxy; slash commands and panels |
| proxy | `apps/proxy` | the only sender to Discord's REST API; a BullMQ queue of crosspost jobs; the rollover backlog |
| backend | `apps/backend` | Express, one Node process; rows in Postgres and the Redis keys derived from them; Paddle webhooks; nightly crons |
| helper | `apps/helper` | gives and takes the Subscriber role in the support server |
| web | `apps/web` | Next.js dashboard; forms, dialogs and cards over what its reads have shown |

**Interactions.** The bot and the backend meet only in Redis (the backend writes
`enabled:`, `rollover_enabled:`, `migrated:`; the bot reads them per message) and
through the backend's HTTP routes (commands, joins, permission pushes). The bot
calls the proxy to enqueue and cancel. The backend reaches into the proxy's
Redis once: it deletes `rollover:{channel}` when a channel stops serving. The
web calls the backend. Paddle calls the backend's webhook; the backend polls
Paddle nightly. The helper polls the backend.

### Components

| component | state | operations | what is hard | what makes it correct |
|---|---|---|---|---|
| rollover backlog and drain (`proxy/src/crosspost/queue.ts`, `rollover.ts`) | sorted set and claim key per channel; BullMQ jobs | hold, drain (one await at a time), extend, finish, cancel | pushes beside a finishing drain, retries, crashes, lost answers, delays against a claim that expires | post order; one sender; nothing stranded; every message leaves |
| gate, locks, denylist (`gate.ts`, `caches.ts`, `classifier.ts`, `invalidRequests.ts`) | lock and denylist keys; an in-memory window | evaluate, lock, block, unblock | fails open on a slow Redis; the window restarts lazily | a shed window is never longer than ten minutes; each refusal has one meaning |
| free crosspost jobs (`queue.ts`) | one job per message | send, delay, retry, drop | a lock that appears while jobs are queued | dropped only at a lock or a block; at most once per job id |
| bot pipeline (`bot/src/services/crosspost.ts`, `filter.ts`) | none between messages | allowlist, flag, filter, push with retries, cancel | a push whose answer is lost | retries are harmless; the filter is the rule's meaning |
| channel serving (`backend/src/services/channels`, `plans.ts`, `entitlements.ts`) | channel rows, allowlist, rollover flag, backlogs | add, remove, get, filters, pause, reactivate, plan change, rollover setting, start-up rebuild | every await lets another handler in; Postgres and Redis written apart; crash in between | allowlist = serving rows; no backlog off the allowlist; filters and a backlog only on Premium; a free guild comes down to the free shape |
| subscriptions (`services/subscriptions.ts`, `webhooks.ts`, `subscriptionReconcile.ts`) | one row per guild | apply an event, nightly re-read, record refunds | late, repeated and out-of-order events; two subscriptions for one guild; lost transitions | the row is the newest event; a change of entitlement is always enforced |
| withdrawal (`services/withdrawal.ts`) | one row per subscription | record, acknowledge, refund, end | a crash between the steps; a double submit | recorded once; acknowledged in the end; never refunded twice |
| retention (`services/retention.ts`) | erased columns | nightly erasure | what else still needs the data | nothing is erased while a duty needs it |
| guild presence (`services/guilds.ts`, `guildReconcile.ts`, `presenceHeal.ts`) | guild row, `migrated:` marker | join, leave, sweep, purge, migrate, heal | a sweep from a stale list, re-invite during a purge | a present guild is never deleted; migrated in Redis = migrated in Postgres |
| publish state (`publishState.ts`, `bot/src/services/permissions.ts`) | permission hash | full and partial push, read with repair | a full push beside a partial one | what the hash says is true, or a true report is on its way |
| cron runner, mass-action guard (`reconcileRunner.ts`, `packages/alerts`) | in-flight flag, one timer | run, rerun | overlap, a failed rerun | two failures alert; never two runs at once |
| helper (`helper/src/services/reconcile.ts`) | the role's members | pass, join, resync | a join beside a pass, a stale member cache | the role follows the subscribers, a failed read revokes nothing |
| Discord reads (`packages/express`, `services/discord.ts`) | caches | resilient read, cached read | retries, last-known-good | a dead token is never served from a copy |
| bot panels (`bot/src/handlers/ap`) | a collector per message, what it shows | press, form, dialog, close, idle out | presses overlap, the world changes under an open panel, timers race | a button acts on what it named; nothing is deleted unasked |
| web (`web/src/components/dashboard`) | forms, dialogs, cards, an error boundary; the page's two reads | edit, save, switch, buy, poll, retry, refresh | answers that come after further edits, stale lists, latched errors | what it says is true; a page comes to rest |

`PROJECT.json` says for each of them whether it is modelled, partly modelled or
not, and why, and lists the hazards at the lines where they bite.

## 2. The modules

| module | what | checked by | proved |
|---|---|---|---|
| `RolloverDrain` (implements `OrderedOutbox`) | the rollover path of one channel | `Rollover`, `RolloverFaults` | yes |
| `ChannelServing` | one guild's rows and derived keys | `ServingSafe`, `ServingAlone` | yes |
| `SubscriptionSync` | Paddle's deliveries, the row, the nightly pass, enforcement | `SyncSafe`, `SyncLive`, `SyncGrant` | yes |
| `GuildPresence` | one guild's row and marker: join, leave, retried calls, outages, sweep, purge, migrate, heal | `Presence` | yes |
| `Withdrawal` | the withdrawal from the contract, its acknowledgement, refund and end; the nightly run and retention | `Withdrawal`, `WithdrawalEnds` | yes |
| `FilterRules` | one channel's rule, what its routes ask of it and make of it; base of the next three | `Surfaces` | yes |
| `FilterPanel`, `RuleEditor`, `ChannelSwitch` | the bot's filter panel; the dashboard's editor; the switch of a channel and its two commands | `Surfaces` | yes |
| `PanelClock`, `RolloverSwitch`, `Checkout`, `PublishState` | the panel's timers; the Rollover setting's two switches; the purchase; the permission hash | `Surfaces` | yes |
| `GuildOverview` | the reply of `/ap overview` and the dashboard's overview | `Surfaces` | yes |
| `Listings` | lists of numbers without recursion: ranks, sorting, picking, cutting; base of `RuleEditor` and `GuildOverview` | `Surfaces` | yes |
| `HelperRoles` | passes, join checks, outages of the helper | `Discord` | yes |
| `CrosspostJobs` | free-plan jobs, the gate, the invalid-request window | `Discord` | yes |
| `UserReads` | a request's reads on its user's token | `Discord` | yes |
| `DashboardPage` | a guild's page: two reads, a boundary, retries | `Discord` | its steps end |

Composition. `ChannelServing` holds the subscription as one bit and of a backlog
which messages are on their way to it or in it; `SubscriptionSync` explains the bit
(and holds the channels as one bit in turn) and `RolloverDrain` the backlog, whose
`BackendClear` is `ChannelServing`'s `ClearHeld` and `DropHeld`. `FilterPanel` and
`RuleEditor` take the routes of `FilterRules` await by await (the route's check, the read
of the list, the write of the whole list, the rollback); the keys behind the row
are `ChannelServing`'s. `ChannelSwitch` and `RolloverSwitch` call their routes in one step
each, as what they are about lies between the calls.
`MCSurfaces` and `MCDiscord` check several modules in one run: a behaviour chooses
one of them in `Init` and leaves the others as they begin, so each is checked in
full and no interleaving of two is claimed. What two surfaces do to each other is
in the modules: each has the other editors' calls (`RulesNext`, `Others`, `PlanFlips`,
`SiteChanges`) as actions.

A component's theorems are in `<component>_proofs`; `RolloverClaim_proofs` has those
about the claim, `Discord_proofs` those of the helper, the jobs, the user reads and the page,
`Surfaces_proofs` those of the surfaces, each with a specification of its own.

Next, if the project grows: what two handlers of `ChannelServing` keep of the
allowlist when neither is a stale write (section 4); rule evaluation and withdrawal
windows as functions against a reference.

## 3. `RolloverDrain`: the rollover path of a channel

One channel: no key, job or request of the path belongs to two, and what other
channels do reaches it only as a refusal (`DiscordRefuses`) or a shed window
(`Shed`). Messages are numbered in post order, which is the order of their
snowflakes and so of the sorted set's scores.

* **Redis**: `backlog` (members of `rollover:`), `keyTtl` (its PEXPIRE), `claim`
  (`rollover_drain:`), `lock`, `blocked`. One Redis command, or one MULTI, is one
  action.
* **Requests**: `hpc` says at which await an enqueue request stands. `HoldMessage`
  is ZADD NX with PEXPIRE; `ClaimForPush` SET NX PX; `AddForPush` queue.add.
* **Jobs**: `dpc` says at which await of `processDrain` a job stands; one action per
  await, so two jobs and any number of requests interleave at every one of
  them. `delay`, `fails`, `wait` and `batch` are BullMQ's delay and attempts and the
  run's locals.
* **Bot**: `push` and `tries` are the push loop: 503, refused connection and timeout
  are retried, 204 and 500 are not. A timed-out request goes on in the proxy.
* **Discord**: `life`, `settle`, `sent`, `deleted`.
* **Time**: `Tick` takes one unit off every deadline. The handlers are fast beside
  it: a tick waits until nothing can move at once (`Quiet`), unless the proxy is
  down. `Ageing = FALSE` is for instances shorter than the 24 hours a message may
  wait.
* **History**: `ahead[m]` is what waited when `m` was held, and `gaveUp` says that a
  drain used up its attempts. No action reads either except to keep it.

BullMQ is external: its jobs survive a crash and run again. A second stall of
one job, which makes BullMQ fail it without the handler that releases the claim,
is not modelled. A failing Redis command is taken as not applied. A graceful
shutdown is a crash with fewer outcomes. `MaxPushes` stands for the bot's
attempts, `Jobs` for BullMQ's jobs: a job that finds no slot waits.

| run | instance | shows |
|---|---|---|
| `Rollover` | 2 messages, 2 pushes of each, 2 jobs, batch of 1, 2 attempts, previews, 1 mishap (refusal, 5xx, lost answer, timed-out push, deletion, shed); fair worker, routes and clock | `OneSender`, `NoStranded`, and `HeldSettles`: every held message leaves, unless its drain gave up |
| `RolloverFaults` | 3 jobs, 2 pushes of each message, ageing, a crash, 2 failing Redis commands | `PostOrder` with two drains at once; `KeyOutlivesMembers`; `KeepsOutbox`: it implements `OrderedOutbox` |

The bounds. Two messages are what an order is about, two or three jobs what
uniqueness is about. A batch of one makes the fresh run after a full batch
happen with two messages. In `Rollover` one mishap is enough for a drain to
throw and be retried, for a timed-out push to overtake its own first request, and
for a deleted message whose cancel is lost to reach the drain. The two faults of
`RolloverFaults` use up a drain's two attempts, so there it fails for good.
Messages do not age in `Rollover`: ageing would settle whatever is stranded. Its
retries last less than the claim's slack, as the first eight of a drain do in the
code (section 10 has the ninth). The theorems of section 11 hold for all values.

**Fairness** (`Rollover`): the worker takes due jobs and its awaits
return, routes return, the clock ticks, the shed window ends after ten minutes,
a dead process is restarted (compose's `restart: unless-stopped`). Nothing is
assumed of Discord, which may refuse as often as its bound, of the bot, or of
the author.

`OrderedOutbox` is the path's promise without its mechanism: messages wait,
somebody takes the oldest, a message is published only from hands that took it.
It allows several takers and losing what was taken, so it holds with crashes
too. `RolloverDrain` implements it with `waiting <- backlog`, `published <- sent`
and `taken <-` what the posting jobs have in hand.

## 4. `ChannelServing`: what a guild publishes

One guild that is present and migrated; nothing of another guild is read or
written by these handlers.

* **Postgres**: `entitled` (the subscription's status), `rolloverOn`, `rows`, `older`
  (their createdAt order, ties broken by the snowflake as the code does).
* **Redis**: `cache` (`enabled:` with the rule the bot evaluates), `flag`
  (`rollover_enabled:`), `posts` (messages on their way to a backlog or in it).
* **Backend**: `job` gives each handler slot its operation, the await it is at and
  the locals it carries, so stale reads stay stale. An await on Postgres or Redis
  ends an action. Cache write, DEL of keys and DEL of backlogs are shared steps, as
  in the code. `Fail` is a failing Redis command, with the rollback or retry the
  operation has. `Crash` drops all handlers; `Restart` is `Channels.initialize`, one
  action because the backend does not listen before it is over.
* **Edits**: the four changes of a rule read twice, as `filters.ts` and
  `channels/operations.ts` do: `EditCheck` is the service's own read (its cap, its "not
  found"), `EditSnapshot` the read the write is made of, `EditWrite` writes the whole
  rule, `EditUndo` puts the one it had read back. So two additions pass the cap, and
  `MaxGrown` bounds by how much.
* **Bot and proxy**: a message is let through by the allowlist and the flag (`GetFlags`),
  read against its rule in the next await (`GetRule`), pushed (`Hold` is the proxy's ZADD,
  and may come again when the answer was lost), given up or drained. A message
  is `late` if it was on its way when the flag was taken or its backlog dropped: the
  tradeoff that ADR 0001 accepts, and the only messages the properties except.
* **Panels**: `panels` are the open filter panels. The Premium check is made when one is
  opened and nothing closes them, so a panel left open edits a channel that has been
  paused or whose guild is free. `strayed` remembers the channels written in that way, until
  the plan, an enable, a removal or a restart writes them.

A rule is a number of conditions and a mode: no property here depends on what a
condition says. The parallel reads of `readRolloverState` are one action. Left out:
the Discord check of `add`, failing Postgres statements and the legacy guild.
`Nightly` stands for both crons on a guild that is free: it assumes that they list
the guild and that the mass-action guard lets them.

| run | instance | shows |
|---|---|---|
| `ServingSafe` | 2 channels, 2 handlers, 1 message, 2 requests, cap of 1; 1.6 million states | `HeldIsServed` in every interleaving |
| `ServingAlone` | 1 handler, 2 channels, 1 message, 2 requests, 1 failing command, 1 crash, 2 modes; 1.3 million states | `AllowlistMatches`, `PlanIsKept`, and `FreeIsTrimmed` under fairness |

Why one handler in `ServingAlone`: with two, `AllowlistMatches` and `PlanIsKept` are not
what the code promises. `get`'s repair, `setFilterMode` and `setRollover` write what
they read before another handler's change (`channels/index.ts:187`, `:419`,
`plans.ts:74`), and overlapping edits put a whole rule back (section 10); the hazards
list each of them. What the code does hold under every interleaving is
`HeldIsServed`. Cap 1 and two channels make excess happen. Two requests beside a
message on its way are what the properties are about: an enable and a removal, two
edits, or an edit and a plan change meet, and one message crosses them at each of
its awaits. The runs do not check deadlock: once the bounded requests are used up
the guild really rests.

**Fairness** (`FreeIsTrimmed`): a handler's next step (`Continue`), because only
Postgres and Redis can hold it up; the nightly run (`Nightly`); `Restart`. Requests,
webhooks, the bot and the proxy are not fair. The property has no premise about
faults: a lost downgrade is taken up by the next nightly run. Nor has it one about
panels: what a panel left open gives a free guild is trimmed the next night.

## 5. `SubscriptionSync`: the subscription row and Paddle

One guild and the Paddle subscriptions bought for it. Nothing of another guild
is read or written, but for the mass-action cap, which is taken as not reached
(it needs 50 guilds), and refunds without a subscription id, which are left out.

* **Paddle** (external): `versions` is each subscription's status at each of its
  updated_at, so an event is a subscription and a number; `carts`, `refunds`;
  `pending` are the events not answered 200. An event may be delivered at any time,
  in any order, and again while another delivery of it is being handled.
* **Postgres**: `row` (which subscription, its status, lastEventAt, lastRefundAt),
  `withdrawn` (the unique index of withdrawals). **Redis**: `marked`. `MarkExpires` is
  the key's 24 hours, which are shorter than Paddle's retries.
* **Handlers**: `job` is what each webhook, withdrawal and the nightly pass is about
  to do and the locals it carries. `GetByPaddleSubscriptionId` to `Insert` are the awaits
  of `applyPaddleSubscription`, shared by all three callers as in the code; `Enforce` is
  what each caller does with the transition it saw, from the row it read before.
* **Channels**: `served`, whether they have their Premium shape: one bit for what
  `ChannelServing` models. `ReadPlan` and `Serve` are its plan read and its writes.
* **Nightly pass**: `StartPass` lists Paddle (one guild's subscriptions fit a page),
  `TakeListed` applies in an order the code does not choose, `Backstop` is the query and
  the collected revocations. One pass at a time, as `createReconcileRunner` has it.
* **Failures**: `Fail` is an await that rejects, `MarkProcessed` may lose its answer,
  `Crash` drops every handler. A graceful shutdown is a crash with fewer outcomes.

`active` stands for the three statuses that entitle, `paused` for those that may
come back, `canceled` is final. `Withdraw` is one action although the route reads
before it inserts: only the unique index reads what it writes. The guild is
present and migrated. Window anchors and prices do not influence what is modelled.

| run | instance | shows |
|---|---|---|
| `SyncSafe` | 2 subscriptions, 2 handlers, withdrawals, a change, a refund | `RowIsTrue`, `RefundSurvives` in every interleaving |
| `SyncLive` | 2 subscriptions, a handler beside the nightly pass, a change, a fault, a crash | `Converges`, `DowngradeEnforced` |
| `SyncGrant` | one subscription, 2 changes, a fault | finding 1 |

Two subscriptions are what a re-subscribe and a duplicate checkout are about, two
handlers what a race on the row is about. Each subscription starts with one
version and one change gives an older and a newer event; a late one of either
comes for free, since order and repetition are unbounded. One fault or crash is
enough for each window between an UPDATE and what should follow it. Deadlock is
not checked: with its bounds used up and its events answered the guild rests.

**Fairness** (`SyncLive`, `SyncGrant`): Paddle retries what is not answered 200, an
await returns or rejects, the pass runs every night and once started goes on.
Nothing is assumed of the subscriber. Faults and crashes are bounded, so some
night passes without one, which is all `Converges` needs.

`Converges` asks for less than equality with Paddle: with no subscription running
the row may show either of two ended ones (see the hazards).

## 6. `GuildPresence`: is the bot there, and what for

One guild. Nothing of another is read or written, but for the mass-action cap,
taken as not reached.

* **Discord** (external): `member`, `live` and `created` channels, `outage`. A channel's id
  never comes back.
* **Bot**: `pending` is `pendingJoins`, in memory. `calls` are the DELETE and POST /new on
  their way or between retries; they land in any order, and a POST carries the
  channel list of the moment it was made.
* **Postgres**: `row` with the days since leftAt (`left`), whether joinedAt is within the
  sweep's join-race guard (`fresh`), and migratedAt as a bit; `rows`. **Redis**: `marker`
  (`migrated:`), `keys` (`enabled:`). Beside them two histories: `owed`, the channels whose
  key a failed sync did not write or the cleaning up of a purge or a prune took from
  a newer row, and `awry`, a marker left wrong in such a way. The next sync, enable or
  restart settles them.
* **Backend**: `job` gives each handler and the nightly job its await and locals.
  `ActivatePresence` to `UnkeyPruned` are `registerNewGuild`, `ReadServing` to `SetMarker`
  the sync it shares with `migrate`, `CheckMembership` and `RestorePresence` the heal,
  `FetchLive` to `SweepSoftDelete` the sweep, `ListAbandoned` to `Unmark` the purge.
  `Enable` is `Channels.add` and a deleted channel its removal, in one action each:
  `ChannelServing` has their awaits, the plan, and what `reconcileChannelServing` does
  after a registration or a heal.
* **Faults**: `CallLost`, `Fail` (an await rejects), `BotRestarts`, `BackendRestarts`
  (`Channels.initialize` runs before the backend listens).
* **Time**: `StartNight` is a day, and waits for requests and calls, which a day is long
  enough for. What lands during the job is not restricted.

`Migrate` and `CheckMembership` start where the dashboard offers them: the bot is in
the guild, and the page's read has found or not found it in Postgres.
Nothing keeps a re-invite out of a purge: the row may come back between the DELETE
and the end of the cleaning up, which then takes the keys just written. `owed` and
`awry` name what that leaves, and `AllowlistStands` says that nothing else ever is.

| run | instance | shows |
|---|---|---|
| `Presence` | a channel from the start and one created later, a handler beside the nightly job, a leave and a join, purge after a day, one fault of any kind | `ConfigSurvives`, `AllowlistStands`, `PresenceConverges` |

One invitation is a re-invite for a guild that was there, and the first join
for one that is new: `Init` allows both. One fault of any kind meets every
window, and two days reach the purge (1.4 million states); the theorems (section 11)
are for any number of handlers, channels and faults. `ConfigSurvives` is about
channels that were there from the beginning: a registration retried after a channel
was created and enabled prunes it, as its list is that of the first attempt
(section 10). Deadlock is not checked: the guild rests when its bounds are used up.

**Fairness** (`Presence`): outages end, a call is retried until it lands or is given
up (a fault), an await returns, the nightly job runs and goes on. `PresenceConverges`
needs the nightly job only: it must make up for every lost event.

## 7. `Withdrawal`: leaving the contract

Each contract belongs to a guild of its own; a re-subscribe is
`SubscriptionSync`'s matter.

* **Web**: `tab` is the dialog of `withdrawal-panel.tsx` and its request.
* **Route** (`routes/api/guild.ts`, `services/withdrawal.ts`): every await is an action:
  the find, the window, `Record` (INSERT under its unique index), the mail and its
  stamp, the refund with what its catch writes, the cancellation. The effects live
  in memory; `Crash` drops them, and a lost answer to the INSERT hides it.
* **Jobs**: `sweep` is the retry of acknowledgements every ten minutes, with the
  contract in hand and those whose mail it has had accepted; `night` the
  nightly run with its rerun timer and its alert (`reconcileRunner.ts`), and behind
  it the four steps of retention, each under the mass-action guard.
* **External**: `running` and `refunds` are Paddle's, `mails` the mail server's.

| run | instance | shows |
|---|---|---|
| `Withdrawal` | one contract, two tabs, 2 submissions, one fault or crash, nights that fail twice | `RefundedOnce`, `AckedWasMailed`, `DutyKeepsAddress`, `TwoBlipsAlert`; `Acknowledged` and `AddressErased` in the end |
| `WithdrawalEnds` | one tab, one submission, one fault | finding 2 |

Two tabs are what a double submission is about, one fault what each window
between two awaits is about. The retention periods keep their order (window,
erasure, deletion) and shrink to ticks; the horizon is past the last. Nothing
is asked of them but that the deletion is the last (`Window` and `EraseAge` at most
`DeleteAge`: 14 days, 24 months, 11 years).

**Fairness**: an await returns, the jobs run at their times, a dead backend is
restarted, and time passes (strongly: a tick waits until the requests of the day
are over, and they always are). Nothing is assumed of the subscriber, and a mail
that is refused stays unsent until a retry.

## 8. The surfaces

What an admin holds in hand, checked by one run (`Surfaces`, CONSTANT `Surfaces`
names those of a run) with everything that may change elsewhere.

* `FilterRules`: the row's state, its conditions with their ids and its mode; what each
  route asks of the row and what it makes of the list it read. A condition is
  reduced to its kind.
* `FilterPanel` (`ap/filter/panel.ts`): `view` is what the last edit shows, and the
  buttons follow from it; each handler slot has its await and what it read. Forms,
  refusals, notices, paging, the loss of Manage Server. A slot's call is the route
  await by await: its check, the read of the list, the write of the whole list, the
  rollback, which may fail; a call that the bot gives up goes on in the backend.
  `draft` is a save of the dashboard's beside the panel.
* `PanelClock`: the collector's idle timer, the form's wait, `age` of the token since the
  last response, `since` of the member's last action.
* `RuleEditor` (`filter-config.tsx`): the form, its baseline and the save in flight, which
  the backend reads, writes and, if the cache fails, puts back or fails to.
* `ChannelSwitch`: the tab's switch with its dialogs, and `/ap enable` and `/ap
  disable`, each acting on what it read before.
* `RolloverSwitch`: the panel of `/ap rollover` and the card, which shows a change
  before it is made and takes it back. `crossed`: a change of the card's met another's,
  or a refresh of its own.
* `GuildOverview`: the reply of `/ap overview` and the dashboard's overview, badge and
  notices, computed from the same rows, each where its own code puts it. A channel is
  served or paused, in sight or hidden, in a category or outside of all. The bot's
  order of the channels without a place in the sidebar is the one of its row cache, the
  dashboard's the one of the database: both are left open.
* `Checkout`: pricing, Paddle's overlay, payment, webhook, and the poll on return.
  `heard` are the buyers whose subscription has been in the row, `knew` those it had
  been when a purchase was priced.
* `PublishState`: the hash, the bot's sweeps and partial pushes, and the dashboard's read:
  the channel list, HGETALL (which may fail, and then every channel is a miss), roles
  and member, each cached and kept for itself, and the write-back. A role that is
  deleted evicts the list of roles and pushes nothing, as in the code.

| property | says |
|---|---|
| `GoneStaysGone` | a condition that is gone comes back only with a call that had read the rule while it was there: never through a button, a form or a handler that still names it |
| `AllSavedIsTrue` | "All changes saved" is true unless somebody else changed the row |
| `ClosesInTime` | a panel ends a whole idle window after the member's last action or at the end of its token's life, not sooner; and not later than one form's wait after the latter |
| `WarnedBeforeLoss` | no condition is deleted that its member was not asked about |
| `CardSettles` | once its calls are answered and its refreshes have landed, the card shows what the server said last, unless `crossed` |
| `OverviewAgrees` | the bot and the dashboard list the same channels, served and paused, with the same verdicts; those with a place in the sidebar come in its order on both; and the reply's cap drops healthy rows first |
| `NoSecondPurchase` | two subscriptions in force at once, or two trials, only if each was priced before the backend had heard of the other |
| `ReportsStand` | what the hash says of an announcement channel is true or a true report of it is on its way, except where no report of a change was made or it was lost (a deleted role among them), a change overtook a report, or a copy it was computed of was old by then; the next true report ends each |

`OverviewAgrees` asks that the cap drops healthy rows first. With more broken rows than
the cap the code drops some of those too, although "truncation only ever drops healthy
rows" (`overview.ts:35`), and says how many it hides.

The bounds. Two handlers, calls, presses, buyers or writers are what an overlap
is; two conditions and one per page make pages; three channels, one of them outside
of all categories, with lists of two make both caps bite, and the overview begins
with every channel stored, or with a guild that is not migrated. A change made elsewhere overlaps the handlers one at a time, at
any moment. The hash has one channel, as a report, a read and a change of it are what
races, and the roles are all channels' anyway; two of its changes and mishaps
(`MaxTurns`) make a report late and the next one lost; copies are kept for longer than
a behaviour lasts. Timers keep the order of
their values (3, 4, 5 for 9, 10 and 14.5 minutes). `Sizes` leaves out rules whose
kinds a surface does not tell apart. Symmetry is over the handlers and the
channels of the hash, and no liveness is checked with it. A surface may stop, so
deadlock is not checked. The run has 1.3 million states: 319 thousand of the panel,
312 of the hash, 282 of the editor, 200 of the channel switch, 142 of the overviews,
40 of Rollover, 3 of the purchase and 360 states of the clock.

## 9. What Discord answers: `HelperRoles`, `CrosspostJobs`, `UserReads`, `DashboardPage`

* `HelperRoles` (`helper/src/services/reconcile.ts`): the backend's table, the server's
  members, the role's holders, and the gateway cache that follows them except in
  an outage; the pass (read, plan, one write at a time, under the guard), the join
  check, restarts. The member sync is two steps: `FetchMembers`, whose answer goes into
  the cache, and `EvictMembers`, after which whoever was not in the answer is not in
  the cache either. `overlooked` are the members the latter took out although they
  had joined in between.
* `CrosspostJobs` (`proxy/src/crosspost/queue.ts`, `gate.ts`, `gateway/invalidRequests.ts`):
  each message's push and job, the lock and denylist of a channel, the window.
  `ours` counts those answers of the window that ended a crosspost.
* `UserReads` (`packages/express`): what is true (`alive`, `manages`), the warm copy and
  the kept one of both routes, and each request at its await. A call is evaluated
  and lands up to `CallTime` later; either write may be lost. `since` counts the
  ticks since the token and the permission were both good.
* `DashboardPage` (`guild-detail-boundary.tsx`, `[guildId]/layout.tsx`): what is on
  screen, the latched error, the detail's promise, refreshes in flight, the budget
  of automatic retries.

| run | instance | shows |
|---|---|---|
| `Discord` | helper: 2 users, a guard's floor of 1, 3 changes, 1 fault; jobs: 2 messages of 2 channels, concurrency 2, threshold 2; reads: 2 requests, a kept copy of 2 ticks, a call of 1; page: 3 automatic retries, 3 presses | `CacheIsTrue`, `RolesConverge`, `KeepsPaying`, `ShedBounds`, `StaleIsBounded`, `PageRests` |

The bounds. Two users put the guard's cap between some and all of them; three
changes let a member join during a fetch, pay, and somebody else leave, and one
fault beside them meets each window of a pass; two jobs fill the worker at
the moment the window fills; two requests are what a slow answer that lands after
a later one needs; three retries are the code's `MAX_AUTO_RETRIES`.

**Fairness.** Helper: the poll timer fires, the gateway comes back, calls end
(changes and faults are bounded, so they settle). Page: a read ends
(`BACKEND_TIMEOUT_MS` is ten seconds), a refresh arrives, the fallback's timer
fires, React renders. Nothing is assumed of what a read answers: `PageRests`
holds in an outage without end. `RolesConverge` excepts a role that may not be
written and more revokes than the guard allows, as the code does, and the
members who are overlooked, to whom the code gives no role (section 10).

`StaleIsBounded` bounds a stale answer by the lifetime of a kept copy plus the time of
one call, which is more than the comment's "lifetime of a kept answer"; the call has
no timeout of its own (`discordUserApi.ts:125`), so `CallTime` is what undici and
Discord allow, and a constant here.

## 10. Findings

1. **A grant is enforced once or never** (`SyncGrant`, `GrantEnforced`). If enforcing a
   grant fails after the UPDATE, the retry that the 500 asks for and every nightly
   pass see no transition, and the backstop looks for revoked rows only.
2. **A recorded withdrawal may not end the contract** (`WithdrawalEnds`,
   `WithdrawnEnds`). A crash between the INSERT and the cancellation, a lost answer
   to the INSERT, or a database failure in the refund's catch leaves the
   subscription billed, with nobody told; the comments call the nightly reconcile
   the backstop, and it copies Paddle's state.

Each quotes, in `PROJECT.json`, the comment or document it disagrees with.

**Divergences met while modelling**, without a run of their own. A reader of the
code should know of them:

* A drain retried with backoff never extends its claim: ten attempts wait up to
  1022 s and the claim lasts 600 s, so the next held message may start a second
  drain. Order survives (`PostOrder` is proved without conditions).
* The routes a filter panel uses check no plan and no pause, and a downgrade closes no
  panel. One left open gives a free guild's channel conditions, or writes a paused
  channel's key back, so that the bot publishes it again: until the nightly trim, an
  enable or a restart (`strayed` in `ChannelServing`).
* Every change of a condition writes the whole list it read (`channels/operations.ts:27`,
  `:67`, `:113`), and a failed cache write puts the whole list back (`:92`, `:151`, `:195`).
  So of two removals at once the later brings back what the earlier removed, and a
  rollback undoes a newer edit. Two additions that are checked before either is
  written pass the cap (`filters.ts:23`). A rollback that fails leaves the new rule in
  Postgres although the editor says that it was refused.
* After an addition the panel forgets the pick (`panel.ts:284`), also one made while the
  addition was in flight.
* A late event of a replaced subscription is taken for a re-subscribe until the
  nightly pass (`subscriptions.ts:259`).
* A migration whose cache sync fails twice leaves rows and no marker; the next
  enable writes the bare marker, and the migrated channels are then not on the
  allowlist, where the comment promises "never a broken in-between state"
  (`guilds.ts:414`). A guild that is invited again between a purge's DELETE and its
  cleaning up loses the keys and the marker it has just written (`guilds.ts:149`). Both
  last until the next sync or restart (`owed`, `awry`).
* A registration that is retried sends the channel list of its first attempt and prunes
  what was enabled since.
* A member who joins while the helper awaits the member fetch is in the cache but not
  in the answer, and is evicted (`reconcile.ts:207`). If they pay later, no pass finds
  them, and the role comes only with a later event of theirs or the next fetch
  (`overlooked` in `HelperRoles`).
* A crash between the DEL of an allowlist key and the DEL of its backlog leaves a
  backlog that the restart does not find (`data/channels/cache.ts:13`).
* With two ended subscriptions of one guild, each nightly pass lets either take the
  row (`subscriptionReconcile.ts:26`); which contract's withdrawal window is shown
  depends on Paddle's order. A registration keeps a legacy row that the
  dashboard's read inserted before it (`presenceHeal.ts:57`).
* Two trial purchases priced before either is in the row are both trials, though
  `subscriptions.ts:14` says "One trial per guild, ever". `NoSecondPurchase` is
  what does hold.
* A panel may outlive its token, by one form's wait at most: collecting the press that
  opens a form restarts the idle timer in full, and only the end of the wait sets it to
  what the token has left, against "it must never outlive it" (`panel.ts:470-473`). And a
  press that renders nothing at the end of the token's life ends the panel at once, though
  "a panel the user just acted on must not expire out from under them" (`panel.ts:140`).
* `/ap disable` says that it disabled the channel also when the call failed
  (`disable.ts:94`, `:126`). The Rollover card takes over what a refresh says only when
  that differs from what the last one said (`rollover-card.tsx:27`): a change made by
  others between its call's answer and its refresh, or a refresh that lands during
  its call, can leave it wrong until the setting changes again (`crossed`).
* The bot's paused reason lacks the page's check of the cap (`overview.ts` beside
  `use-guild-attention.ts:93`). The slow-activation notice says "Your payment went
  through." (`guild-notices.tsx:219`), while its comment says that neither variant
  may claim a payment, since a trial completes at $0.00 (`guild-notices.tsx:191`).
* `publishState.ts:17` says the bot's sweep on reconnect replaces every field; the
  sweep runs when a client becomes ready and when a guild is joined. A
  dashboard's write-back may store a five-minutes-old verdict over one the bot has
  just reported (`publishState.ts:96-115`). Deleting a role that lets the bot publish
  pushes nothing (`bot/src/listeners/guild/roleDelete.ts:12`), so the hash goes on
  saying that it can until something else is pushed or the entry expires.
* The card for an absent bot refreshes outside the boundary's own transition, so
  the latched boundary keeps the card after the bot is back
  (`error-redirect-boundary.tsx:31` says so; `bot-absent-card.tsx:23`). The badge's
  boundary in `guild-dashboard-shell.tsx` has no reset keys.
* The two overviews may order a guild differently where a channel is hidden from the
  bot: the reply sinks it below the channels outside of all categories and above
  every category (`overview.ts:97-122`), the dashboard appends it after everything,
  in the order of a query without ORDER BY (`dashboard.ts:57-72`, `guilds.ts:439`). The
  comments say that "the two surfaces can't disagree" (`overview.ts:97`) and "can never
  order the same guild differently" (`packages/utils/src/discord.ts:37`).
* Short 429s that discord.js waits out inside one send are counted each time, and no
  shed stops them (`gateway/invalidRequests.ts`): `ShedBounds` is about answers that
  end a send.

## 11. Proofs

| theorem | statement | assumes |
|---|---|---|
| `RolloverDrain_proofs!TypeCorrect` | `Spec => []TypeOK` | the constants' assumptions |
| `RolloverDrain_proofs!InPostOrder` | `Spec => PostOrder` | nothing more: crashes, faults and concurrent drains included |
| `RolloverDrain_proofs!KeyOutlives` | `Spec => []KeyOutlivesMembers` | nothing more |
| `RolloverDrain_proofs!ImplementsOutbox` | `Spec => Outbox!Spec` | nothing more |
| `RolloverClaim_proofs!DrainsOneAtATime` | `Spec /\ []Undisturbed => []OneSender` | nothing of the constants |
| `RolloverClaim_proofs!NeverStranded` | `Spec /\ []Undisturbed => []NoStranded` | nothing of the constants |
| `ChannelServing_proofs!ServingTypeCorrect` | `Spec => []TypeOK` | the constants' assumptions |
| `ChannelServing_proofs!NoBacklogOffTheAllowlist` | `Spec => []HeldIsServed` | the constants' assumptions |
| `ChannelServing_proofs!AllowlistOfOneHandler` | `Spec => []AllowlistMatches` | `Handlers = {h}` |
| `ChannelServing_proofs!PlanOfOneHandler` | `Spec => []PlanIsKept` | `Handlers = {h}` |
| `SubscriptionSync_proofs!SyncTypeCorrect` | `Spec => []TypeOK` | the constants' assumptions |
| `SubscriptionSync_proofs!TrueRow` | `Spec => []RowIsTrue` | nothing more: every interleaving, fault and crash |
| `SubscriptionSync_proofs!RefundHistory` | `Spec => RefundSurvives` | nothing more |
| `GuildPresence_proofs!PresenceTypeCorrect` | `Spec => []TypeOK` | the constants' assumptions |
| `GuildPresence_proofs!SetupSurvives` | `Spec => ConfigSurvives` | nothing more |
| `GuildPresence_proofs!MarkerIsTrue` | `Spec => []AllowlistStands` | nothing more |
| `Withdrawal_proofs!WithdrawalTypeCorrect` | `Spec => []TypeOK` | the constants' assumptions |
| `Withdrawal_proofs!RefundsOnce` | `Spec => []RefundedOnce` | nothing more: any tabs, contracts, faults and crashes |
| `Withdrawal_proofs!AckedAreMailed` | `Spec => []AckedWasMailed` | nothing more |
| `Withdrawal_proofs!OwedKeepAddress` | `Spec => []DutyKeepsAddress` | nothing more |
| `Withdrawal_proofs!BlipsStaySilent` | `Spec => []TwoBlipsAlert` | nothing more |
| `Surfaces_proofs!NoConditionReturns` | `PanelSpec => GoneStaysGone` | nothing more |
| `Surfaces_proofs!PanelClosesInTime` | `ClockSpec => ClosesInTime` | the order of the timers |
| `Surfaces_proofs!SavedMeansSaved` | `EditorSpec => []AllSavedIsTrue` | nothing more |
| `Surfaces_proofs!NoUnwarnedLoss` | `SwitchSpec => WarnedBeforeLoss` | nothing more |
| `Surfaces_proofs!CardShowsTheServers` | `RolloverSpec => []CardSettles` | nothing more |
| `Surfaces_proofs!OneTrial` | `CheckoutSpec => []NoSecondPurchase` | nothing more: any buyers, and every order of events |
| `Surfaces_proofs!HashIsTrue` | `PublishSpec => []ReportsStand` | nothing more |
| `Surfaces_proofs!OverviewsAgree` | `OverviewSpec => []OverviewAgrees` | nothing more: any channels, categories, hidden ones and lengths of the lists |
| `Discord_proofs!HelperTypeCorrect` | `HelperSpec => []HelperTypeOK` | the constants' assumptions |
| `Discord_proofs!PayersKeepTheRole` | `HelperSpec => KeepsPaying` | nothing more |
| `Discord_proofs!CacheTellsTheTruth` | `HelperSpec => []CacheIsTrue` | nothing more: any members, outages and overlapping fetches |
| `Discord_proofs!ReadsTypeCorrect` | `ReadsSpec => []ReadsTypeOK` | the constants' assumptions |
| `Discord_proofs!StaleServeIsBounded` | `ReadsSpec => StaleIsBounded` | nothing more: any lifetimes, requests and attempts |
| `Discord_proofs!JobsTypeCorrect` | `JobsSpec => []JobsTypeOK` | the constants' assumptions |
| `Discord_proofs!ShedIsBounded` | `JobsSpec => []ShedBounds` | nothing more |
| `Discord_proofs!PageDescends` | `PageSpec => [][Descends]_pageVars` | nothing more: any retries and presses |
| `Discord_proofs!PageNeverStuck` | `PageSpec => [](Effort \in Nat /\ Tries \in Nat /\ (Resting \/ Owed))` | nothing more |

`Undisturbed` says of a state: no command of Redis has failed, the proxy has not
crashed, and no drain has failed so often that its backoffs reach the claim's slack.
It restricts the behaviour and no constant, and as a behaviour may stop anywhere, the
two theorems hold in each for as long as it is undisturbed. The code's backoffs are
2 s doubled each time and its slack is 600 s: eight failures of one drain are within
(510 s), the ninth is not (1022 s), and section 10 says what happens then. The proxy
dying after ZADD and before the claim shows why crashes are excepted:
the bot's retry is a duplicate, is answered 202 and starts no drain, and only
the channel's next held message does. A queue.add that fails between the claim
and its release (`queue.ts:90`) shows why faults are.

`Handlers = {h}` is what the two properties of `ServingAlone` are about: with two
handlers the code breaks them (sections 4 and 10). The channels, the messages, the
requests, the cap, the panels left open and the crashes stay arbitrary.

The arguments.

* **Post order.** `PostOrder` speaks of the step that publishes and is not inductive.
  `OrderInv` adds when the order is decided: what is ahead of a message is in the
  backlog, and whatever is ahead of a message in hand is younger than it. Taking the
  oldest establishes it, leaving the backlog keeps it (`Keep` shrinks `ahead` too),
  and a message held while it is in hand has nothing ahead of it. No claim and no
  uniqueness is used, which is why crashes do not matter.
* **Outbox.** Each action is one step of the outbox or a stutter, by what happens to
  the hands: only `ReadOldest` fills them, and publishing, throwing and crashing only
  empty them.
* **The key.** `LifeInv`: what is held, or asked to be held, was posted, and no message
  has longer to live than a fresh one. A hold sets the key's life to a fresh
  message's, so the key outlives every member it had.
* **One sender.** `ClaimInv`: at most one job or request stands where it holds the
  claim (`OneHolder`), and the claim's remaining life exceeds whatever still lies
  before that holder (`ClaimOutlives`), backoffs already spent added on both sides. A
  claim can be taken only when it is gone, hence when nobody holds it. `Slots` says
  what a free slot looks like.
* **Nothing stranded.** `CoverInv`: while the claim is set somebody attends to the
  backlog, a drain that failed for good has said so, and a non-empty backlog is
  covered. `finishDrain` returns the claim and counts in one MULTI: with a member left
  it goes on, without one the next hold finds the claim free.
* **No backlog off the allowlist.** `HeldIsServed` speaks of what is held, and a message
  may be held at any moment of its push. So `HeldInv` says it of every message that is
  held or being pushed and is not late. Every DEL of a key leaves its handler at "clear"
  with the same channels, and the DEL of their backlogs takes what is held and makes
  late what is being pushed; only a message of an allowlisted channel gets through.
* **One handler alone.** The properties speak of an idle handler; `AloneInv` says at each
  await what is still to be done. `Course` is which operation can be at which await,
  `Locals` what its locals say of the rows it is about to write, `PlanKnown` what the
  plan still is, as nobody else changes it, and `AllowlistDue` that the allowlist is
  right outside of `strayed`, or becomes right by the very write that the handler is
  at. `DueInv` does the same for the plan: the flag is the setting's unless a handler
  has yet to read it again (`FlagDue`), messages that are not late are there only under
  Rollover or where they are about to be dropped, and without Premium the channels with
  conditions are among `strayed` or about to be paused (`FilterDue`).
* **The true row.** `RowIsTrue` is kept by a write because the event written is
  real, which `SInv` says of every event there is: pending, marked, listed and in a
  handler's hands (`EventsReal`, `PageOK`, `JobsReal`). Versions are only appended, so
  what was real stays real. No claim about order is needed, which is why late
  events cannot hurt it; that the row is also the newest is `Converges`.
* **Refund history.** The same invariant with two facts of the writes: `Write` leaves
  lastRefundAt alone and `Insert` writes only where there is no row.
* **Setups survive.** Only the prune, the purge and a channel's own deletion remove
  rows, and the purge's DELETE checks leftAt itself. For the prune, `SetupInv`: every
  registration, on its way, in hands or about to prune, lists all living channels
  that were there from the beginning, because such channels only ever go.
* **The allowlist stands.** A handler that registers, migrates or syncs works on a guild
  whose row is there (`RowStays`). A serving channel is on the allowlist, or `owed` to it,
  or in the hands of a handler that will read or put it there (`Keyed`, `Puts`); only a
  migrated guild has the marker, or one whose purge has yet to take it (`Marked`), and
  a migrated one has it or a handler that will set it (`WillMark`), unless it is `awry`.
  The theorem is that the two histories, which only a failed await and the cleaning up
  of a purge or a prune feed, are the whole list of exceptions.
* **One refund.** A tab owns the effects of a contract from the moment its INSERT wins
  to the refund: `OwnersInv` says that no two tabs own one, and that nothing is refunded
  before the owner raises it. A record lost to the retention could be inserted
  again; its window is long over by then (`TabsInv`, `RefundsInv`, `Window <= DeleteAge`).
* **Stamps and addresses.** `MailsInv`: whoever is about to stamp has had its mail
  accepted. Proving it showed that an earlier model of the retry had forgotten which
  record it had mailed, and let it stamp the next one after a failed UPDATE; the
  instance of one contract could not tell. `DutyKeepsAddress` is inductive by itself.
* **Two blips.** `NightInv`: a rerun that is due or begun has a failed run before it and
  no good one between, and the timer is off while a run is under way.
* **No condition returns.** A write puts down the list made of the one its call has read,
  or that list itself: its ids are the ids of that reading, and the call's own new one
  (`StoresItsReading`, `UndoesToItsReading`). Ids are minted in order and none twice.
  `PanelInv` says only that what rows, calls and saves carry are rules: no claim about
  forms or buttons, so they may be as late as they like.
* **The panel closes in time.** `WindowKept`: while the collector runs, its rest and what
  has passed since the member's last action add up to an idle window, or its rest and
  the token's age reach the end of the token's life. `LifeKept`: they do not exceed it,
  unless a form is awaited that was opened within it. The first bounds the end from
  below, the second from above.
* **All saved.** `BaselineTrue`: the baseline is the stored rule unless somebody else
  changed it, while a save waits for the server, and after a bad answer; after a good
  one the stored rule is what the save carried, which becomes the baseline. What a save
  under way would put back is the baseline too, as nobody else changed the rule it read.
* **No unwarned loss.** `CallOk` and `CommandOk`: a write on its way that nobody was asked
  about does not clear, or had read no condition. Enabling without consent keeps the
  rule whatever the plan and the cap have become (`EnableKeepsRule`): the check is
  the route's own.
* **The card.** `Uncrossed`: while nothing has crossed it, a call carries away what the
  server said last, an answer is what is in effect, and a refresh under way finds the
  card showing either of the two.
* **No second purchase.** `SaleInv`: a row that has heard of a purchase has a subscription,
  and follows that one while it is in force (`Followed`); so the route, which refuses
  while the row entitles and offers a trial only without a row, prices later ones
  only when what it had heard of is over for good, and never as a trial (`Known`).
* **The hash.** `PublishInv`: the gateway's cache is what Discord has while it listens;
  what a job has read of a channel, and what it reports, is true or marked old (`JobOk`);
  and `ReportsStand`, which is inductive with these two. A change marks every job under
  way (`OutdatedOk`), and a copy is compared with the truth when it is read.
* **The overviews.** Both surfaces sort what they list by the same rank as far as it has
  a place in the sidebar, so the two lists restricted to those channels are two
  ascending enumerations of one set, hence equal (`Ascends`, `Enumerated`); what has no
  place may stand anywhere, and the theorem is about every order of it. The verdicts
  agree because both are functions of the same row, and the cut keeps broken rows
  before healthy ones (`FirstThose`). A reply stays true while nothing of the guild
  changes (`RepliesStayTrue`), so `RepliesTrue` is inductive by itself; the lemmas on
  lists carry the proof.
* **Payers keep the role.** `PassSparesSteady`: who has paid since the pass began is
  paying, is in the answer once there is one, and is not among the revokes. A
  failed read ends the pass without an answer, so there is no third way.
* **The helper's cache.** `CacheInv`: between an answer and its clean-up the cache has every
  member, and nobody of the answer who has left (`FetchStands`), so what the clean-up
  takes wrongly is exactly who joined since. Only a fetch overtaken by an outage is
  under way at any other time, and the next one repairs what it took.
* **Stale answers end.** What a copy says was true when Discord looked it up, and the
  ticks since then and the ticks it has left add up to no more than its
  lifetime and one call (`CopiesAreRecent`); the same of an answer on its way
  (`AnswersAreRecent`). A slow call that lands after a later one stores its old
  answer with a full lifetime, which is why the call's own time is in the bound.
* **The shed.** `RoomForSends`: the answers of ours in the window and the jobs being
  sent fit under the threshold and the concurrency together. A job enters only
  below the threshold; an answer moves one from the second to the first.
* **The page comes to an end.** `Effort` weighs what the person and the other refreshes
  can still do, `Tries` what the boundary does by itself; every step lowers the first,
  or keeps it and lowers the second (`PageSteps`), and both are natural numbers. The
  cases that look like loops are the ones a weight is for: a page whose list fails
  and arrives again, a guild that is gone and asks for one more refresh, an invite
  that opens a guild, the boundary's own refresh that restarts the read. `Budget` is
  what the induction needs: a fallback that waits holds the error and has a retry left
  or one on its way, so its refresh resets it. The first attempt lacked the held
  error: TLC found the rest true, and it is not inductive without. Together with
  `PageNeverStuck`, whose `Owed` is the guard of a fair action, only the rule of weak
  fairness itself is missing from a proof of `PageRests`.

## 12. Only model-checked, and not modelled

**Only model-checked.** Liveness under fairness is outside the prover's reach
(`HeldSettles`, `FreeIsTrimmed`, `Converges`, `DowngradeEnforced`, `PresenceConverges`,
`Acknowledged`, `AddressErased`, `RolesConverge`, `PageRests`). Of `PageRests` the
decreasing measure and the absence of stuck states are proved. Every other property
of a passing run is the statement of a theorem: for two of them in every behaviour
as long as it is `Undisturbed`, for `AllowlistMatches` and `PlanIsKept` with one handler. What lists of numbers need (sorting, picking,
cutting) is defined by ranks in `Listings` and not with the library's recursive
operators, which the prover cannot unfold. The type invariants of `FilterPanel`,
`RuleEditor`, `ChannelSwitch`, `GuildOverview` and `PublishState` are there for the
reader and for a quick run: their proofs need less of the types, and say what.

**What a run leaves out although a hazard names it.** The drain whose backoffs outlive
its claim (section 10): `OneSender` is checked and proved for undisturbed behaviours,
and order without conditions. The mass-action cap of retention (`Withdrawal`) never
refuses in its instance of one contract: `AddressErased` would need a second night.
429s that discord.js waits out inside a send. A call of `UserReads` that takes longer
than `CallTime`.

**Not modelled.** Evaluating a rule against a message, and what a condition row of
the editor does with its inputs: functions of strings, with unit tests. The
cluster manager's respawn backoff. The REST passthrough, beyond the answers it
adds to the window. Metrics, logging, layout, wording, the marketing site, the
migration dialog's texts, configuration and validation of the environment.
