# songguo in TLA+

songguo is a self-hosted gateway for LLM APIs: it authenticates a client,
picks an upstream vendor, relays the exchange, meters it, and keeps a ledger of
calls and a running spend per user. This directory holds TLA+ models of its
core, the TLC configurations that check them, and TLAPS proofs. Every
definition is a translation of the Go code under `src/backend`; `PROJECT.json`
names the lines of each one.

File names below are relative to `src/backend/internal` unless they start
elsewhere.

## 1. The system

| Component | State it keeps | Operations | Modelled in |
|---|---|---|---|
| Concurrency gate (`concurrency/gate.go`) | per credential: in-flight count, queue of channels, last limit reported | Acquire, release, abandon, the limit change in Acquire | `Gate`, `SlotPool` |
| Router health (`router/health.go`) | per vendor: failure streak, sessions that got a 4xx, cooldown, demotions, dead; per (vendor, model): a cooldown | ReportAttempt, ResetHealth | `HealthLadder`, `Health` |
| Router affinity (`router/affinity.go`) | session key -> vendor, when last seen; next sweep | get, set, sweep, evict | `AffinityMap`, `Router` |
| Router selection (`router/router.go`) | none of its own | Select, order, rankVendors, Pin | `Router` |
| Spend tracker (`spend/spend.go`, `store/spend.go`) | per user: cached row total, pending increments; the rows | Add, Get, Flush, Run, Forget | `Spend` |
| Ledger (`ledger/ledger.go`, `store/calls.go`, `store/payloads.go`, `store/composition.go`) | a bounded channel, bytes of captured bodies, a writer goroutine; the tables | Submit, run/apply, retryBusy, Flush, Close | `Ledger`, `CallLog` |
| Proxy request (`proxy/proxy.go`) | one request's steps | auth, capture, budget, rate, gate, select, relay, finalize | `Requests`; its effects on `Router` and `Ledger` |
| WebSocket relay (`proxy/websocket.go`, `proxy/wsmeter.go`) | two pumps, a usage meter beside them, one row at the end | | `Requests`; its row in `Ledger`; the meter in `SocketMeter` |
| Rate limiter (`proxy/ratelimit.go`) | per user: start and count of the current window | allow | `Requests` |
| Parse pipeline (`proxy/pipeline.go`) | a channel of jobs, the bytes they hold | submit, process, Close | `ParsePipeline` |
| Session rollup (`proxy/insights.go`, `store/sessions.go`) | a best-effort queue; one row per session | submit, UpsertSessionCall, PruneSessions | `Sessions` |
| Configuration (`configsvc/manager.go`, `config/snapshot.go`, `store/providers.go`, `store/proxies.go`) | the tables, the live snapshot | the edits of the admin API, Reload | `Pricing`, `Snapshots`, `Config`; the reset of health in `Health` |
| Price feed (`pricefeed/`, `catalog/`) | stored rates | Refresh | `Pricing`, `Config` |
| Users (`store/users.go`, `api/handlers.go`) | keys, budgets, revocation | create, adopt, update, revoke, delete, EnsureAdminUser | `Users` |
| Pressure (`pressure/pressure.go`) | the level, since when readings are clear | sample | `Pressure`; what a level sheds in `Requests` |
| Janitor, drain, retention, checkpointer (`janitor/`, `store/retention.go`, `cmd/songguo/main.go`) | how far the sweep and the drain are; main's deferred calls | Run, pruneOlderThan, Optimize, DrainParsedCalls, the way out | `Housekeeping` |
| Store migrations (`store/store.go`) | the database file | migrate | `Migration` |
| Statistics (`store/stats.go`, `store/feed.go`, `calls/`) | none: queries over the ledger's tables | the panels of the dashboard | `Statistics` |
| Message views (`store/messagecover.go`, `api/sessionmessages.go`, `cmd/msgbackfill`) | fingerprints of the stored bodies | the session panel, prune, backfill | `Conversations`, `MessagesPanel` |
| Wires and metering (`wire/`, `pricing/`) | a line buffer and counts per stream | Resolve, Write, Close, Usage, price | `Metering` |
| Composition (`compose/`, `store/composition.go`, `api/handlers.go`) | none: what a request holds, and the context page | Compose, the tool columns, scaleBlocksToTarget | `Composition` |
| Outbound transports, dashboard | a cache of HTTP clients; a browser client | | not modelled |

How they meet. A request goroutine (proxy) reads the configuration snapshot,
asks the spend tracker whether the user is under budget, waits at the gate,
asks the router for an order of vendors, relays to the first one it can use,
and when the relay ends reports the outcome to the router (health), pins the
session (affinity), releases the gate, charges the user (spend) and submits
rows (ledger). Spend and ledger each have a goroutine of their own that talks
to the one SQLite database. After a row is written the ledger hands it to the
parse pipeline and the session rollup. An operator's edit goes through the API
to the store and the configuration service, which publishes a snapshot and has
the router forget its health; the price feed takes the same way. Pressure
samples the host and the ledger's backlog and tells the proxy what to shed and
the drain when to rest. Shutdown stops the server, closes the ledger, cancels
the background goroutines and waits for each before the store is closed.

What is hard:

- critical sections that are short and many: the gate takes its mutex three
  times in one Acquire, a flush of one user takes it four times with two
  database calls in between, order reads affinity and health under two locks;
- reports that arrive long after their dispatch, around resets and other reports;
- a queue with a bound and a byte budget, a writer that must not reorder, a
  database that is busy or fails, and a process that dies;
- writes, each one atomic, around reads that are not: a reload is five queries
  and a swap, an idempotent create looks first and updates later, a migration
  is a list of statements;
- byte streams that arrive in any pieces and stop anywhere, with caps on what
  is kept of them;
- several accounts of the same calls (panels, rollups, context pages), kept by
  code that is written twice;
- cancellation at any point of waiting;
- what must eventually happen: a queued caller is served, a charge reaches its
  row, an outage heals, a shutdown ends.

`PROJECT.json` lists these as hazards, each at its line, with the properties
that watch over it.

## 2. Modules

**`Gate`** is one credential of the gate (no operation touches two). `pc` says
between which critical sections of Acquire a caller stands; every critical
section is an action: `Observe` (line 100), `Admit`/`Enqueue` (the retry loop),
`Resume`/`GiveUp` (the select), `Abandon`, `Release`. A closed channel is one that
left the queue, so it needs no variable. A call with no limit returns before it
touches any state and is left out. `orphans` is a history variable: callers that
queued while no limit was on record. **`SlotPool`** is the promise: a set of
holders that grows only below the bound in force; `ImplementsPool` is the
refinement.

**`HealthLadder`** has the rules of health.go as operators on one vendor's record.
**`Health`** interleaves them: attempts report whenever they end, a refused
credential demotes its vendors one lock at a time, resets fall anywhere.
Classify's table from statuses and errors to signals is abstracted: any signal
may be reported by any attempt.

**`AffinityMap`** has the affinity map as operators on its value, with entries
aged in ticks. **`Router`** is the closed loop: a request reads its pin
(`ReadPin`), is ranked under the other lock (`Rank`, with any outcome of the
weighted draw), gets one answer that depends on which upstreams work (`Outcome`,
`ClientGone`) and is pinned (`PinServed`). Wire matching and the user's scope
are the constant set `fits` of a request. The shared-credential signal is left
to `Health`. Counters beyond their last threshold are not told apart (`Capped`).
`served` is history: who really answered each affinity key last.

**`Spend`** has one action per critical section or database call of Get, Flush and
deleteUserData. Money is counted in whole units: floating-point rounding is not
modelled. `charged` is history: what was charged to a user in this life.
`tainted` marks users that were deleted while a flush or a read held them, or
whose row could not be deleted; for them the code makes no promise it keeps
(see `spend_inherited`).

**`Ledger`** is the queue, the writer and the tables. A request submits one of the
`Plans`, the sequences of writes of proxy.go and websocket.go, and blocks on a
full queue; the writer applies one write at a time, retries in place when the
database is busy, and gives up after `BusyRetries`. `Flush` is the plan with a
barrier. **`CallLog`** is the promise: a row is opened, then concluded once, and
traces only hang off an existing row.

**`Requests`** composes what a call passes through on its way: routing, budget,
rate window, gate, vendor, charge, row, release. `at` says between which of them
each client's call stands, so the calls of other clients run between any two: the
budget is read at `CheckBudget` and spent at `Charge`, long after.

| `at` | Next in the code | Actions |
|---|---|---|
| `idle` | a client calls | `Arrive` |
| `routing` | scope, wires, targets | `Resolve` |
| `budget` | spend.Get against user.Budget | `CheckBudget`, `FailOpen` |
| `rate` | rateLimiter.allow, captureRequest | `CheckRate` |
| `gate` | gate.Acquire (a WebSocket's origin before it) | `Acquire`, `GiveUp`, `BadOrigin` |
| `sending` | the dial, the status line, the upgrade | `Answer`, `SendFails`, `HandshakeRefused` |
| `relaying` | the body or the two pumps | `Relayed`, `HijackFails` |
| `charging`, `recording` | spend.Add, then Submit | `Charge`, `Record` |
| `settling` | the deferred release | `Release` |

An HTTP call and a WebSocket share these places and differ in what a refusal
stores: `TurnAway` is where the two handlers part. The tracker, the gate and the
ledger appear as what their own modules show: an exact balance (`BalanceIsExact`), a
pool of slots (`SlotPool`), a table written in order (`CallLog`). `billed`, `recent`
and `blind` are history: what the rows of a user add up to, how many of its calls
passed by age, how many budget checks failed open. A check may fail open at any
time; in the code it only can while the user's total is not in memory. Left out:
calls that fail authentication or whose body cannot be read, users without a
budget or an RPM, reports to the router, load counters.

**`Pricing`**, **`Snapshots`** and **`Config`** are the configuration. `Pricing` has
the catalogue, the feed and the effective price of a model with its fallbacks,
reduced to one rate per token. `Snapshots` is the projection of the stored rows to
vendors, what makes a build fail, and what the services page derives from the same
rows by rules of its own (`Routable`). `Config` interleaves administrators, the feed
and their reloads: every write is an action, every query of a Reload is an action
(`ReadProviders` ... `ReadFeed`), and so is the swap (`Store`). `ticket`, `newest`,
`liveBy`, `changed` and `lapse` are history: reloads are numbered as they begin;
which began last, which one is live, which had begun when the tables last changed, and
whether something changed that no reload has begun after.

**`Migration`** has the statements of migrate that rewrite rows, one action each, over
ten databases of earlier releases; the process may die between any two and the next
open starts over. `meaning` is history: what the database said before.

**`Pressure`** is `sample` over any sequence of readings, any interval apart.
**`Housekeeping`** has the goroutines that share the write lock, statement by
statement, and main's deferred calls in their order.

**`ParsePipeline`** is the byte budget of the parse queue, its workers and Close.
**`Sessions`** ends calls in one order and folds them in another, loses some, and
prunes the row in between.

**`Conversations`** is the message cover: which request of a session holds which
other, guessed from a count and two hashes. A message is a pair: its words, which
parsing keeps and the fingerprint hashes, and the rest (images, documents, thinking),
which only the merge of whole messages sees. **`MessagesPanel`** makes the session
(agents that append, rewind, compact and fork; retries, and requests that repeat the
words around another image), prunes and backfills it, and reads the panel back.
What the merge hoists out of an array (an inline system preamble, tool schemas) is
taken to be no part of it. **`Statistics`** has the predicates and groupings of the
dashboard's queries as operators on one log of calls, among them rows of earlier
schemas; its actions begin, end, deny and abandon calls.

**`Users`** has one action per database write; a lookup and the adoption that follows
it are two. **`Metering`** resolves a call's wire, feeds its stream to the line
scanner in arbitrary pieces and prices what was counted: input, output, cache reads
and cache writes at rates of their own, a missing cache rate falling back to the
input rate, with schedules and tiers that override any of them.
**`SocketMeter`** is the decoder beside a WebSocket, with the channel that may be
full, the frame buffer and the message cap. A frame's header is one unit of bytes
and not two to ten, so a frame within a few bytes of the eight-megabyte cap, which
the code gives up when it arrives in the wrong pieces, is read here.

**`Composition`** has one agent on three wires whose conversation grows piece by
piece; every request is composed, its tool columns and blocks are stored, and
the context page is read back, beside rows stored by an earlier release.

`MCOperations` extends the modules of this half (`Config` to `Metering`) and
instantiates `Composition`. They share no variable, so a behaviour of it picks one (`part`) and the others stay as they began: one run of the sum of their
states, not the product. What one of them needs of another is an input of it (a reading
of the write lag for `Pressure`, its answer for the drain).
`MCConfig`, `MCMigration`, `MCTraffic`, `MCViews` and `MCContext` hold the data: providers
and quotes, old databases, wires and rates, logged calls, and pieces of
conversation.

Time is counted in ticks: a cooldown or an age is the number of ticks left or
passed, because the code only ever compares instants.

`MC*` modules give the constants their values. Definitions called `X_Suffix` next
to a definition `X` are mutations: what `X` would be with a plausible slip. With
each of them in place of `X`, TLC finds the property it is listed with violated,
so no property holds merely by the shape of its model.

## 3. Runs

| Run | Checks | Bounds, and why they are enough |
|---|---|---|
| `gate` | exact slot count, no slot empty behind the queue, the head of the queue leaves it, refinement of `SlotPool` | 4 callers, limits 1..3: a raise by two with two waiters, a lowered limit, a cancelled and woken caller at once |
| `health` | demoted iff evidence stands, a refused key reaches all its vendors, dead only ends by proof or operator, no failure shortens a cooldown | 2 vendors of one key, 3 sessions, 2 attempts; thresholds 2, `MaxDemotions` 3 so that the backoff doubles and meets its ceiling (3, not a power of two); `MaxFails` 3 |
| `router` | dispatch goes to a least unhealthy vendor, to the session's own if it is among those; a recent session keeps its last vendor, and the map answers with no other; parked vendors get no new session | 2 vendors, 2 slots, two affinity keys in a map of one (`StickyMax` 1), timeout 2 with a sweep every 2; a vendor parked for one model, another disabled; one outage (`MaxOutages`) of any subset |
| `router_heals` | an outage of everything heals by itself | strict tiers, one slot, 2 changes of what works, enough to break everything and to repair it |
| `spend` | balance exact, row behind by exactly what is pending, every charge reaches its row | 2 users (a flush of two), one reader, `MaxCharge` 2 (a charge before and one during a flush), one crash, one deletion |
| `ledger` | accounting, no write but payloads dropped and none out of order, After sees its row, refinement of `CallLog`, everything is settled | 2 calls with a captured HTTP call, a WebSocket row or a Flush each; queue of 2, budget 2 with bodies of 3 and 1 (one larger than the budget); 2 busy attempts, one fault, one crash |
| `requests` | spend passes the budget by less than one call per client (and per failed check); at most 2 RPM - 1 calls in any window's length; charges are on the rows; rows and traces tell what the client was told; every call ends | 2 clients of one user, so that both can pass the check before either pays; budget and dearest call 2, so that one call meets the budget exactly; RPM 2 over a window of 2 ticks, so that a straddling pair of windows shows the bound to be tight; one slot to wait for; one failed check |
| `operations` | see the next table | one part per behaviour |

The parts of `operations`:

| Part | Checks | Bounds, and why they are enough |
|---|---|---|
| `config` | `SnapshotFollowsChanges`: at rest a reload began after the last change, and a snapshot stored by such a reload is what the tables say, prices included (an older reload that stores last is a finding, below). `RoutableMeansRouted`: what the services page calls routable is what the router is given, as long as such a reload's snapshot is live | 2 administrators and the feed, `MaxTurns` 2 edits, refreshes or restarts: two writes whose reloads overlap in every way, torn reads included; providers with a catalogue price, a typed price, an override, none; a proxy that goes; two releases |
| `upgrades` | `NothingIsLost`: spend, tokens and settings of every old database survive | 10 databases, `MaxStops` 2, `MaxOpens` 3: a crash inside the repair of a crash; one change between opens |
| `load` | `ShedsAtOnceRestoresSlowly` | 5 readings for the three levels and an unreadable probe; cooldown 3 with samples 1 or 2 apart, so that it is met exactly and passed |
| `house` | `NothingRunsOnAClosedStore`; `HousekeepingEnds`: the drain drops its table once the load stays low, a way out that has begun ends | one row per tier and one that arrives, a tier never pruned, batches of 1 so that every loop turns; one write, one failure, one sweep, one tick; the signal falls anywhere |
| `parse` | `ParseQueueIsExact` | 2 workers, 2 slots, budget 4, jobs of 0, 1, 3 and 6: full by slots, by bytes, one larger than the budget and one without a body |
| `panel` | `CapturedIsShown`: a captured request is shown word for word, and whole unless a later one repeats its words around another image, or the panel says that it left bodies out, or the history behind it was rewritten | 3 calls of 3 messages over two agents, a page of 4, one prune, one message of a context with another remainder, of the subagent (`MaxSwaps`): a fork, a retry, a compaction, a rewind, a look-alike that is as long and one that is longer |
| `folds` | `RollupIsOrderFree` | 3 calls of 2 kinds, ends equal or apart, a queue of 1 that overflows, a death, a prune |
| `stats` | `PanelsReconcile`: panels side by side agree | 3 logged rows (legacy ones too), 2 new calls in 3 ways, 9 endings, 2 filters, 2 windows, top 2 of 3 models, buckets of 2 |
| `accounts` | `RevocationIsFinal` | 2 minted users and the admin, one idempotent create against any other writes, one restart with another admin key |
| `meter` | `BilledAsReported`: an answer is billed for what its stream reported, at the rates of its first minute, cache writes at the published write rate | lines of 1 to 5 pieces around a cap of 4, cut anywhere; 6 instants in a week of 2 days of 6 minutes; tables with and without a cache rate, base, schedule and tier |
| `sockets` | `SocketsNeverGuess` | a channel of 2, buffers of 4 and messages of 3: each limit is met and passed |
| `window` | `ContextAddsUp`: tool columns and blocks of a session add up to what was said | 3 wires, 9 pieces in 2 posts, 4 ways a call ends, rows of an earlier release |

Runs that show a disagreement between the code and what the repository says:

| Run | Said | Found |
|---|---|---|
| `gate_stranded` | gate.go:192-194: a limit is only forgotten with nobody to be woken | a caller between its two critical sections finds the limit gone, queues with nothing in flight, and waits for a stranger to come and go |
| `router_backup` | router.go:54-56, health.go:495-500: a failing primary yields to its backup, a self-inflicted outage heals itself | when both are dead, health ties, and priority and stickiness send every request to the failing primary; the backup that works again never gets the success that would revive it |
| `spend_inherited` | api/handlers.go:2110-2112: a recreated id does not inherit the old spend | a flush that read its total before the deletion writes it back after |
| `ledger_shutdown` | cmd/songguo/main.go:289-292: draining loses no ledger rows | a request or WebSocket that outlives Shutdown sends on the closed channel and its row is lost |

Met while modelling, without a run of its own: the comment at health.go:424-426
counts one session too many (the threshold-th session makes the first demotion,
so threshold + deadAfter - 1 of them mark a vendor dead). docs/admin-api.md:49 says
a 502 for a failed transport or build leaves no payload; a captured call keeps the
request it stored before the gate (proxy.go:349-351, and docs/arch-gateway.md:154-158
says so too; in `Requests` the trace of such a call is `"request"`).
docs/arch-gateway.md:151-153 says that denials by scope, budget and rate still
produce a finalized row; those of a WebSocket produce none (websocket.go:163-185),
the second case of `RowsTellTheAnswer`.

More of the same kind, met in the parts of `operations`. The properties name them as
exceptions, so that what remains of each is exact:

- Order of reloads. Reload has neither lock nor version (manager.go:58-67): of two
  reloads that overlap, the one that read the tables before an edit may store after
  the edit's own reload did, and the edit, already in effect, is gone from the live
  snapshot until something else reloads. README.md:32 and 115 and
  docs/proxy-takeaway.md:58-59 say that edits take effect at once, by a snapshot
  rebuilt on every write. `Config` has the step (`Store` of an older ticket);
  `SnapshotFollowsChanges` says what is live only where `liveBy > changed`: the older
  reload's snapshot is its exception, and so is the one that stays when the newer reload
  fails to build.
- Look-alikes. The fingerprint is of the parsed messages (parse/fingerprint.go:79-93),
  and parsing drops images, documents and thinking (parse/anthropic.go:51-94,
  parse/util.go:79-105); the merge compares whole messages (sessionmessages.go:451).
  So a fork in an image passes for a retry and a longer request with another image
  for a continuation, and the earlier body is not read, neither shown nor counted
  as omitted, against messagecover.go:168-170 (the full-array hash separates a retry
  from a fork) and 272-273 (what is not read is a provable duplicate).
  `CapturedIsShown` names it (`LookAlikeAfter`), and is violated without it.
- Configuration. An empty or doubled provider name, a negative typed cost or a
  negative upstream quote makes every build fail, and so does a provider whose
  proxy a torn read missed (manager.go:119), although the package promises that
  one bad provider never takes the others down. An edit whose row cannot be read
  back is committed and not reloaded. A quote that is implausible drops the
  stored rate without counting as moved, so nothing reloads
  (pricefeed.go:157-195).
- Migration. A crash between the RENAME (store.go:517) and the UPDATE (520) or the
  reseed (540) leaves folded tokens or stale sessions, against the comments at
  159-162 and 510-512. The reseed zeroes the tokens of a session whose calls were
  pruned.
- Pressure. After a cooldown one level below, a single clear reading restores
  everything.
- Panel. The comment at messagecover.go:69-76 says that only edits in
  place survive; a rewind, or messages dropped from the middle, followed by regrowth hides
  the old body. `msgbackfill -n` reads the same full batch again for ever.
- Users. Two idempotent creates of one name at once mint two users, and an adoption
  hands out the key of a user that was revoked in the meantime, against the
  comment at handlers.go:1903-1906; the key stays dead.
- Metering. A line whose last piece pushes it over 1 MiB takes the following
  line with it, against scanner.go:5-6 and 71-72; a line whole in one Write passes
  the cap; a last line without a newline is never counted.
- WebSocket meter. wsmeter.go:47-50 says that an oversized message makes the session
  unknown; an over-long JSON message is only skipped, and an earlier usage stands.
- Statistics. Facet counts include pending rows and ignore most of the filter
  (stats.go:14-17); series and breakdowns ignore it altogether; a truncated 200
  counts as an error in one place and not in another; a last 499 marks a
  session as errored; a model named "Other" merges with the rest; agents whose
  parents form a cycle vanish.
- Composition. toolturn.go:10-20 says that the sums of the tool columns are the
  run's totals. A resent request counts its tail twice; results followed by
  a text of the user in a message of its own, shed calls, Anthropic's mcp and
  server results, OpenAI's role "function" and, on the responses wire, calls
  separated by reasoning are not counted; a reused tool id moves earlier results.
  Blocks scaled to nothing are dropped, so a page may show less than its sources.

`CHECK_DEADLOCK FALSE` stands where the system may really stop: nothing left to
cool, charge or write within the bounds.

## 4. Fairness

- `Gate`: a caller that can take the mutex does (Go's mutex starves nobody), and a
  dispatched request ends (its upstream exchange ends). Nothing makes a
  client arrive or give up.
- `Router`: clients keep asking (strong fairness per request: they share the
  slots), a request that is sent gets an outcome, time passes. The draw and the
  upstreams are not fair.
- `Spend`: the ticker of Run flushes again and again; loads and writes may fail any
  number of times, but not for ever (strong fairness of their success); the
  handler of a deletion goes on from DeleteSpend to Forget.
- `Ledger`: the writer goroutine runs; busy retries are bounded by the code itself;
  blocked senders of a Go channel are served in order, so none is passed over for
  ever.
- `Requests`: the handler runs on by itself, and an exchange with a vendor ends
  (weak fairness of `Proceed`, per client). A client that waits at the gate finds
  it full and free by turns, so it needs strong fairness, which is what `Gate` shows
  of its queue (`HeadLeavesQueue`). Nothing makes a client call or give up.
- `Housekeeping`: every goroutine is scheduled. A statement in flight ends; the
  janitor and the drain find the write lock taken and free by turns, so they need
  strong fairness, which Go's mutex gives (a waiter of a millisecond is served
  next); what is cancelled returns. Neither the signal to exit, nor time, nor
  low load has to come. No other part of `operations` has fairness.

## 5. Proofs

Eight modules hold theorems, for all values of the constants; each extends the
module it is about. `SumTheorems` has the facts about sums over finite sets that the
others need.

| Module | Theorem | States |
|---|---|---|
| `GateProofs` | `GateTypeCorrect` | `Spec => []TypeOK` |
| | `SlotsAreExact` | `inFlight` is the number of holders, whatever interleaves |
| | `LimitForgottenWhenIdle` | whoever is in flight has the limit on record; the step that forgets it leaves nobody in flight and finds nobody queued (`ForgetsNobodyWaiting`). Callers on their way to the queue are not in it yet: `gate_stranded` |
| | `NoIdleSlotBehindQueue` | `WorkConserving`: no slot stays empty behind a waiter who queued under a limit |
| | `GateImplementsPool` | every step of the gate is a step of `SlotPool` or leaves it alone |
| `HealthProofs` | `DemotionsHaveCause` | a vendor is demoted exactly while evidence against it stands, and never cools for longer than its next backoff |
| | `RefusedKeyIsRefusedEverywhere` | every vendor of a refused key is demoted, or about to be by the report in progress |
| | `DeadStayDead` | only a success of its own or the operator revives a dead vendor |
| | `CooldownsOnlyGrow` | no failure shortens a cooldown |
| `RouterProofs` | `PinsOutliveEvictions` | a session seen within the timeout keeps its pin while fewer than `StickyMax` others were seen as recently; the map never answers with another vendor than its last |
| | `StickinessIsKept` | a request goes to its session's vendor if that is among the least unhealthy, and to a healthier one otherwise |
| | `ParkingStopsNewSessions` | a parked vendor gets a new session only if its whole tier is parked |
| `BillingProofs` | `SpendTypeCorrect` | `Spec => []TypeOK` |
| | `BalanceExact` | a budget check reads exactly what was charged |
| | `CrashLosesOnlyPending` | a row lags by what is pending and by nothing else |
| | `BilledForWhatWasReported` | `BilledAsReported`: however its stream was cut into pieces and wherever it broke off, an answer is billed for the usage its whole lines reported, cache reads and writes each at their rate, at the rates of its first minute |
| | `PanelsAlwaysReconcile` | `PanelsReconcile`: whatever the log, the filter and the window, panels that stand side by side agree |
| | `UpgradeLosesNothing` | `NothingIsLost`: whatever the old database, and wherever the migration is stopped and started over, it says what it said before; its token counts unless a stop fell between the token steps |
| `LedgerProofs` | `LineStaysInOrder` | types; the writes of a call are in line, in hand and written in the order of its plan |
| | `AfterAlwaysSeesTheRow` | what hangs off a row, and what runs after a write, finds it stored |
| | `NothingElseIsDropped` | every submitted write but a payload is in line, written, refused by the store or lost with the process or a closed queue |
| | `ClosedLedgerIsDrained` | when Close returns, nothing is left in line |
| | `BacklogIsAlwaysExact` | the reserved bytes are those of the payloads in memory, over the budget only for a single one |
| | `LedgerImplementsCallLog` | every step of the ledger is a step of `CallLog` or leaves it alone |
| `RequestProofs` | `RequestsTypeCorrect` | `Spec => []TypeOK`; a slot is held from Acquire to Release and at no other time |
| | `OvershootIsBounded` | concurrent calls pass the budget by less than one call per client |
| | `SpendAlwaysMatchesRows` | charges are what the rows say, plus the calls between charge and row |
| | `RateIsHeld` | at most 2 RPM - 1 calls pass in any window's length |
| | `EveryRowTellsTheAnswer` | a finished call's row says what its client was told |
| | `EveryTraceMatches` | a stored pair is the exchange that really took place |
| `OperationsProofs` | `RevokedStaysRevoked` | `RevocationIsFinal`: a key that was taken back admits nobody again; every other minted key admits its user |
| | `LevelFallsAfterACooldown` | `ShedsAtOnceRestoresSlowly`: load is shed at once, and restored only below what every sample of a cooldown asked for |
| | `StoreClosesLast` | `NothingRunsOnAClosedStore`: the store is closed after the last statement of every background goroutine |
| | `ParseChargeIsExact` | `ParseQueueIsExact`: the bytes charged are those queued or in hand, over the budget only for a single job |
| | `RollupAddsUp` | `RollupIsOrderFree`: a session's row is what the calls folded into it add up to, whatever the order and the losses |
| | `SnapshotIsCurrent` | `SnapshotFollowsChanges`: at rest, a reload began after the last change (a change that fails to be reloaded is a `lapse`); and a snapshot stored by such a reload is what the tables say, prices included. Not that such a reload stores last: it need not (section 3) |
| | `PageShowsRouting` | `RoutableMeansRouted`: while the snapshot is that of a reload begun after the last change, what the services page calls routable is what it routes, at the priority and weight shown |
| | `MeteredOrUnknown` | `SocketsNeverGuess`: a speech session is metered by the latest usage its server sent in frames read whole, or not at all |
| | `CapturedBodiesAreShown` | `CapturedIsShown`: what a session sent is shown by its panel word for word, and whole but for look-alikes and rewritten histories, however the agents forked, rewound, compacted and retried, until retention takes it |

Assumptions, all of them ASSUMEs of the modules and true of the code. `Gate`:
`Callers` is finite, limits are positive (the code returns early for the others).
`Health`: thresholds and the base cooldown are positive, the ceiling is not below
the base, finitely many sessions (a set of them is counted). `Router`: a
vendor has a name, an integer priority and a weight that is not negative, vendors
of one credential share both, a request is matched to vendors of the fleet, the timeout, the size and the sweep interval of the
map are positive; requests and slots may be infinitely many. `Spend`: `NoUser` is not
a user. `Ledger`: finitely many calls; queue, retries and sizes are positive; a
handler submits its row before anything that hangs off it, and once (proxy.go,
websocket.go). `Requests`: finitely many clients, each with a user; budget, dearest
call, rate, window and slots are positive. `Users`: ids and keys of the environment
are not minted ones, and an absent field is not a value. `Pressure`: a positive
cooldown, and time that passes between samples. `ParsePipeline`: finitely many
workers, sizes and budget are naturals. `Sessions`: finitely many calls, and flags that
are booleans. `Config`: the tables begin in step, as their foreign keys keep them;
every catalog has a place in the alphabet, and no two the same (their names are the keys
of one map). `SocketMeter`: frames have a length and a usage that are naturals, and a
message needs at least one unit to show that it is JSON. `Metering`: usage counts are
naturals or null, prices are those `ValidateCost` lets through (integers here, conditional
on the size of the prompt or on the time and never on both, windows within their days that
do not wrap), minutes lie within the week. `Statistics`: the columns of a row have their
types, names are their places in the sort order, the widths are positive, and an agent's
parent was spawned less deep than the agent; a client that names its agents in a cycle
makes them vanish from the tree (section 3) and is excluded here. `MessagesPanel`: the main
agent is one of the agents. `Migration`: in a database of an earlier release a row has the
columns of its table, a wire has its provider (a foreign key), no table stands beside its
old name but those whose rename folds the two, and calls with integer ids are older than
the cached tokens and the sessions. `Housekeeping` needs none.

The gate. `SlotAccounting` is inductive once types are known, since `Admit` and
`Release` move one caller in or out of `Holders` and the counter by one; `Release`
starts from a positive count because the releasing caller is a holder. That the
limit is known while anyone holds needs `ForgetsLimit` to look at the count, which is
where `SlotInv` joins the two facts. The refinement reads the pool's guard off
`HasRoom` through `SlotAccounting`. For `WorkConserving`, `QueueInv` says that nobody
queues twice, that the queue holds exactly waiting and leaving callers, and that
whoever queues while no limit is on record is an orphan; a release then wakes
the first of the queue, and a raised limit as many as it has room for
(`Leading`), so what remains queued remains behind full slots.

Health. Every record is `Sound`: demoted iff a streak, the sessions that failed
or a refused key indict it, cooling for no more than the next backoff. Each rule of
the ladder takes a sound record to a sound one and none but success to a better
one (`NoBetter`). The backoff is the recursive function `Doubled`; that it satisfies its
equation follows from partial solutions that agree. `RefusedKeyReachesSiblings` is part
of the invariant, since the fan-out of one report and the resets and successes of
others interleave vendor by vendor.

The router. The map is compared with `served`, who answered each key last and
how long ago. `AgesMatch`: an entry names that vendor and is as old as that
answer; `Remembers`: whoever was seen within the timeout, with fewer than
`StickyMax` others as recently, has an entry. A sweep takes only what has timed
out; an eviction takes the oldest entry, and only when `StickyMax` entries are as
recent as it, so it never takes one that is assured. What a request read is
then, at its dispatch, what the session's last answer was or nothing
(`PinsAreServed`). For the dispatch itself, the keys of `order` are a total order on a
finite fleet, a finite set can be sorted (`LineExists`), and the first kept place of
a sorted line is a least one; its first component is the health rank, then
priority, then the pin.

The tracker. `BalanceIsExact` is not inductive. `UserInv` says, per
user and per position of the flush, what the locals of the flush and of every
reader are worth: what a cold read holds equals the row as long as the user is
not loaded, what the flush will fold equals the row it wrote, and a write always
leaves total and row in step. A deletion during any of them voids the facts, and
exactly those users are `tainted`.

The ledger, in layers. `LineInv`: numbers of a call's writes grow along the line, so
they are distinct and those in line come after the one in hand and before the
next. `RowInv` on top of it: a call whose first write is still to be applied has no
row, and a row that was written stays. `FateInv`:
a write that was lost is the last of its call, and one the writer is through with is
written, refused or a payload. `ChargeInv`: reserved bytes are a sum over what is in
memory, to which admission adds one payload and the writer's release takes one
away. The refinement maps a commit to a step of `CallLog` and all else to
stuttering; that the log lets it happen is `RowInv`.

The budget. `OvershootBounded` is not inductive, since a charge
raises the balance without looking at it. `OwedWithinBound` adds what is owed: the
balance plus the dearest cost of every call that has passed its check and not paid
stays below the budget plus the dearest cost of every client and every failed
check. A check that passes adds a debtor from a balance below the budget; one that
fails open adds to both sides; a charge turns a debt into a balance of at most
that much. The rows: charge and row of a call are two steps, and a sum over
the calls between them is the difference (`BalanceAhead`). The rate:
`WindowAccounts` splits the last `Window` ticks at the start of the limiter's window;
what passed since is at most its count, and what passed before is at most RPM - 1,
because the call that had opened the window before was out of reach when this one
began. Rows and traces: `Story` says what is stored of a call at every place it can stand at.

The operations. Keys: `KeysOK` ties each minted key to its id, which is never
minted again, and `DeadOK` says that exactly the keys without a live row are dead.
An adoption or a patch writes name or budget into the row that is there now and
touches neither; this is what the mutation `AdoptExistingUser_WritesTheRowBack`
breaks. Level: `ClearSince` says that whatever sample asked for as
much as is shed now is older than the clear readings; when those are a cooldown
old, no such sample is left among those of the last cooldown. Way out: `Order`
says that main still has to wait for every goroutine that runs, the drain through
the janitor, and that the store is closed only when no call is left; `LockHeld`,
that whoever is inside a statement runs. Parse queue: `JobsOK` says that no job is in
two places, `ChargeOK` that the counter is their sum. Rollup: `Once` says that what is
queued was handed over and is not folded yet, so no call is folded twice; since a
call's outcome no longer changes once it has ended, the row is a function of
the set of folded calls (`RowOf`), and an upsert takes the function of a set to that of
the set with one call more.

The configuration. No ticket of a reload is above the newest, and after a change
somebody still has to reload, or nobody ever will (`lapse`), or a reload has begun since.
Whatever such a reload, or several at once, have read so far is what the tables still
say, query by query (`FreshReads`), since a change made after it began would have made
it an old one; so its Store makes the snapshot that of the tables, and the snapshot
stays so until the tables change or an older reload stores (`LiveIsCurrent`). A refresh
that counts no moved rate makes no
reload due; it leaves every rate as it was, and the build reads of the feed only
rates. That needs the build to be a function of them: where several catalogs price
a model, the alphabetically first wins, which exists because ranks are distinct
naturals. The services page needs nothing but the last of these facts: what it derives from
the rows and what the build routes from them agree row by row.

The speech meter. `Reads` accounts for every unit that entered the channel: it is in
a frame the decoder has read, in its buffer or in a slab. Of the frames read, `Follows`
says that the decoder is inside the one message still open, has counted it or given
it up for a reason that lasts (`Counts`), and holds the usage of the last message that
came to its end (`Latest`), each defined without the decoder. `parseFrame` has a lemma
per kind of frame. That a backlog over the cap cannot come about (`BufferFits`), and
that no frame ends two messages (`EndsApart`), make the result the one of the property.

The stream meter. `MeterInv` is an invariant over the position in the stream: what the
scanner holds is the part of the current line that has arrived, unless the line has
outgrown the cap, or the one before it ended beyond it (the following line that is taken
along, section 3); and the usage it keeps is what the lines that ended before, and were
read whole, reported, by the rule of each shape (`Kept`). Each rule has a lemma for
a line more. The price is then a function of that usage and of the minute: the first
tier or schedule that applies, each of whose four rates replaces the base rate where
it is published, compared with its definition without an order.

The panels. `IsLog` is the only invariant: ids are numbers, finitely many, and rows have
their columns. All else is a fact about queries on any such log. A count is the
cardinality of a set of calls, and the classes of outcomes partition the calls in scope;
a breakdown sums over a partition by key, so its total is the total over the calls;
buckets cover the window and are disjoint; the top models and `Other` split the models;
a session's page that is not cut holds every call of it. That every agent of a session is on the tree is
shown on a missing agent of least `Depth`, whose parent is there.

The migration. `MigrationInv` says, for every step migrate can be at, what the steps before
have left of the schema (`Progress`), that rows have their columns (`WellFormed`), and that
`meaning` is what the database says now, each part from the tables that hold it at that
moment. Every statement has a lemma: a table it leaves alone is the `Same`, so the parts read from it
are, and the part it moves is the same read from where it went. A fold and
its drop need each other: the drop loses nothing because the rows were folded (`Folded`,
`PoolIsEmpty`). Since no part of this depends on how often a step ran, a stop only
takes back what is known of the schema. Between the rename of the cached tokens and the
reseed the counts are not what the schema says, but what is still to be written
(`TokensOwed`), which a stop forgets.

The message panel. `PanelInv` ties what an open panel has chosen to what it will show. A
body the cover leaves out begins, word for word, the one chosen after it, or was rewritten
on the way (`ReadingOK`), because the last raw request of a run holds the earlier ones
(`RunHolds`, `RunsJoin`, `CoverHolds`); retention takes the oldest first, so what
covers a body outlives it. The view merges the bodies call by call in a recursive function
(`WholeView`): a merge keeps all that the view shows and shows all that it merges
(`MergeShows`). Whatever is shown is shown word for word (`WordsAreShown`); a body that is
hidden behind another and not its beginning differs in what parsing drops, and the
other is the look-alike.

Sums and sorted sequences are recursive, and the library's induction theorems
cannot be instantiated here. `SumTheorems` and `LineExists` induct on a minimal
counterexample instead: a nonempty set of finite subsets, or of naturals, has a
minimal member, and that one is refuted.

Only model-checked:

- liveness, out of the prover's reach: `HeadLeavesQueue`, `SelfInflictedOutageHeals`,
  `ChargesReachTheRow`, `EveryCallIsSettled`, `EveryCallEnds`, `HousekeepingEnds`;
- of `operations`: `ContextAddsUp`. It compares recursive computations over a whole
  conversation, which is induction over data, and its clause on whole pages is one about
  the legacy rows given: where blocks of a row were scaled to nothing and a block of
  another row has the same key, a page would fall short of its source.

## 6. Not modelled

Left out of what is modelled: prices of media units and the JSON of events and
bodies; averages, medians and the last status of a vendor; the feed's pagination;
several queries of one page that see different states (overviewData); the
hashes and labels of blocks, and the weights of images, PDFs and files, which are
given; the conversion of a short string input of the responses wire, and its
additional tools; the fallback values of legacy blocks; a retention that empties
all sessions before a migration reseeds them; `admitBodyRead` (api.go:126-144);
rounding of floating-point money (spend.go:205).

Not modelled at all: the cache of outbound clients (a race with Reset can only
bring back a client nothing asks for), titles and the display form of messages
(stateless text processing), the status page and its counters, probing a
provider, the MCP tools (the same handlers by another door), authentication, the
dashboard, and `catalogsync`, which writes a source file.

Two hazards have no property. A report that was dispatched before a reload (health.go:568)
is in `Health`, but no line promises what it may do to a fresh vendor. The second
model name of a call without a model (proxy.go:432) is not in `Router`.

## 7. Plan

Next models: the generation of late health reports; the header model of a
model-less wire; `admitBodyRead`; the refinement of `Config` to "one write, one
snapshot".

Next proof: the first two clauses of `ContextAddsUp`, which are about the rows the
gateway composes itself.
