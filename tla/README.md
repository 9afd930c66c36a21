# Verification of folding-stats

folding-stats collects the hourly team and user files that Folding@home
publishes, turns the cumulative counters in them into production per hour, keeps
the history in SQLite, and serves rankings, charts and rates over HTTP. Beside
the collector (`foldingd`) the repository holds a relay through which a person's
machines are watched and controlled (`foldingrelay`, `foldingagent`), a Discord
bot (`foldingbot`) and tools.

This directory holds TLA+ modules that model it, configurations that check them
with TLC, and proofs that TLAPS checks. `PROJECT.json` maps every definition to
the lines of source that it models. Paths below are relative to `src/internal/`
unless they start with `cmd/`.

## Inventory

| Component | State | Operations | What makes it correct | Status |
| --- | --- | --- | --- | --- |
| Ingest service (`service/service.go`) | `guard`, `state`, windows, `applied`, `ingestErr` | `New`, `Ingest`, `applyCycle`, `publish` | memory, database and publication never disagree where someone can see it; every pair that can be applied is, once, in order | modelled, proved |
| Model state (`model/state.go`) | slots, totals, name arena | `Apply`, `ValidateSnapshot`, `AppendTeam/Member` | a delta is the difference of two totals; a first sighting is no production; slots are dense and stable | partly: not names and duplicate rows |
| Reconciliation (`model/reconcile.go`) | none | `Reconcile`, `DropTeams` | forged rows harm no one else and gain little | modelled, proved |
| Database, identity and cycles (`store/store.go`) | `teams`, `members`, deltas, `cycles` | `LoadIdentity`, `WriteCycle`, `AppliedCycles`, `LatestCycle` | one transaction per cycle; what was written loads back to the same slots | partly: not names and the meta table |
| Database, history (`store/history.go`, `daily.go`) | daily and monthly buckets | `rollupCycle`, `Compact`, `DeltasSince`, queries | a bucket tells the whole of its day or month, whatever retention has deleted | partly: not the series and the backfill; the buckets proved |
| Rolling windows (`metrics/window.go`) | the cycles of a week, five sums per entity | `Push`, `Grow`, answers | each sum is what its period produced; a restart rebuilds it | partly: rates of a span in `Rank`; proved |
| API server (`api/server.go`) | the published pointer | `Publish`, `lockSnapshot`, `handle`, `cacheControl` | a request sees one cycle; it ends | partly: not the envelope and 304 |
| Feed archive (`feed/archive.go`) | payloads and sidecars | `Store`, `ListSince`, `Open` | no snapshot overwritten, half stored or lost | partly: not imports; proved |
| Fetcher, archiver, validators (`feed/fetch.go`, `archiver.go`, `state.go`) | validators, quiet time | `Fetch`, `Once`, `Run` | no publish missed, back-off respected | partly |
| Archive retention (`feed/prune.go`) | none | `Prune` | one snapshot a day survives; an interrupted deletion is resumed | partly: the policy that is used; proved |
| Cadence (`service/cadence.go`) | interval estimate | `Observe`, `NextAfter`, `PollDelay` | a publish is captured soon after it appears | modelled, proved |
| CDN purge (`service/purge.go`) | last purge | `Purge`, `send` | the edge does not stay on an older snapshot | modelled, proved |
| Maintenance (`cmd/foldingd/main.go`) | time of the last run | `maintain`, `nextDue` | runs daily over restarts; deletes nothing still needed | modelled, proved |
| Ranking (`rank/`) | none | `Build`, `BuildOrders`, `BuildChange24h`, search | a total order with ties; movement only of what existed a day ago | partly |
| API views (`api/views.go` and others) | none | pages, rosters, standings, breakdowns, changes, rivals, goals, streaks, histories | a list shows everything once; a projection meets its target | partly: not the copying of fields |
| API documents (`api/mcp.go`, `rate.go`, badges and others) | request counter | tools, badges, pages for crawlers | both surfaces say the same | partly: what the tools decide, and the counter |
| Relay hub (`relay/hub.go`) | connections of machines and browsers | `serve`, `authenticate`, `add`, `remove`, `notifyOwner`, `forget` | a frame reaches its owner's machine only; presence is true in the end | modelled, proved |
| Relay store and limits (`relay/store.go`, `limit.go`) | machines, spent tokens, counters | `Enrol`, `EnrolToken`, `Forget`, `admit`, `release` | a token enrols once; a counter counts what is there | modelled, proved |
| Agent (`agent/`) | session, local connection, rentals | `Run`, `session`, `localLoop`, `pumpDown`, `refresh`, `setKey` | it comes back unless refused for good; the page catches up | modelled |
| Alerts (`bot/alerts.go`, `watch.go`, `alertcmd.go`, `api.go`) | alerts, what each has seen, failures, the client's cache | `Add`, `Remove`, `runAlerts`, `deliver` | one message per transition; a dead channel is given up, another is not | modelled, proved |
| Bot commands and rendering, feed parser, web site and posts, rental client, tools | none that matters | formatting, scanning, calls of outside services | wording and layout | not modelled |

How they interact. By default the archiver thread stores a file and calls `Ingest` for
it (`OnSnapshot`), and only then; a follower (`-no-fetch`) calls it on a timer while
another process fills the archive. `Ingest` holds the write side of `Service.guard` from its first
look at the archive to the publication; requests hold the read side while they read.
The published snapshot is a pointer, read without the lock, and points into the
structures that `Ingest` changes in place. A publish asks for a purge of the CDN and
sets the time of the next poll. Maintenance writes the same database from a third
thread, a transaction at a time. The bot and the web site read the API. Agents and
browsers hold a connection to the relay each; the relay passes frames between them and
knows nothing of the statistics.

What is hard: a request that waits for the lock across a publication; a commit that
fails after `Apply` has changed the model, which has no undo; a crash between any two
steps; pairs that arrive late; two listings of an archive that grows; retention that
deletes what a later cycle still sums; windows kept by adding and subtracting; sums
near the end of `int64` that come from forged rows; a machine that reconnects before its
old connection is noticed dead; handlers that take a lock three times; answers written
in another order than they were given; a message delivered and not recorded.
`PROJECT.json` lists each at its line, with the properties that would catch it.

## Modules

| Module | Models |
| --- | --- |
| `Reconcile` | What a snapshot pair contributes. Pure operators over two files. |
| `Ingest` | The collector's core: archive, database, process, corpus, pass, publication, requests. EXTENDS `Reconcile`. |
| `CycleLog` | The abstract specification: a log of cycles that grows at its end, a view of its newest entry, answers of whole cycles. |
| `Window` | The rolling and calendar windows, and their replay at a restart. |
| `Rollup` | Deltas, daily and monthly buckets, compaction. |
| `Archive` | The archive of snapshots, the archiver that fills it, the thinning that empties it, and upstream. |
| `Daemon` | The background loops: poll cadence, publication, purge and expiry of the edge, the schedule of maintenance. |
| `Rank` | The tables that a publish builds: sort, ranks, movement, columns, donors, search. |
| `Views` | What requests are shown of them: pages, rosters, ties, standings, changes. EXTENDS `Rank`. |
| `Insights` | What is derived of two entities or of one's days: swaps, goals, streaks, histories, the request rate. EXTENDS `Views`. |
| `Relay` | The relay: hub, store and limits. |
| `Rentals` | Rented machines as the agent sees them, with the goroutines that ask for them. |
| `Agent` | The agent. EXTENDS `Rentals`. |
| `Alerts` | The alerts of the bot, its watcher, its file and its cache. |
| `MCIngest`, `MCIngestLive`, `MCArchive`, `MCFigures`, `MCRelay`, `MCAlerts` | Instances for TLC. `MCFigures` is also the harness in which the pure operators are worked, one step for each input. |
| `IngestProofs`, `ArchiveProofs`, `RelayProofs`, `DaemonProofs`, `AlertsProofs`, `HistoryProofs`, `FiguresProofs` | Theorems. |
| `SumTheorems` | Facts about sums over finite sets, which the last two of these rest on. |

### Reconcile

A file is a function from entities to rows, `Absent` where there is none. Member
rows are keyed by (name, team), as `memberKey` does. Duplicate rows of one name are
real and are summed before anything else, so a row here is that sum. `Overflows` is
the refusal of the accumulating `add`: the order of the rows does not decide
whether one refuses, because a negative value refuses wherever it stands and the sum
of the others only grows. `Accepts` chains the two validations of `applyCycle` around
`Reconcile` and `DropTeams`. Names, log lines and the order of the report are left out.

### Ingest

| Variable | Code |
| --- | --- |
| `teamFeed`, `userFeed` | the archive: the payload for each publish time, `Corrupt` if it does not read back |
| `call` | who calls `Ingest`: `polled` for the timer of `-no-fetch`; by default `due` from the store of a snapshot (and the start of a process) until the pass begins, else `none` |
| `dbSlot`, `dbTotal`, `cycles` | the `teams` and `members` tables, the `cycles` table with the deltas |
| `history` | history variable: the totals after each committed cycle |
| `memSlot`, `memTotal`, `len`, `at` | `model.State` |
| `winAt` | `metrics.Window`, by its newest cycle; what the windows hold is `Window`'s subject |
| `applied`, `failed` | `Service.applied`, `Service.ingestErr` |
| `phase`, `listed`, `queue`, `cycle`, `dirty` | where the ingest thread is in `Ingest`, what it has listed, the cycle between `Apply` and its commit, `n > 0` |
| `published` | `Server.snap`, by the time of the snapshot, `Nil` for none |
| `reader`, `held`, `answer` | a request in `lockSnapshot` and `handle`; `answer` is a history variable, and outlives the process |

The initial states choose the mode. With `-no-fetch` another process fills the archive at
any time, and a pass may begin at any time. By default the thread that ingests is the one
that stores (`Collects`): it stores only between passes, each store makes one call due
(`CallFollows`), and the pass that it leads to uses it up (`CallIsOver`), whatever becomes
of that pass. A process that ends with a call due loses it and makes the one of its start.

`Restart` is `New` with `LoadIdentity`; it needs the stored slots to be dense, because
the code refuses to start otherwise. The first pass runs before requests are accepted.
A pass is `BeginIngest` (ask for the lock), `Refuse` or `ListTeams` (it is granted when
no request holds it), `ListUsers` (a second walk of an archive that may have grown),
then for the oldest due pair `RejectCycle`, or `ApplyCycle` and `CommitCycle` or
`CommitFails`, and `FinishPass`, which publishes and unlocks. `Apply` and the commit
are two steps because the process can crash and the commit can fail in between; a
request may load the pointer at any time. `Adopt` and `Retry` are the two outcomes of
the second look at the pointer under the read lock, which is granted when no writer
holds the lock or waits for it, as Go's `RWMutex` does.

The pointer is compared by identity in the code and by time here. That is the same:
within the life of a process a snapshot is published when a cycle was applied, which
moves its time, or when there was none. A conditional request answered with 304 tells
the reader to keep what `Respond` would give it again, and is not an action of its own.

`WriteCycle` is one action because it is one transaction. Its `INSERT OR IGNORE` and
its updates by slot are modelled as they are, on the slots of the database and not on
the entities, so that a slot that is off gives a wrong row; that this never happens is
a theorem. The order of the new rows is that of the file, hence any order.

Abstracted: names and renames, month totals, cadence, ranking, cache purge and warm-up
of `publish`. None of them changes what is listed above; ranking is in `Rank`, cadence
and purge are in `Daemon`.

### Window

One record per `Window`, with the same fields; `Push`, `Record`, `Expire24` and
`Expire7d` follow the code's order. `Restart` rebuilds the window from the record of
cycles as `restoreWindows` does, sizes counted backwards from the present. Time is in
units, of which the day has `Day` and the week `WeekSpan`.

### Rollup

Tables are functions keyed by (entity, time or bucket). `RollupCycle` is the SQL of
`rollupCycle`: recompute the day from the raw deltas, the month from the days, the
project's buckets from those. `Compact` deletes by age at any time maintenance may come
to it. `MaxLag` is how old a cycle may be when it is ingested. The project's table by
cycle is a copy of the sum that its daily bucket has, and is left out.

### Archive

| Variable | Code |
| --- | --- |
| `payload`, `sidecar` | the two files of a snapshot, by feed and `SnapshotAt`; a sidecar that is torn does not parse and counts as none |
| `held`, `saved` | `State.Feeds`, and `state.json` |
| `archiver` | where `Once` is: the feed it asks for, and what `Store` has downloaded and not yet described |
| `quietUntil` | `Archiver.quietUntil` |
| `prune` | where `Prune` is: the feed, the cutoff, and the listed snapshots it has still to remove |
| `now`, `upstream` | the clock, and what upstream serves with its `Last-Modified` |
| `settled`, `again` | history: the slots that a finished thinning kept, and downloads of a body that is archived |
| `faults` | bound |

A pass is `Poll`, then for each feed `NotModified`, `FetchFails`, `Backoff` or
`Download`; after a download the payload is linked (`Link`) or its name is taken
(`Collides`); a linked one gets its sidecar and then its validator (`Describe`), or is
taken back (`DescribeFails`); at the end the validators are saved (`Save`). Link and
sidecar are two steps because a crash or the thinning may come between them; a
payload that is left there without its sidecar is never listed, blocks the publish of
its instant, and is never reclaimed. A thinning is `StartPrune`, then for each feed
`List`, `RemovePayload` and `RemoveSidecar` for each doomed snapshot, oldest first, and
`EndFeed`. Both run in one process and end with it (`Restart`), which also happens when
a deploy cancels a pass: `Save` is then not reached.

A body is the number of the publish it came with, and stands for its checksum, its
size and its validators; a conditional request is answered with 304 exactly when the
validator is of the body that is served. Temporary files have names of their own and
are left out, and so are size limits, which are failures like any other. `OnSnapshot`
is left out: what an ingest does is `Ingest`'s subject.

What is assumed of the world, in `Within`, `Tick` and `Publish`: the clock does not
run backwards; a store ends within a tick, since the client gives up after ten minutes
and ticks are what retention is counted in; a `Last-Modified` is the time of the
publish, later, or missing, and is not behind it; and upstream replaces what it serves
before that is old enough to be thinned, which is an hour against three months. A
second body under the same stamp (`Amend`) is possible at any time.

### Daemon

| Variable | Code |
| --- | --- |
| `now`, `pub`, `nextPub` | the clock; upstream's latest publish, and when the next one comes |
| `cycles` | the newest cycles of the database, which `RecentCycles` reads for `Observe` |
| `poller`, `timer` | where the archiver's loop is, and its timer |
| `snap` | `Server.snap`, with its `NextCycleAt` |
| `lastAt`, `lastRun`, `sending` | `Purger`, and the goroutines of `send` |
| `edge`, `fetching` | the copy of the CDN, and the answer on its way to it |
| `stage`, `due`, `marker` | where `maintain` is, its timer, and `last_maintenance_at` |
| `since`, `unpurged`, `done`, `failed`, `upSince`, `unmarked`, `late` | history |

What falls due at an instant is done before the clock moves on; the order among the
things that fall due at one instant is free. `Poll` captures and ingests, or finds
nothing new; `PollFails` stands for every failure in between, and for a request of
upstream to back off. `Publish` and `AskPurge` follow a capture and the initial ingest
of a process. `PurgeLands` takes the copy of the edge, but not an answer that is under
way, which `EdgeKeeps` puts there afterwards. `PassGoesOn` is a pass with its two
parts, each of which may fail; `MarkPass` may fail without a word. A `Restart` finds
the marker or cannot read it. What a pass of ingest, a fetch or a compaction does is
the subject of `Ingest`, `Archive` and `Rollup`; the warm-up of paths after a purge is
left out.

### Rank, Views and Insights

A corpus is two sequences, members and teams, by slot; a rank counts from 1 and 0 is
none, as in the code. The figures of the windows are given, as sequences by slot
which may be shorter than the corpus where the code's arrays may be. `Pass` and
`SortDescByScore` are the radix sort, from the lowest digit up, on the complement of the
score and in as many digits as the constants give, so that its stability and its
behaviour below zero are those of the code. What the counts of a digit leave for an id is
said as its place: one more than the ids `Ahead` of it, those of smaller digits and those of
its own that came before. A pass that the code skips because all digits are equal moves
nothing. `Search` is the halving of `sort.Search`. A name is a sequence of letters, each a
pair that tells its folded form from the form it has; the forms 0 to 9 are the digits, and a
query of digits alone reads as a number (`ReadsAsNumber`, `NumberOf`; a sign is left out),
which the team search tries as the number of a team before it looks at names
(`TeamNumbered`). Where code and code disagree (the REST handlers and the MCP tools on
searches, rivals and goals) both have an operator.

`MCFigures` puts them to work: the initial states choose an algorithm and an input, and
one step answers it. The invariants compare the answer with a definition that does not
go through the algorithm. This is how a pure function is checked over every bounded
input, and it is also why its states have no history.

### Relay

| Variable | Code |
| --- | --- |
| `owner`, `nonces`, `recent`, `disk` | `Store.m`, the spent tokens, the times of the last minute's, and `machines.json` |
| `agents`, `browsers` | `Hub.agents`, and `Hub.owners` |
| `conn` | a connection: where `serve` is with it, its key, owner and address, the time it has read, and whether it was closed |
| `note` | where its goroutine is with a presence frame, or with the hub's part of `forget` |
| `shown` | the machines that the last frame showed a browser as online |
| `inFlight`, `activeN`, `ownersN`, `active`, `failures` | `limiter` |
| `enrolments`, `astray` | history: how often a token put a machine into `Store.m`; the tokens that did so by a write that failed, or after they had expired |
| `excused` | history: owners to whom a change went untold |

A step is a section under one lock, and other connections come between any two. `Serve`
has looked whether the address is blocked; `Busy` and `Begin` are the two answers of
`begin`, and `UpgradeFails` the way out of a request that is no websocket. `Unproven`,
`BrowserProven` and `AgentProven` are the outcomes of the challenge, the last of which reads
the clock; `AgentFound` is `Get`. A machine is then `Known`, known under another name
(`Rename`), without a token that is good (`Unenrolled`), or has one: `EnrolRefused`,
`EnrolToken`, `EnrolFails`. They compare with the clock as it was read, while time goes on,
so that a slow handshake comes to the store later than one that read a later time.
`HandshakeDone` is `done`, which comes before the outcome is looked at; `Reject` is `failed`.
`TurnAway` and `Admit` are the two answers of `admit`, `Succeed` is `succeeded`, and `Join`
the ready frame with `add`, or with the browser's entry.
`Join` takes the older connection's place in the map and closes it, and `Unroute` of
that one must leave the map alone when it comes to end. A presence frame is made in three
steps, `ListOwned` under the lock of the store, `ReadFlags` under that of the hub, and
`Push`, and other connections come between them. A listener that does not keep up is
closed. A record of failures is dropped when it is older than the window, where the code drops
it when it is next looked at, and counts up to the limit. Payloads, pings and the writer's goroutine are left out, and so are the bound
on tracked addresses, names, and the time a machine was last seen (`Touch`, `LastSeen`).
A failed write leaves what the code leaves, the machine in memory and the token free, and
counts in `enrolments`: the machine is known when it dials again, and is written with what
is saved next.

### Agent and Rentals

| Variable | Code |
| --- | --- |
| `phase`, `attempts` | where `Run` and `session` are, and `Run`'s count |
| `local`, `loop`, `resync` | `Agent.local`, where `localLoop` is, and the channel of one place |
| `whole`, `owed` | the folding client has still to send its state; history: a browser waits for one |
| `key`, `file`, `listed` | `Rentals.key`, its file; the instances that were last seen with whose they are, and the account |
| `strayed` | history: the account was written for a key that had been replaced |
| `work` | where the watcher and the goroutine of each command are |
| `page`, `vast` | what the last report showed; what the accounts rent |

The relay, the folding client and Vast are the environment: they answer, refuse, or
fail. A session ends when either of its two ends does, and `Run` waits and dials again;
only an error frame during authentication makes it return. The goroutines of `Rentals`
ask outside the lock (`Answer`) and write under it (`Write`), so that the older of two
answers may be written last, or one of a key that has been changed. An account that is not
known is asked for in `Write`, with the client that the refresh began with; it may fail. The
credit is written with the account and is not kept apart. `AskResync` is a frame of a
browser at any time of a session; requests that find the channel full are one with the one
in it. The file of the
agent's identity, the time of the waits, and the content of patches are left out.

### Alerts

| Variable | Code |
| --- | --- |
| `type`, `obj` | an alert, what it has seen, and its failures |
| `stored`, `adding`, `used`, `disk` | `Alerts.m`, the alerts between their first message and `Add`, the ids, the file |
| `hour`, `world` | the hour of the day; the target in the latest snapshot |
| `cache`, `cacheOld` | `Client.cache` with the snapshot it is of |
| `fresh`, `run` | whether the watcher has something new to see, and where it is |
| `cleared`, `top`, `row`, `struck`, `unsaved`, `excused` | history |

The five rules are `Seeded`, `Fires` and `Seen`. A time that the code keeps is kept as
an age here, so that states recur. A pass of the watcher is `Poll`, `Lock`, `Fetch`
(one reading for all alerts of a target), `Evaluate` for each alert with the delivery
of its message, and `Save`. Commands take place between any two of these steps,
except that the test of an alert and a pass exclude each other (`alertMu`). What a
pass has copied may be removed under it. All alerts are about one target and one channel;
with one alert to an instance, a refusal of a duplicate or by the limit is not reached.

## Runs

| Run | Instance | Shows |
| --- | --- | --- |
| `figures` | every pair of files with three rows on two teams and sums up to 4; corpora of four members and three names; a sort in base 3 with three digits; a day of 2; pages of 1 to 3 rows | `OnlyTheTeamFileRejects`, `ForgeryIsCapped`, `HonestTeamsAreKept`: what forged rows can do; `RanksAreHonest`: ranks, ties and movement of members; `ListsAreComplete`: pages partition their list, columns and standings of the month are in order, donors and movers moved as shown; `SearchFindsTheBest`: the team whose number was typed, then exact names, then the best ranked; `ProjectionsMeet`: overtakes and goals meet their target, also when it is whoever holds a rank; `TrailingFiguresAreWhole` |
| `ingest` | three publishes, with a gap over which a pass does not look back; two alternatives for the second; a member that comes late; one request; two faults | `ReadersSeeOneCycle`, `MemoryIsDurable`, `RestartLoads`, `ProductionIsTheDifference`, `AnswersAdvance`, and the refinement `ImplementsCycleLog` |
| `ingest_live` | one member, three publishes, one fault, fairness | `ReadyPairsAreIngested`, `RequestsEnd` |
| `window` | a day of 2, a week of 4, cycles 1 or 5 apart, up to 6 of them, two entities | `WindowsAreTheirSums`, `BaselineIsTheDayBefore`, `RestartKeepsFigures` |
| `rollup` | days of 2, months of 2 days, a clock up to 8, raw deltas kept for 2 and days for 5; a cycle is no older when it is ingested than raw deltas are kept | `DailyIsWhole`, `MonthlyIsWhole`, `ProjectIsTheSumOfTeams` |
| `archive` | one feed; two publishes that are dated in time, beyond the grace or not at all, and amended; a clock up to 3, days of 2, an age limit of 1; two faults; fairness | `ListedReadBack`, `ShadowIsShort`, `ThinnedDayStays`, `PublishIsArchived`, `ThinnedIsReclaimed` |
| `relay` | one owner, one machine, two tokens that expire at 1 and 2, a clock up to 1, two connections of machines and one of a browser, two of which may stay, one fault | `OpenAgentIsRouted`, `TokenEnrolsOnce`, `LimiterBalances`, `PresenceSettles` |
| `agent` | two keys, one command, one change at Vast, two faults, fairness | `ComesBack`, `ListenersGetTheState`, `PageCatchesUp` |
| `alerts` | one alert of any type, three readings, a day of 2 hours, three faults, fairness | `StrikesAreInARow`, `NoRepeat`, `DueIsSeen` |
| `daemon` | publishes 4, 5 or 8 apart against an estimate between 3 and 6, an idle poll of 2, maintenance every 6, a clock up to 12, two faults | `CapturedSoon`, `EdgeIsFresh`, `MaintenanceIsTimely` |
| `figures_boards`, `agent_refusal` | the instance of `figures`; one key and no command | what the first two disagreements below are about |

Why the bounds are enough. Each instance is the smallest in which all hazards of its
module meet: a gap longer than a span and one shorter; a first, a changed and an
unchanged sighting; a capacity of one, which is both reached and exceeded; two of
everything that may race, and one of what cannot. In `relay` the clock passes the end of
the first token while a handshake that has it is under way, and a second token is enrolled
in between, which is what drops a spent token; a second owner makes
that instance too large, and what holds between owners is proved. Three faults are what the third
strike of an alert takes. Where behaviour is uniform in a quantity (cycles after the
first week, publishes after the third) a larger instance repeats what a smaller one
does. The theorems below are for every instance.

`CHECK_DEADLOCK FALSE` is in every configuration because every behaviour here is
bounded by a clock, a number of publishes or a number of inputs, and stops when that is
used up. `figures` leaves out month totals below zero in rosters
and standings, which go wrong in the way of the first disagreement below; and it does not ask
whether a streak is flagged as cut by the start of the record. The relay's run takes the connections of machines as interchangeable; it has
no liveness property, for which symmetry would not be sound. Each property of a passing
run also has a mutant of the code that it finds (`PROJECT.json`).

## Fairness

`ingest_live`: the process is restarted when it ends (`Restart=always`, `README.md:428` of the repository);
the ingest thread makes the call that is due and ends its pass, and requests take their
next step. To enter
the read lock is strongly fair, because a writer that waits keeps readers out only for
a pass, after which Go's `RWMutex` lets those that wait in. Calls come again and again only
with `-no-fetch`, whose timer makes them. By default there is one for each snapshot that is
stored and one for each start of the process, and nothing is assumed of publishes; so
`ReadyPairsAreIngested` promises a ready pair for as long as a call is to come and nothing
fails in it. A pass that fails is made up for by the next call: on the timer that is
promised as well, by default it is when something is stored, which may be an hour later or
never. Nothing has to fail. A service that has failed a commit stays up and
serves an error until it is restarted by hand, which is why `ReadyPairsAreIngested`
excepts it. A pair is ready only as long as the archive's listing would come to it: a
pass lists the team files of the last cycle back to the grace, and takes the newest one
at or before the user file.

`archive`: the clock, the archiver's passes and the thinnings go on. Nothing is assumed
of upstream, and the faults are bounded, which says that a failure does not repeat for
ever. `Blocked` excepts a publish whose name is taken.

`agent`: every goroutine takes its next step, calls answer or fail, and the watcher's
ticker ticks. Nothing is assumed of commands, Vast or failures, nor of browsers but for
one hypothesis of `ListenersGetTheState`, stated in it: that they do not go on for ever asking
for the state while one of them waits. Every request that finds the channel empty has the
connection closed, maybe ahead of its state, so that without the hypothesis it is false.

`alerts`: upstream publishes again and again, the watcher's ticker ticks and its calls
return. The hour is strongly fair because it does not turn within a pass, which is a
matter of how time is modelled; passes end, so time goes on.

`relay`, `daemon`, `window` and `rollup` state safety only; in `daemon` the guard of
`Tick` says what falls due before time passes, so that "in time" is a safety property.

## Proofs

TLAPS checks them for every value of the constants that the assumptions allow.

**IngestProofs**: `TypeCorrect`, `Durability`, `OneCycle`, `NothingServedAfterFailure`,
`Recoverable`, `AppendOnly`, `NeverBack`, `DeltasExplainTotals`, and `Implementation`, the
refinement of `CycleLog`. They hold for every corpus, archive, number of readers and of
faults. Assumed: publish times are positive, members and teams are finite and disjoint,
a payload is a file or corrupt, the sentinels are no values. `MemoryIsDurable` is not
inductive: between `Apply` and the commit the memory is ahead of the database. The
invariant says by what (`CycleIsTheDifference`: the cycle that waits is exactly the
difference), that slots are numbered without gaps in both (`SlotsAreNumbered`), that who
has a slot has totals (`TotalsHaveSlots`), that the tables are the sum of the log
(`DatabaseIsItsLog`), that what a pass has listed is stored (`ListedAreStored`), and who
may run when (`Control`). One lemma per action keeps it. `CommitShape` and `AnswerShape`
say what a commit adds and an answer changes, for the action properties and the
refinement; that a set of times has a newest element is shown by minimality in
strict inclusion, since the operator of `Latest` is a choice.

**ArchiveProofs**: `TypeCorrect`, `NeverOverwritten`, `Authentic`, `DaysAreKept`,
`ShortShadow`, for any feeds, publishes, waits and faults. Assumed: the bounds are
numbers, days are not empty, feeds are not polled twice in a pass, and upstream waits no
longer than the age at which snapshots are thinned. The invariant adds that what is served
or stored is younger than anything thinned (`AgesApart`), what half a snapshot can be
(`Halves`), that a listed snapshot is preceded in its day by one that can be read
(`DaysRead`), and by how much a stamp may be ahead (`Dates`).

**RelayProofs**: `TypesCorrect`, `Routing` (of `OpenAgentIsRouted`), `SingleUse` (of
`TokenEnrolsOnce`), `Counting` (of `LimiterBalances`) and `Presence` (of
`PresenceSettles`), for any owners, machines, tokens, limits and any finite number of
connections. `SingleUse` is of every token that is not astray: the clock is free to move
between what a handshake reads from it and what it does in the store, and a token with which
that was done too late, or by a write that failed, is not promised anything. The invariant
says what a connection in each phase looks like
(`ConnsWell`), what a frame under way does (`NotesWell`), that nobody has read a time that
is still to come (`ClockWasRead`), and that a token that enrolled and is not astray
is remembered in memory and in the file, or has expired (`SpentIsKept`); without the
last, a restart would break `TokenEnrolsOnce`. `Counting` holds between any two locks of
`serve`, the failed upgrade included. The counters are equal to cardinalities:
`Greet`, `Part`, `Settle` and `Depart` say how the sets of connections change in the
four ways there are. `Presence` needs more (`PresenceInv`): as long as an owner is not
excused, a machine that is online for another owner than its own still waits to join
(`StrangersAreAwaited`), and what a browser is shown is right, or some frame is under way
that has not yet read what it will say (`Informed`). `TypesCorrect` leaves out
`recent`: what a selection from a sequence yields cannot be had by the provers.

**DaemonProofs**: `Timely` (of `MaintenanceIsTimely`), `Captured` (of `CapturedSoon`) and
`Fresh` (of `EdgeIsFresh`), for any intervals, gaps and faults. The invariant of the
first says what the marker records of the last pass (`Recorded`) and where the timer
stands against it on both sides (`NotLate`, `NotSoon`); that of the second, that the poll
timer is set by what the loop knew when it last asked (`PollsComeInTime`), and needs of
the estimate only that a median of plausible intervals is one; that of the third,
that the copy of the edge is no older than the answer on its way, and which purges can
still miss it (`OldCopiesAreMissed`, `CopiesLast`).

**AlertsProofs**: `NeverRepeats` (of `NoRepeat`), `ThreeStrikes` (of `StrikesAreInARow`)
and `Typed`, for any alerts, readings, days and faults. An alert is in memory, in the list
of the pass that is under way, and in the file; the invariant relates what each of them
has seen to what was said last (`MemoryKnows`, `DiskKnows`), and says how old the reading
of a pass may be (`ReadingIsRecent`).

**HistoryProofs** has the buckets and the windows.

Buckets: `DailyBuckets` (of `DailyIsWhole`), `ProjectBuckets` (of
`ProjectIsTheSumOfTeams`) and `MonthlyBuckets` (of `MonthlyIsWhole`), for any finite
number of entities and cycles and any lengths of days and months. Their hypotheses are
what the two retention options must satisfy, and are stated with them:
`RawOutlivesLag`, raw deltas are kept for as long as a cycle may be late; and for the
months `DailyOutlivesMonth`, daily buckets are kept for that and a month, or for ever. The
defaults (90 and 730 days) satisfy both for any cycle that is not months old. They
are tight: TLC violates the properties one unit below (Disagreements). The invariant
says of every table that the rows that are there are right and which ones must be
(`RInv`; for the months `MInv`, where what was pruned is older than `KeepDaily`). A step
recomputes the rows of one day and one month, and these are the sums of
the log because no delta of the day (`DayIsThere`) and no day of the month
(`MonthIsKept`) is gone; elsewhere nothing was made (`OtherTimes`).

Windows: `WindowSums` (of `WindowsAreTheirSums`), `WindowBaseline` (of
`BaselineIsTheDayBefore`) and `WindowRestart` (of `RestartKeepsFigures`), for any day, week
and week's offset, any number of entities and cycles, any gaps and any productions,
negative ones too. Nothing is assumed but what `SpanAssumption` and `RunAssumption` say of
the constants. None of the three is inductive: the next sums depend on which cycles are
held and where the day's boundary stands among them. `WindowInv` says it by `Right`: for
some d and e, the window holds the cycles of the log after the d-th and has the day's
boundary after the e-th (`HeldFrom`), d and e are where the ages pass a week and a day
(`Edges`), each rolling sum is that of the cycles held, and the calendar sums are those of
the newest cycle's day and week (`Calendar`). `PushIsRight` follows `Push` through
`Record`, `Expire24` and `Expire7d`, also over a gap that empties the window. A restart
goes through the same lemma: a replay is a chain of pushes (`Chain`, which the recursive
function is shown to be), so that it is right of the tail of the log that `DeltasSince`
reads (`RestoredIsRight`); the cycles before that tail are of no period any more, so that
what is right of the tail is right of the log (`RightOfAll`); and there is one way of being
right (`RightIsOne`), hence the same figures. The sizes that the replay counts backwards
come out as those that were (`SizeAtIs`).

**FiguresProofs**: what reconciliation promises, for all files of any finite number of
members and teams, any counters, thresholds and largest sum: `MembersNeverReject`,
`ForgedRowsAreCapped`, `HonestRowsAreKept`; and of the run `NoRowRejects` (of
`OnlyTheTeamFileRejects`), `ForgeriesAreCapped` (of `ForgeryIsCapped`) and
`HonestTeamsKeepRows` (of `HonestTeamsAreKept`). The heart is `KeptFit`: when the corpus
overflows, the admitted rows of each team sum to no more than the team has, and what the
teams have was validated.

The same module has the projections of `Insights`, for all integer totals and rates and
any horizons, from `Never \notin Int` and positive horizons alone. `SwapsAreMutual`: it does
not matter who asks. `NoSwapIsMissed`: who is told that they never swap is not level with the
other on any day of the horizon. `SwapsAreWhenLevel`: a swap is projected for the nearest hundredth of
the day on which the one behind draws level. Hundredths decide the whole day only as long as
the rates differ by no more than 200 a day, which is the hypothesis of
`SwapsFallOnTheirDay`: beyond it a moment just after midnight is rounded to midnight.
`RequiredIsLeast` is of the goals. `GoalsMeet` (of `ProjectionsMeet`) brings them together
for what both interfaces answer, of an entity, of a number of points and, by `RanksAreTold`,
of whoever holds a rank.

It ends with the tables. `SortIsStable`: for any number of scores, in any base and of any
number of digits, the radix sort gives every id once, the highest score first and equals in
the order of their ids. `PassSorts` is one pass: the places are as many as the ids and no two
are the same, so that each is taken (`Places`, `Pigeons`); `RadixSorts` takes the passes as
an induction whose fact after pass d is order by the lowest d digits, equals by id
(`BeforeByDigit`). From it `RanksCountThoseAhead`, `TeamRanksCountThoseAhead` and
`MovementIsPlacesGained`; and from `SearchFinds`, that a binary search finds where a
predicate that lasts begins, `TiesAreCounted` and `StandingsAreCounted`. `RanksAreTrue` (of
`RanksAreHonest`) is the run. The hypothesis throughout is a score of at least zero and below
`Base^Digits`, the number of keys: in the code the keys have 64 bits and a lifetime total is an
`int64` that is never negative. Below zero the sort is wrong, which is the first of the
disagreements below. In `MCFigures` `ScoresAssumption` says it of the scores of its corpora,
which are of four members: there the theorem is for every base and number of digits, while
the lemmas are for any number of scores.

**SumTheorems** has what these two modules need of `SumFunctionOnSet`: a sum splits into those of
a part and its rest (`SumOfParts`) and into those of groups (`SumOfGroups`), depends on
the values alone, and is ordered as they are; and two facts about numbers, induction up to a
bound (`UpTo`) and the least number that has a property (`Least`). The library's induction on finite sets
takes an operator; here the property is the set of the subsets that have it
(`SetInduction`), from minimality in strict inclusion.

The `TypeOK` of `Ingest`, `Archive` and `Alerts`, `FailStop`, `RecordGrowsAtItsEnd` and
`SnapshotsAreKept` are proved and not in a run of their own.

Only model-checked: all liveness; donors, movers, boards and pages (`ListsAreComplete`),
searches by name and trailing figures, which are folds and selections over data whose
definitions in the community modules the provers do not take apart; the agent, whose
properties are liveness.

## Disagreements

Two runs show the code at odds with what is said of it.

1. `figures_boards`, `BoardsAreBestFirst`: the columns of a day or a month are sorted
   with the key of the lifetime totals, which are "never negative" (`rank/sort.go:33-35`).
   A correction can put a column's figure below zero; its entity then leads the board.
2. `agent_refusal`, `GivesUpOnlyWhenRefused`: the agent takes every error frame during
   authentication for a refusal (`agent/agent.go:253`, 154-156), also that of a relay
   that is full or could not save.

Seven more properties that the code does not have are kept as definitions. They can be
seen violated with the constants named here; what is not named is as in the module's
configuration.

| Property | Constants | Said in the code | What happens |
| --- | --- | --- | --- |
| `StaysConverged` (`Window`) | `Gaps = {1, 3}` | `api/server.go:301`, "converge and then stay converged forever" | a restart replays the last week only and takes its oldest cycle for the first that was ever observed |
| `NeverLongerThanSeen` (`Window`) | `Gaps = {1}` | `metrics/window.go:323`, "never longer" | an entity first seen in the oldest cycle that is held counts with the mean interval before it |
| `DailyIsWhole` (`Rollup`) | `Ids = {1}`, `KeepDaily = 0`, `MaxLag = 8` | `store/history.go:220` | a cycle that is ingested after its day was compacted recomputes the day from what is left |
| `MonthlyIsWhole` (`Rollup`) | `KeepDaily = 3` | `store/history.go:248`, "Months already written keep their values because the recompute above never revisits them" | a cycle of a month that has lost its first days recomputes the month from those that are left; with a `-keep-daily` of less than a month (nothing refuses one) that is every cycle late in it |
| `TokenIsWorthOneMachine` (`Relay`) | none; and without faults: `MaxFaults = 0`, no `SYMMETRY` | `relay/relay_test.go:334`, "A token is worth one machine"; `deploy/vast/README.md:51`, "single-use" | when the write of the file fails the token is free again (`relay/store.go:144`) but its machine stays in memory (183-185), is known when it dials again and is written with what is saved next. Without a failure: a handshake that read the clock (`hub.go:256`) before its spent token expired comes to the store after one that read it later and so dropped the token there (`store.go:118-122`) |
| `OneRedundantFetch` (`MCArchive`) | `SPECIFICATION Spec`, `Feeds <- MCBoth`, `MaxVersions = 1`, `MaxNow = 2`, `Horizon = 5`, `MaxFaults = 1` | `feed/state.go:12` | a collision is reported as not modified and its validator not kept, so that the whole file is downloaded at every poll; `Archive.Has`, which would see it, is called by a test only |
| `BackoffIsKept` (`MCArchive`) | the same with `Waits <- MCAnyWait`, `MaxFaults = 2` | `feed/archiver.go:171`, "outranks every other consideration" | a shorter wait of the second feed replaces the first's |

Other observations, which properties here allow for and name as exceptions:

- Relay. Of two presence frames for one owner made at once the older may be pushed last
  (`relay/hub.go:349`). A machine that is forgotten while it authenticates stays
  connected under its old owner, and a rename enrols it again (`hub.go:444`, 262-283).
- Ingest. By default a pass that a failed listing or read has ended is not made again until
  something is stored or the process starts (`cmd/foldingd/main.go:113-119`); a poll that is
  answered with 304 calls nothing.
- Agent. A report of rentals holds the time of its refresh and so differs from the last
  one always, where the comment says "Only when something changed" (`agent/rentals.go:318`).
  A refresh that began with an old key and ends after `setKey` has dropped the old account
  asks for it again, with the old key's client, and keeps it (`rentals.go:145-149`, 75): the
  instances are right with the next refresh, but the account and its credit stay, for
  nothing asks again for an account that is known. `PageCatchesUp` excepts the account then.
  "The snapshot the first one triggers serves all of them", says `agent.go:335-336` of
  requests for the state that come together; one that comes after the first was taken has
  the connection closed that serves it, maybe ahead of its state (275-292). A command during a resync meets a closed connection and ends the
  session (`agent/agent.go:346`).
- Alerts. A daily summary is skipped when nothing is published between its hour and
  midnight. After a restart with the status out of reach the snapshot in force is
  evaluated (`bot/watch.go:35-38`). An alert removed during a pass may still post
  (`watch.go:64`). A delivery that fails loses its message (`watch.go:101`). A snapshot
  that was missed may have been the one to re-arm an alert (`watch.go:50-52`). A crash
  between a message and the write of the file repeats the message.
- Daemon. A month-to-date read that fails after the month has turned leaves the last
  month's totals with the new cycle (`service/service.go:567`).
- Figures. Donors with equal scores a day ago are ranked by their present order for that
  day (`rank/rank.go:721-769`). `MemberWindow` says that it "shifts to stay in bounds"
  and truncates (`rank.go:620-622`; tests only). A goal by rank says `already_reached`
  on a tie over REST, while the MCP tool looks at the rank first; rivals go by the
  day's rate over REST and by the week's in the MCP tool. The tool says that a rank is reached
  of anyone at or above it (`api/mcp.go:1082`); over REST it also takes not being overtaken by
  the rates as they are. "An exact, case-sensitive hit always leads", says
  `api/handlers.go:374`; a team whose number was typed comes before it (388-394), and with a
  limit of one hides it. The search tool shows up to one more than the limit.
  `/v1/changes` does not list first sightings. The comments in `metrics/window.go:20` and 283
  have the week start on Monday; `startOfWeek` (423-437) has it start on Sunday, and the model
  leaves the offset open.

## Not modelled

The feed parser (scanning, without state between rows); formatting, badges, pages for
crawlers, the envelope of answers and compression; the site, its posts and static
files; the client of the rental service, of which `Rentals` has what it may answer;
the tools; the series of history and the one-off backfill of the project's tables,
which are queries; a second row of one team in the file that first names it, names and
the arena they are kept in; keys and signatures, which are taken to do what they are for.

## Plan

Done: the collector (`Ingest`, `Reconcile`, `Window`, `Rollup`, `Archive`), its loops
(`Daemon`), what it derives and answers (`Rank`, `Views`, `Insights`), the relay, the
agent and the alerts; proofs of the collector with its buckets and windows, the archive, the
relay, the loops, the alerts, reconciliation, projections, and the sort with the ranks, ties
and movement that come of it.

Next, in this order:

1. the safety of the agent: what a command may and may not do across a resync;
2. `Archive` composed with `Ingest` through its listings, so that what a thinning removes
   between two listings is part of one model;
3. the series of history and its backfill.
