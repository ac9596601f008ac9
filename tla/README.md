# livescore: models, checks and proofs

TLA+ models of the livescore backend (Go; `src/` is the repository), TLC runs
over small instances of them, and TLAPS proofs for every instance.  All module
names below are files of this directory; line numbers refer to the repository.

## 1. The system

One process (`cmd/api/main.go:38-136`) polls the football data provider
(thscore), keeps MongoDB as the durable store and Redis as cache and live state,
and serves REST and WebSocket clients.  Only the sync worker talks to thscore;
a user request never does.

    thscore --> Syncer loops --> MongoDB  <-- Catalog --> REST handlers
                   |    \          ^             |
                   |     \-> Redis-+-------------+------> WS snapshot
                   \-> Hub.Publish --> Hub.Run --> client queues --> write pumps

| part | state | operations | what makes it correct |
|---|---|---|---|
| WebSocket hub, `internal/ws` | `clients`, `subs`, `c.channels`, five queues of 32, `done`, `ipConns` under a mutex, `send` (64) and `closeOnce` per client | `Handler`, `tryReserveIP`/`releaseIP`, `readPump` with `subscribe`/`unsubscribe`/`disconnect`, `writePump`, `Run`, `removeClient`, `Publish` | slots are exact and capped; the registry is consistent; a subscriber sees a snapshot and every delta announced after it was read, in order; a slow client is dropped and nothing else; nobody waits forever on a stopped hub |
| Catalog, `service/catalog.go` | the Redis keys `leagues`, `teams:*`, `matches:*`, `standings:*`, `analysis:*`, `events:*`, `stats:*` | `readThrough`, `readThroughOne`, `Snapshot`, `matchState` | a cached value is never older than its TTL after the sync that replaced it; a stale one has a known reason; absence is never cached for single documents |
| Sync loops, `service/sync.go` | MongoDB collections, `live:match:*`, no-data markers | nine loops, each immediately and then on a ticker | near-term fixtures stay fresh; the live state is the provider's latest; a deleted match stays deleted; a write is followed by its eviction |
| Calendar rules, `catalog.go:60-80`, `sync.go:273-312, 597-611, 711-741` | none | match days with a 04:00 ICT cutoff, date windows of the loops | the windows cover the dates they are meant to cover |
| Logo mirror, `service/logos.go`, `storage/r2.go` | `logo_url` of leagues and teams, the R2 bucket | `MirrorAll` (a pool of workers), `SyncLogos`, `usableLogoSource` | idempotent; a failure stays pending and is retried; every job gets a result; a match in the sync windows gets its logo |
| Timelines and stats, `service/events.go` | Mongo `match_events`, `match_stats` | merge of two days, sort, digest | publish exactly when the stored list changed; no event is lost |
| Mapping, `service/mapper.go`, `model/` | none | provider rows and deltas to matches and tables, the live minute | a delta changes only what it carries |
| thscore client, `internal/thscore` | one rate limiter per endpoint | `get` with limiter, lenient JSON | calls are spaced and nobody waits long; a broken escape is repaired, legal JSON is untouched |
| Store, `store/mongo.go` | indexes and collections | upserts, replaces, TTL index maintenance | the TTL index converges to the configured one |
| REST, CORS, config, R2 client, smoke tools | none | request decoding, pure I/O | outside the models |

### What is hard here

* the hub: five queues drained in random order, three goroutines per connection,
  a registry owner that closes channels other goroutines send on, shutdown at any
  moment;
* cache-aside reads racing write-then-evict syncs, with TTLs as the only repair;
* two live loops that read, merge and write the same Redis keys and Mongo
  documents, and a third that deletes them;
* calendar arithmetic over three notions of a day (UTC, Bangkok, match day);
* partial failure: every sync is a sequence of calls any of which may fail.

PROJECT.json lists each of them as a hazard, at its line.

## 2. The modules

| module | models | extends / uses |
|---|---|---|
| `WsHub` | `internal/ws` and the snapshot behind it | `ConnLimit` as abstract specification |
| `ConnLimit` | what the per-IP cap promises, as sets | |
| `MatchDay` | the calendar rules, pure operators | |
| `SyncClock` | schedule, schedule-ahead and analysis loops over time | `MatchDay` |
| `CatalogReads` | what the readers of the catalog rely on, without a cache | |
| `CatalogCache` | Redis in front of MongoDB: reads against write-then-evict jobs | `CatalogReads` as abstract specification |
| `MatchMerge` | rows and deltas to matches, pure operators | |
| `LiveSync` | the four loops that write a match, over time | `MatchMerge` |
| `LogoSync` | dictionary sync and logo mirror, in two processes | |
| `EventsSync` | timelines and stats: one run of `events-stats`, beside a one-shot process | |
| `StandingsSync` | the standings loop and its no-data marker, over time | `MatchDay` |
| `RateLimit` | one endpoint of the thscore client, the loops that share its limiter, restarts | |
| `RepairEscapes` | the repair of broken escapes, beside a JSON string lexer | |
| `TtlIndex` | one TTL index and the processes that start on it | |
| `MC*` | the instances TLC checks (`MCParts`: the five parts from `EventsSync` on) | the modules they name |
| `*Proofs` | theorems and proofs | the module they name (`PartsProofs`: `RateLimit`, `TtlIndex`, `StandingsSync`, `RepairEscapes`; `WsHubStreamProofs`: `WsHubProofs`) |

A definition whose name ends in `_Bug` is the definition after it with a plausible
mistake.  No specification uses it; it documents what the property named in its
comment is there to notice, and that property fails when it is put in place.

### WsHub and ConnLimit

One variable per field of the code that two goroutines touch, and one program counter
per goroutine.

| code | model |
|---|---|
| `Hub.clients`, `Hub.subs`, `Client.channels` | `clients`, `subs`, `chans` |
| the queues of `Hub` (`hub.go:55-59`) | `registerCh` ... `broadcastCh`, of capacity `QueueCap` |
| `h.done`, the context of `Run` | `hub`: running, cancelled, stopped |
| `ipConns` and its mutex | `ipConns`; each locked section is one step |
| `Handler` (`handler.go:54-98`) | `hpc`, `Reserve`, `Reject`, `Upgrade`, `UpgradeFails`, `Register`, `RegisterAfterStop` |
| `readPump`, `subscribe`, `unsubscribe`, `disconnect` | `rpc`, `ReadFrame` ... `Release`; `closeOnce` is `once` |
| `writePump` | `writer`, `WriteMessage`, `WriteFails`, `SendClosed` |
| one case of `Run`'s select | `HubRegister`, `HubUnregister`, `HubSubscribe`, `HubUnsubscribe`, `HubBroadcast`, `HubStop` |
| send on, or close of, a closed channel | `crashed`: the runtime panic ends everything |
| `live-changes`: write the state, then `Publish` | `WriteState`, `Publish` on the version counter `ver` |
| `Catalog.Snapshot` at the end of `subscribe` | `FetchSnapshot` (any version in `Shown`), `NoSnapshot` |

A message is its kind, channel and version; its JSON is left out.  A snapshot is one message
(`catalog.go:240-246`).  Versions are those the live-changes loop
publishes; what the snapshot loop writes without publishing is `LiveSync`'s
subject.  A snapshot may show any version so far (`Shown`): `live` and `matchlist` channels
read a list cached for 30 seconds or 10 minutes that live-changes never evicts
(`catalog.go:93-103`), from a MongoDB written after the publish (`sync.go:510-515`); a
`match` channel falls back to that MongoDB (`catalog.go:132-144`), and a failed write to
Redis is only logged (`sync.go:505-507`).  `newest` is history: the last version announced when
the snapshot was read, from which on `NoGap` lets no delta be lost.  A request refused for its token
touches no state of the hub, so it is a connection never attempted; the origin is checked
by the upgrader, after the reservation, and a refused one is `UpgradeFails`.  `ConnLimit` knows sets and no counters;
`SlotsSpec` says that `WsHub` implements it, with the sets of connections that hold,
were denied, or have given back a slot read off the program counters.

### MatchDay and SyncClock

`MatchDay` is the arithmetic of `catalog.go:60-80` and `sync.go:273-312, 597-611,
711-741` on minutes and day numbers (Bangkok has no daylight saving, so its offset is a
constant).  `SyncClock` runs three loops on it: `Fires` is `Syncer.loop` with its
immediate first run and a ticker created after it (`FirstRun` bounds the delay),
`syncScheduleDays` fetches date after date and gives up at the first failure, `Analysis`
has the candidate query, the 24 h refetch skip and the 6 h no-data marker.  A run takes
no time here (it takes seconds, the clock counts half hours).  `fetched`, `stored`,
`analysis` are MongoDB's and `marker` is Redis's, so they survive `Crash`.  The match may be
put off (`Postpone`), called off with its kick-off as it was (`CallOff`: postponed, interrupted,
canceled or terminated; TBD maps to scheduled, `status.go:21-39`) and be on again
(`Reinstate`); the analysis loop asks only for matches stored as scheduled (`mongo.go:450`).
`StoredSooner` is any of the loops that are not modelled here storing kick-off or status first.

### CatalogCache

A value is a version.  A read is `Begin`, `Hit` or `Miss`, `Load`, `Populate`, each of
them a call that may fail (`catalog.go:248-293`); a job is its sequence of writes and
evictions in `Program`, each of which may fail as its code lets it: a failed write
returns, a failed eviction is logged.  `Crash` stops everything and leaves Redis.  `lost`
and `raced` are history: they record why an entry may be stale.  One key stands for its
kind.  `tool` is `cmd/logo-sync`, which stamps leagues and teams without Redis and evicts nothing
(`cmd/logo-sync/main.go:8-9`); what jobs write and never evict is `LeftToTTL`.  A key
out of play keeps no value.  Of the jobs a run leaves
out, events, stats and analysis write and evict one key as standings does, modify does it twice,
dictionary does what `logos` does, and `live` is to the lists of matches what `tool` is to the leagues.

`CatalogReads` has reads that begin and are answered, and for each key the versions a read may
still be answered with (`alive`).  `ReadsSpec` says that `CatalogCache` implements it: `alive` is
the version in MongoDB, the one in Redis and those that a read is about to cache (`Held`), and a
read is pending until it is idle.  A version leaves `alive` and never comes back, so what nobody
holds any more is never served again; `raced` entries are the ones this does not exclude.

### MatchMerge and LiveSync

`MatchMerge` is the mapper on the fields that are merged rather than copied: status,
start of the half, score, knockout detail.  `LiveSync` follows one match (matches do not
interact) through four loops, Redis, MongoDB and a clock.  Upstream is a story, a
sequence of what thscore has; a row re-appearing in the feed is a story that repeats an
entry.  Every call of the code that another loop can observe is an action: `SnapshotFetch`,
`SnapshotWrite`, `ChangesFetch`, `ChangesRead`, `ChangesWrite`, `ModifyFetch`,
`ModifyDelete`, `ScheduleFetch`, `Upsert`; `CallFails` is any of them failing, with an
upsert that may have been carried out, and `Restart` forgets the goroutines.  `Tick` may
not leave a run behind its `Deadline` unless it spends a trouble on the stall.  `known` is history:
the store had the match when it last changed, and was to keep it for two polls, MongoDB with no
deletion on its way or Redis with its expiry far enough.  `LiveAssumption` holds of the code: the
TTL of the live state (15 minutes) outlives a snapshot interval, a poll of 15 seconds with two runs
of at most 2.5 seconds fits in the feed window of 20, and a wait for the limiter, a minute or more,
is longer than a run.  A run that takes longer than 2.5 seconds is a trouble.  `ScheduleFetch`
takes it that the match's date stays in the windows of the schedule loops and that its kick-off
parses (a row whose kick-off does not is skipped, `sync.go:319-323`).  `Return` and `NextTick` are
`Syncer.loop` and Go's ticker, which drops ticks nobody took.  The live minute is a function of
status, start of half and time (`model/live_minute.go`), so the model has its arguments and not
the minute.

### LogoSync

`Run` is the two processes that call `SyncLogos`.  A run syncs the dictionary (`daily`
only), then for leagues and for teams does `List`, `MirrorAll`, `Stamp`; the fetch and the
upsert of a dictionary are one step, since nothing else reads what thscore answered.
`MirrorAll` is its documents not yet handed out (`rest`), those with a worker (`busy`) and
its results (`out`); a worker that takes a document asks at once whether the object is
there, because what happens in between could as well have happened before.  An object's
key is its document and its source (`logos.go:126-133`), so a URL is a base and a source.
`Cancel` is SIGTERM, `Kill` is the end of the process.  One match stands for all; the
schedule and live-snapshot loops stamp it from a look-up (`stampTeamLogos`), live-changes
carries over what it read (`ReadPrevious`).  It is in the window of those loops at first, and
`LeaveWindow` takes it out: from then on a modification upstream may have it stamped, and
nothing need.  Redis and MongoDB are told apart for a match
in `LiveSync`, not here.  The public base URL changes only while neither process runs (it
is read at start), and R2 is configured (without it `SyncLogos` returns at once).
The evictions that follow are the job `logos` of `CatalogCache`.

### EventsSync

A list (a timeline, or the stats of a match) is a function from item ids to items; sorting
by minute and id makes the stored list such a function, since ids are unique in it.  An
item is what the digest sees (`body`) and its `oprTime`, the one field of `EventItem` the digest
leaves out.  `epc` is the place of the run: `FetchDayEvents` for yesterday and for today,
`NextMatch` (the digest), `Replace`, `Evict`, `PublishList`, `FetchLiveStats`, and the same again for
the stats, which are replaced unseen.  `EventsCallFails` is an error that ends the run, after a
replace that may have been carried out; `EventsCrash` a stop of the process; `OnceFetch` and
`OnceReplace` are `cmd/api -once events-stats`, which has no hub to publish to.  Upstream amends,
re-stamps and withdraws items at any moment, and `Midnight` moves the dates.  `listed` is the
dates whose lists carry a match; it stays fixed in a behaviour, every day list is complete
(`sync.go:528-529`), and the expiry of a stored timeline is not followed.  `OnceReplace` is one
atomic step, replace and eviction together: a one-shot run killed between them is not followed.
`unsure` and `gone` are history; a list published twice unchanged is invisible to `NoEcho` unless
its record was re-stamped in between.

### StandingsSync, RateLimit, RepairEscapes, TtlIndex

* `StandingsSync` follows one league with one fixture (leagues do not interact).  `Sweep` is a
  run for that league: outside the window or marked, it does nothing; a table on either
  endpoint is stored; two answers of no data set the marker; any failure changes nothing.  The
  first run of a process takes up to `FirstSweep`, which shifts its ticker.  A marker that cannot
  be read costs a call and is left out.
* `RateLimit`: `slot` is the limiter's next token (burst 1), which `Reserved` takes for good; a
  call then takes up to the HTTP timeout, and an error ends the run.  The time a run spends in
  MongoDB and Redis between two calls is left out, so `RunBounded` is of the calls.  `Restart` is a new process:
  its limiter is fresh, the endpoint is not (`lastCall`).
* `RepairEscapes` consumes bytes by class, so its states are finite and stand for payloads of any
  length.  `source` and `result` are the state of a JSON string lexer over what was read and written.
* `TtlIndex`: each process goes through the commands of `ensureTTLIndex`, `CreateOne`, `CollMod`,
  `Lookup`, `DropOne`, `CreateOne` again, each of them a step in which another process may come
  between; what MongoDB answers is taken from how the code tells its errors apart.  The seconds
  are `int32(days) * 86400`, wrapped.

## 3. The runs

| run | question | bounds | distinct states |
|---|---|---|---|
| `hub_admission` | are slots exact and capped on every way a connection ends? | 3 connections, 2 of one address, cap 1, no frames | 38 155 |
| `hub_stream` | what does one client receive, is the registry consistent, and does everybody return? | 1 client, buffer 2, 2 frames, 2 deltas, snapshots of any age, with fairness | 411 247 |
| `clock` | do fixtures stay fresh and analyses arrive in time? | 55 hours by half hours, 2 kick-offs, 2 offers, 1 trouble (a match called off is one) | 9 855 862 |
| `catalog` | why can a cached value be stale, does it end, and what can a reader be answered? | 2 reads, 3 jobs (`logos`, `tool`, `standings`), 2 keys, 1 or 2 changes per key | 767 154 |
| `live` | is every change announced, and healed everywhere? | 5 stories, 195 seconds by 2.5 s, 1 trouble | 5 644 888 |
| `logo` | are logos never broken or lost, and do they heal? | 3 documents, 2 sources, 1 change (the match leaving its window is one), 1 trouble | 459 863 |
| `sidelines` | do timelines, standings, limiter, repair and TTL index keep their promises? | one part per behaviour, see below | 835 287 |
| `hub_panic`, `hub_snapshot`, `hub_leak`, `clock_display`, `catalog_race` | does the code do what the quoted line says? | see section 4 | |

Why these bounds are enough:

* hub: a queue of 1 is full after one request, so every blocking send and every
  `case <-h.done` is taken.  The cap needs two connections of one address and one that
  is not concerned.  The stream properties are about one client; two deltas and a
  snapshot are the least that can be reordered, two frames the least that can overtake.
  All the safety properties but the temporal ones are proved for any number of clients,
  channels, frames and deltas, and queues of any capacity.
* clock: 55 hours from an evening in Bangkok hold two UTC midnights, three Bangkok
  midnights and two 04:00 cutoffs.  Each property excuses recent failures and restarts, so
  a second trouble adds only a later start of the same wait.
* catalog: `leagues` is a list two jobs write and only one evicts, which may return before it
  does, `standings` a single document; the other keys behave like one of them (`catalog_race`
  has `matches`).  Two reads are needed for one to cache
  what the other's eviction has dropped.  Its safety properties are proved for any keys and jobs.
* live: the intervals of the two live loops and the feed window are the code's.  The two
  slow loops and the TTL of the live state are scaled down (`ModifyEvery` 28, `ScheduleEvery`
  30, `liveStateTTL` 27 units) so that they come round, and run beside the live loops, in 78
  units; `LiveAssumption` keeps the relations that matter, and the safety properties are
  proved for the values of the code too.  The stories are a second half that begins between two
  goals, a tie decided in extra time, a midnight that takes a match out of the feed, a match put
  off, one deleted.  Changes and troubles strike around the runs of
  minute one and two polls later (`Eventful`), so a change falls before, between and after
  the stages of each run.
* logo: two teams and one worker make the feeder wait; more workers only let uploads of
  different documents, which commute, overlap, and the second process provides the
  concurrency that matters.  One change and one trouble may fall anywhere; the safety
  properties are proved for any number of them.

* sidelines: the five parts share no state, so a behaviour of `MCParts` follows one of them
  and leaves the others where they are.  Events: two matches, one on one date or on the next
  two, the other on two; one event each, two changes of a timeline or of stats, one midnight,
  one failure, stop or one-shot run.  Merging, digest and evictions are per match and per event;
  the second match is there to be left behind when the first one fails.  Standings: 60 hours by
  two hours hold a marker and two more runs, one change of format, one failure or restart.
  Limiter: the three callers of `schedule/basic.aspx` with 3, 6 and 2 calls, in units of 15 s
  (interval 4, timeout 1), one restart.  TTL index: two processes, retentions that are off, differ, wrap to a
  negative and to a small positive number (scaled: a day is 3, integers wrap at 32, `IntRange`), two faults or
  changes of configuration.  The repair needs no bound.

What the properties say is in the comment above each; in short:

* `IpCountExact`, `SlotsSpec` (which implies `IpCap`): the counter is the number of holders on every exit
  path, never above the cap, and refuses only at the cap.
* `SubsConsistent`, `NoDoubleClose`, `Rendezvous` (`OneRequest` and `NoWaitLost`): both indexes of subscriptions
  agree; no channel is closed twice; a queued request is the one its pump awaits, and a pump
  that waits has its request queued.
* `AckedView`, `DeltaOrder`, `NoGap`: what the registry holds is what the client asked for;
  its deltas are in order; none is missing after a snapshot was read, nor after a delta.  `CallsReturn`,
  `ConnectionReaped`: nobody waits forever on a stopped hub, no lost connection keeps its slot.
* `FixtureFresh`, `HourlyFresh`, `AnalysisInTime`: ages of fixtures across midnights, and the
  longest delay of an analysis of a match stored as scheduled, from the last of the five things
  that have to be so (up, stored, scheduled, offered, less than 24 hours ahead).
* `StaleExplained`, `EventuallyFresh`: a stale entry is a job on its way
  or has one of four known reasons, a missing document is looked for again, nothing stale
  outlives its TTL.  `ReadsSpec`: the cache, the jobs and the races between them are, to a
  reader, `CatalogReads`; it implies `AbsenceNotCached`.
* `GapFree`, `Healed`, `Settled`, `HalfAnnounced`: a change of a known match is announced within
  two polls, both stores are healed within one snapshot interval, delisted and deleted matches are
  settled by the slow loops, and an announced match of this half has the start of this half.
* `NoBrokenLogo`, `LogoKept`, `Answered`, `LogosHeal`, `MatchLogoHeals`, `RunEnds`: a logo shown
  is in the bucket, is never lost, `MirrorAll` answers for everything, and all heals; a match
  that has left the windows keeps the logo it has, whatever happens to the base URL or the logo.
* `Announced`, `NoEcho`: a list that is stored has been published, and only when it says
  something new.  `EventsKept`: no event leaves a stored timeline unless upstream withdrew it.
  `TimelineHeals`, `StatsHeal`: both end up as upstream has them, for the readers too.
* `StandingsInTime`: a table is stored within a marker and an interval, a failure costs an interval.
* `WaitBounded`, `RunBounded`, `CallsSpaced`: the wait for a shared limiter, the length of a run,
  and no two calls of one process within the endpoint's interval.
* `EscapesRepaired`, `RoundTrip`: the output has no illegal escape, and legal JSON is unchanged.
* `IndexAsConfigured`, `StartsUp`: the index is what a process that is up was configured with, and
  no process is kept from coming up.

Deadlock is checked in every run.  Where the system may come to rest, the model says so
with a step of its own (`Resting` in `WsHub`, `Done` in the models with a clock, `Rest` in `MCParts`).

### Fairness

* `WsHub`: weak fairness of each handler, read pump, write pump, of each case of `Run`'s
  select and of `Publish`.  Go runs every runnable goroutine; select chooses uniformly among
  ready cases, so a case that stays ready is taken; the reads and writes of a lost
  connection end by `pongWait` and `writeWait` (`client.go:12-19`).  Clients, the network and
  the operator owe nothing: no frame, no loss, no cancellation is fair.
* `CatalogCache`: a read goes on, and an entry expires.  No job ever runs again and no
  eviction succeeds.  Expiry needs a positive TTL: go-redis takes 0 as none, and
  `DICTIONARY_TTL` is not validated, so `EventuallyFresh` assumes it is configured above 0.
* `LogoSync`: the daily ticker, the match loops for a match in their window (`sync.go:277-292`), and
  the steps of a run that has begun.  Out of the window no stamp is owed.  A
  download ends after 15 seconds (`logos.go`); that R2 and MongoDB calls return with an
  answer or an error is an assumption, as the SDK is given no overall timeout.  The tool is
  never owed.
* `EventsSync`: the loop's goroutine goes on to the next step and the next tick, and a cached
  copy expires (30 seconds, `matchDetailTTL`).  No call succeeds because of it: failures are
  bounded, and the one-shot process is never owed.
* `TtlIndex`: a process that has ended is started again (`Restart=always`,
  `deploy/livescore.service:28`) and its commands return; a one-shot process is started again
  by whoever needs it.
* `SyncClock` and `LiveSync` have no fairness: their deadlines are part of their clock, and
  what must happen in time is stated as an invariant over instants.

## 4. Where code and documents disagree

Each of these runs checks one sentence of the repository and ends in a counterexample.

| run | the sentence | what happens |
|---|---|---|
| `hub_panic` | a slow client is dropped "(it can simply reconnect)", `hub.go:188-189` | `removeClient` closes `c.send` while the read pump is on its way to `trySend` a snapshot: send on a closed channel, the process ends |
| `hub_snapshot` | the snapshot is delivered "before any subsequent live deltas", `client.go:139-141` | the subscription is live before the snapshot is queued; a delta slips in and the older snapshot follows it |
| `hub_leak` | "disconnect unregisters the client", `client.go:82` | register and unregister use two queues; select may take the second first and then register a dead client for good |
| `clock_display` | the display day "spans thscore dates yesterday through tomorrow", `sync.go:276-277` | between 00:00 and 04:00 ICT it is the day before, whose first three hours have left the hourly window |
| `catalog_race` | the TTL "only bounds staleness between a sync and its eviction", `catalog.go:179-181` | a read that loaded before the write caches after the eviction; standings stay old for six hours |

Others were met and have no run:

* `Snapshot` is to close "the SSR→stream gap" (`catalog.go:106-107`).  On `live` and `matchlist` it
  reads a list that may be 30 seconds or 10 minutes old: a change announced before the subscription
  may be neither in the list nor in the stream, until the next change of that match.  `NoGap`
  claims nothing of what was announced before the snapshot was read.
* after a change of the public base URL or of a logo, a match that has left the windows of the
  schedule and live loops keeps the URL it was stamped with ("whatever was stamped here on the last
  schedule/snapshot pass simply survives", `sync.go:345-348`).  `MatchLogoHeals` speaks of matches in
  the window.
* a row of the delta feed fetched before the second half began can be announced with the second
  half's start, when the snapshot loop has written the new state in between (`matchFromChange`
  keeps what the previous state has): such a minute is wrong until the next poll.
  `HalfAnnounced` therefore speaks of the rows of this half.
* when the teams phase of `SyncLogos` fails after the leagues phase has stamped, the leagues
  list is not evicted (`sync.go:192-195`), although `syncLogos` "evicts the dictionary cache when
  anything changed" (`sync.go:184-185`).  `StaleExplained` counts it among the failed jobs; what
  `cmd/logo-sync` stamps, which it says it does not evict, it counts in `LeftToTTL`.
* a document that has a logo when its source turns into one that names no file stays pending in
  every run (`sync.go:217`, against `logos.go:148-150`) and keeps the logo.  `LogosHeal` and
  `LogoKept` say so: nothing else stays pending.
* with one instance there is "no way of calling thscore beyond its limit"
  (`docs/architecture.md:34`), but the limiters are in memory and the loops run at once
  (`sync.go:107`): a process restarted within an interval calls again within it.  `CallsSpaced` is of
  each process; `WithinLimitOfOneProcess` (section 5) is the sentence for one that never restarts.
* a timeline replaced by a run that then stops, or whose replace failed after it was carried
  out, is never published: the next run finds the digest equal (`sync.go:522-523`, "pushing
  changes").  `-once events-stats` beside the service does the same, as its publisher is a
  no-op.  `Announced` excepts exactly these (`unsure`), and a snapshot of `match:<id>` carries no
  events (`catalog.go:107-127`), so a subscriber waits for the next event.
* stats are fetched for upstream's today alone (`client.go:359-360`), while timelines take two
  dates because "a match can finish just after UTC midnight" (`sync.go:532-534`): the stats of
  such a match stop at midnight.
* a retention of 24 856 days or more overflows `int32(days) * 86400` (`mongo.go:106`): the
  next 24 855 values make every start fail, larger ones may give a short TTL; `config.go:37-41`
  knows no upper bound.
* a `\u` without four hexadecimal digits is left by the repair, although the comment says it
  "drops the backslash of any escape that isn't legal JSON" (`parse.go:11`); such a payload
  still fails to parse, as before.
* `THSCORE_RPS`, which "caps outbound calls to thscore" (`config.go:30`), and `LIVE_TTL` are read
  into the configuration and used nowhere; the limiters are per endpoint.

Of the sentence `clock_display` refutes, `DisplayDayKeptHolds` (section 5) states what is true.

## 5. The proofs

TLAPS proves the following for every value of the constants, from the ASSUMEs of the modules
alone (named sets are finite where they are counted, intervals are positive, and the relations
between them that section 2 takes from the code).  The obligations number about 9 800.

Most of the invariants over time have one form: a *witness*, the instant of the last run of a
loop, which is recent because its ticker has been served, and after which things are as that run
left them or a later obstacle explains why not.

**WsHubProofs.**  Any number of connections, channels and addresses, any cap and capacity.

* `TypeCorrect`: `TypeOK` is inductive by itself, one lemma per group of actions.
* `IpCountIsExact`, `IpCapHolds`, `OneRequestHolds`: `IpCountExact` is not inductive.  To know
  that `Release` gives back a slot that is held one must know that `closeOnce` is entered
  exactly while `disconnect` runs, and that a pump runs only once its handler has served
  it: `PumpInv`.  To know that the hub, closing a request's `done`, wakes the pump that waits
  and not one that is disconnecting, one needs `OneRequest`.  `AdmissionInv` is their
  conjunction with `TypeOK`, `IpCountExact` and `IpCap`.  `SlotTaken` and `SlotReleased` are the
  counting lemmas.
* `SlotsImplemented` (`Spec => SlotsSpec`): each step that reserves is an `Admit` (the counter
  below the cap is the set below the cap, by `IpCountExact`), each refusal a `Deny`, each
  release a `Leave`, and everything else a stutter.
* `NeverClosedTwice`: `RegistryInv` says a client is in the register queue, in the registry or
  closed, and enters the queue once; without it a closed client could be registered again.
* `SubsAlwaysConsistent`: inductive with `TypeOK`.
* `NoWaitLostHolds`, the converse of `OneRequestHolds`: inductive with `TypeOK`.  `RendezvousHolds` is
  both.  With it, what
  `CallsReturn` leaves to fairness is that the hub drains a queue that is not empty, or stops.

**WsHubStreamProofs.**  What a client sees, over the invariants above.

* `AckedViewHolds`: `ViewInv` follows the frame in hand.  Between the request and its
  acknowledgement the registry may or may not have the subscription, but the frame asks for it;
  in every other place it has exactly what the frames ask for.  It needs `AdmissionInv`, since the hub
  must not close a request of another pump.
* `DeltaOrderHolds`: `OrderInv` orders what a client has been sent and has buffered, the broadcast
  queue behind it, and the version being published behind both.  A full buffer or a failed write only
  drops elements, and a sequence with elements dropped stays ordered (`ThinnedOrder`).
* `NoGapHolds`: `GapInv` says where every version announced after a message of the stream is
  (`Found`): written or buffered, in the broadcast queue, or in the publisher's hand.  It covers the
  snapshot a pump has fetched and has not delivered (`HandCovered`), and the registration that
  precedes the fetch.  For a delta that reaches the stream it needs `QueueInv`: the newer ones are
  behind it in the queue, where `OrderInv` keeps it from being one of them.  It
  speaks of clients that are served and have not unsubscribed; `LinkInv` ties a pump to its handler
  and to its frames.

**SyncClockProofs.**  `MatchDayIsInterval`, `AnalysisDatesCover`, `StandingsDatesCover`,
`HourlyWindow` are facts of the calendar for every instant.  The rest holds for every clock
resolution, start, restart and failure.

* `HourlyFreshHolds`: `ClockInv` keeps the witness `LastRun` of the hourly loop.
* `FixtureFreshHolds`: a date is the daily loop's until midnight brings it into the hourly
  window.  `AheadInv` keeps a witness for each loop, and `HandedOver`: either the hourly loop has
  run since the last daily run, or an earlier daily run had fetched the same dates.  `NotFirst`
  rules out that a first run, whose ticker starts late, delays the hand-over twice.
* `AnalysisInTimeHolds`: `LastAnalysis` lists what can have kept the last run from storing the
  analysis (the stored status among them); each obstacle that goes away is in `ready`, and the
  marker is younger than its TTL.
* `DisplayDayKeptHolds` corrects the sentence that `clock_display` refutes: both dates of the display
  day are as fresh as it says, but for the earlier one between midnight and 04:00 in Bangkok.

**LiveSyncProofs.**  `MergeIsMatch` (a merge is well formed), `DetailKept` (a delta without
scores never wipes knockout detail nor takes the score back), `FullDeltaIsSnapshot` (a delta
that carries everything gives the match a snapshot gives), for every match and row.  Then the four
loops, for every story, TTL, interval of the slow loops, limiter, and any number of changes and
troubles at any instant.  All four theorems rest on `TimeInv`: a run is within its deadline and a
live loop before its tick, but for a trouble (`OnClock`), and a run that began after the last change
holds the match as it is (`Fresh`).

* `HealedHolds`, `SettledHolds`: `Calm` is the instant after which no run holds anything that the
  last change or trouble overtook (`CalmRuns`), so that every later write is right (`CalmWrites`).
  Before it, the loop that heals MongoDB has a run or a tick in time (`Soon`, `MongoInv`); after it,
  that run goes on, or has healed.  `RedisInv` is the same for Redis and the snapshot loop, with
  `Lasting`: what it wrote does not expire before it writes again.  `ExpiryInv` bounds what Redis
  serves of a match that left the feed.
* `GapFreeHolds`: `StoreInv` says that the store keeps the match for two polls after the change,
  whatever is put back or expires; `PollInv` that live-changes has announced the change, holds it,
  or will fetch it within the window, and that a run that missed it ends in time for the next.
* `HalfAnnouncedHolds`: `RowInv` says that a row in hand is of this half or was fetched before it
  began, and what start its delta carries; `HalfInv` that the stored states have the start of this
  half, but for a while after it began, during which every delta still carries it (`HalfSoon`).

**CatalogCacheProofs.**  Any keys, jobs, reads, failures and crashes.  `CacheInv` has the two
properties and what they need: a read about to cache holds what it found (`Found`), a document
that was there when a read began is still there (`StillThere`), and what a job of `Program` has written it
will evict (`WrittenIsEvicted`), which is the one fact about the order of its steps.
`StaleExplainedHolds` then says that a stale entry is a job on its way to the eviction, an
eviction that was lost, a write of `LeftToTTL`, or a read that raced the write;
`AbsenceNotCachedHolds` needs `Found` alone.
`ReadsImplemented` (`Spec => ReadsSpec`) maps each step under `CacheInv`: `Begin` is an `Ask`; `Hit`,
a `Load` that finds nothing or fails, and the two outcomes of `Populate` are a `Reply`; a write that
changes something is a `Change`; the rest is `Forget` or a stutter.  Each of them needs that no version
enters `alive` but the new one (`Fades`, `HeldKept`), and the answers need `Found` and `StillThere`: a
document is never answered as absent, nor as empty, to a read that began when it was there.
`CacheTypeCorrect` states the types.

**PartsProofs.**  Four of the parts of `sidelines`.

* `WaitBoundedHolds`, for any finite set of loops: `Queued` says that the tokens of the waiting loops
  differ and that the limiter has given away one interval for each loop behind them, so a wait is an
  interval per loop.  `RunBoundedHolds` adds up the calls of a run (`RunInv`).
* `CallsSpacedHolds`: `SpacedInv` says that every token handed out, and the next one, lies an
  interval after the last call of this process.  `WithinLimitOfOneProcess` is its corollary for
  `MaxRestarts = 0`, where the first call of the process is the first of all.
* `IndexAsConfiguredHolds`, for any processes, retentions and width of an int: `TtlInv` says that
  some process still owes the index a command (`Owes`) or one that is up has it as configured.  A process
  about to drop an index that another has made meanwhile, under another name, owes nothing.
* `StandingsInTimeHolds`: the witness `LastSweep`, and the marker, which is not older than its TTL
  and was not set while upstream had the table.
* `EscapesRepairedHolds`, `RoundTripHolds`: `RepairInv` ties the state of the scanner to those of the
  two lexers: what has been written is legal so far, and as long as the source was, it is the source.

**LogoSyncProofs.**  Any documents, sources, workers and troubles.  `NoBrokenLogoHolds` needs the
URLs still on their way, the results of the workers and what a writer of the match holds:
`BucketInv`.  `AnsweredHolds` needs where a pending document can be, waiting, with a worker or
answered: `PoolInv`.  `LogoKeptHolds` follows from the same invariant `LogoInv`, since a stamp
writes no empty result; so does `TypeCorrect`.

**EventsSyncProofs.**  Any matches, events, dates, failures and stops.  `EventsInv` adds three
facts to `EventsTypeOK` and `Announced`.  `AtHand`: a run about to publish holds what it stored,
unless another process stored something since; without it a publish could announce another
list.  `IsNews`: a timeline on its way to the subscribers differs from the one they have; it
holds when the digests are compared, by `Announced`, and until the publish.  `Complete`: an
event that a pending timeline lacks was missing upstream at some instant of the run.
`AnnouncedHolds`, `NoEchoHolds` and `EventsKeptHolds` follow from it.  The theorems rest on the
complete payloads that `DayLists` describes.

**Only model-checked:** liveness (`CallsReturn`, `ConnectionReaped`, `EventuallyFresh`,
`LogosHeal`, `MatchLogoHeals`, `RunEnds`, `TimelineHeals`, `StatsHeal`, `StartsUp`), which the
prover cannot do.  Every other property of a passing run is a theorem.

## 6. What is not modelled

* REST, CORS, configuration, wiring and the R2 client: stateless or pure I/O.
* The access token's syntax and signature, and the resolution of the client address.
* The copies of league, team and standings rows in `mapper.go`, and the wording of the live minute.
* Requests and payload types of the thscore client, the plain indexes and the list queries of
  the store.
* The expiry of documents by MongoDB's TTL monitor.

## 7. The plan

Order: the hub first, as the only part with shared memory and goroutines that wait for
each other; then the clock and its windows, the cache, the live loops and the logos.
Beside the live path then came the timelines, the standings, the limiter, the repair and
the TTL index.  All of these are done, their safety properties are proved, and the hub's slots
and the catalog's reads implement abstract specifications.  What is left, in the order of its worth:

1. An abstract specification of a subscriber's view (the snapshot and the deltas of a channel as one
   sequence of states), which `hub_snapshot` refutes for the code as it is and which would hold of a
   snapshot queued by the hub's own goroutine.
2. The expiry of timelines and stats by their TTL index, beside `EventsSync`.
3. The requests and answers of the thscore client (`fetch`, the envelope and its codes), of which the
   models know success, no data and failure.
