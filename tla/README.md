# MatrixWhale in TLA+

TLA+ models of the parts of MatrixWhale in which order, failure and concurrency
decide whether a warning reaches the map: how adapters acquire messages, how they
hand them to the core, and what the core makes of them when they come late, twice
or out of order. `PROJECT.json` maps every definition to the lines it models.

## 1. The system

MatrixWhale collects hazard information. One **adapter** per source (Go, one
process each, `restart: always` in `compose.yaml`) polls or subscribes, wraps what
it gets in a JSON envelope and POSTs it to the **core** (Gleam on the BEAM), which
validates, stores in PostgreSQL and publishes to browsers over SSE.

| Part | State it keeps | Operations | What is hard |
|---|---|---|---|
| JMA adapter, `jma_adapter` | state directory: spool, quarantine, fetched history, feed validators, byte budget, backoff; in memory the fetched set and a fatal latch | replay the spool, poll feeds, POST the index, drain the core's pending list, download, spool, record, POST, delete | a crash or failed write between any two of these; lost answers; damaged files; 304 answers that hide what the core never took |
| CAP adapter, `cap_adapter` | per-host semaphores and timestamps, global semaphore; in memory the registry's and the feeds' validators and due times | refresh the registry, poll due feeds, drain the core's pending documents, send batches | many goroutines, cancellation in every blocking call; POSTs that are repeated while the first is still being handled |
| WIS2 adapter, `wis2_adapter` | broker session, inbound queue, cache of notification and data ids, CAP and cyclone batches, observation queue, health counters | subscribe with failover, de-duplicate, download and verify, decode, enqueue, flush, report, stop | workers, ticker and reporter on shared batches and counters; requeue; caps; a shutdown that races with all of them |
| EMSC adapter, `emsc_adapter` | greatest lastupdate delivered; channel, batcher, sender | backfill, subscribe, batch, send, gap-fill | a stream that is lost at any time beside a paged query |
| NOAA, USGS adapters | HTTP validators, backoff | poll, POST | validators that run ahead of delivery |
| GDACS adapter, `gdacs_adapter` | nothing but its loop (is the backfill over) | poll two event lists page by page over a window of time, drain missing geometries | a window that must outlast every failed or slow poll; retries without end |
| Adapter commons, `adapters/common` | none (metrics apart) | poll loop, backoff, POST and its acknowledgement | a POST that took effect without an answer |
| Core intake and writers | `sea.*` tables (alerts, items and their attempts, feeds and their health), seen set, watermarks | receive, decode, judge revisions, write, list what is pending | concurrent transactions, out-of-order messages, partial chunks |
| Core hubs and streams | actor state, response caches, replay buffer | publish, subscribe, replay, resync | slow or dead subscribers, events between snapshot and subscription |
| Web store, `web/app/src/lib` | alerts shown, event buffer, events waiting for a frame, snapshot in flight | open, snapshot, replay, apply, watchdog, reconnect | two asynchronous sources for one view, in any order |
| Event matching | event clusters | match, merge | order of arrival |
| Rendering, proxy, monitoring, migrations, RSS and federation stubs | | | no protocol of their own, or configuration |

What makes each part correct:

* **JMA acquisition**: a telegram that counts as fetched is never lost; one that was
  recorded is not downloaded again; the stored validator never hides a telegram the
  core has not heard of; a controller that cannot write its state stops asking
  upstream; a listed telegram is resolved in the end, if nothing is stuck in its way.
* **Byte budget**: what was downloaded stays counted through crashes and midnight.
* **JMA alerts**: the latest bulletin decides in any order of arrival; a cancelled
  series shows nothing; a warning in force is shown, if the core knows its status.
* **Host limiter**: one request per host, a bound on hosts, a gap between requests,
  and no token leaked.
* **CAP pipeline**: an item counts as fetched only when its message is stored; a 304 never
  hides what the core does not have; repeated reports use up no attempts; every listed
  document is fetched or given up.
* **WIS2 handler**: a notification is in one place at a time until its fate is settled; the
  same data reaches the core once; the counters add up; a stop loses no batch unanswered.
* **WIS2 queue**: an observation is delivered or counted as dropped.
* **GDACS**: a change is missed only by a poll that comes later than its window; the loop
  keeps polling; every episode gets its geometry, if the core takes the batch it is in.
* **EMSC**: nothing is lost or reordered between socket and core; the gap-fill asks
  back far enough for what a query can bring.
* **NOAA intake**: what counts as seen is stored; the table follows the list, with its
  withdrawals; subscribers hear of every change.
* **Alert stream**: the cache holds nothing that a finished write has made obsolete;
  the page ends up with the alerts in force and never waits for ever.

## 2. Modules

Each component has a module `X`, an `XMC` module that TLC runs with one `.cfg` per
question, and theorems are in `XProofs` modules; the limiter's are in `CapAdapterProofs`, the
budget's in `JmaAdapterProofs`. Definitions called
*mutant* are plausible bugs; they are used only to show that a property can fail.

### JmaAdapter
`controller.go`, `state.go`, `jma_client.go`, `core_client.go` and the core's
`sea.jma_item` (`jma_item_writer`, `jma_message_writer`). The adapter is one
goroutine; `pc` stops before every disk write and every network call, so that
`Crash` may fall between any two. `spool`, `quarantine`, `history`, `torn`, `tail`,
`validator`, `backoff` and `due` are the state directory and survive; `fetched`,
`fatal` and the rest of the memory do not. Three disk faults: `"persist"` (an atomic
write or append fails and latches the controller), `"torn"` (an append leaves an
unterminated line), `"corrupt"` (a spool file is damaged: it is not JSON, its message cannot
be decoded, or it has no `ItemURL`). Every POST may be applied with its answer lost, and the
core drops the telegrams in `Rejected` whenever they are posted.

A telegram is its URL; there is one feed; `attempts` stops counting at
`max_retry_attempts`; the core applies a POST before the adapter's next step.
`docs/jma-xml.md` concedes a second download of what was not yet synced when the
process ended, and `NoRefetch` speaks only of URLs for which `MarkFetched` returned.

### JmaBudget
`Store.Reserve`, `Commit`, `loadByteBudget` and the counting reader of `FetchFeed`
and `FetchData`: the figure in memory, the figure on disk, the bytes of the request
in flight. `spent` is what was really read on the current day, `carried` what a
process took with it when it ended in a request reserved the day before.

### JmaAlerts
What `ParseTelegram` yields for weather bulletins and what `process_one_result`
makes of them: watermark (`check_and_update_watermark`), alert rows
(`handle_alert_live`, `handle_alert_cancellation`), redelivery (`claim_jma_message`)
and the race of two transactions for the first series row. One series; identifiers
are in order of issue, as JMA's are. An item is `"active"`, `"lifted"` (解除) or has `"other"`, a
status outside `is_active_alert_status` (`domain/jma.gleam:57`), which the parser hands on as
JMA wrote it: a step down may have one (特別警報から注意報), and `Issue` chooses which do. An
explicit item list in a cancellation is not
modelled because the parser sends 取消 without a body. `active_until` is not modelled.

### CapHostLimiter
`HostLimiter.Wait` and `Done`, one step per channel operation or critical section,
with cancellation in each of the three blocking places. Time is what the code
compares: time since the last end, and the rest of a sleep.

### CapItems and CapAdapter
`CapItems` is the core's half: the registry (`cap_registry_writer`), feed health and items
(`cap_item_writer`) and the handler of a batch of downloads (`process_alerts`,
`pipeline.run`, `cap_message_writer`). The handler is not atomic and neither is its model:
failures are recorded one by one, the seen-set is looked at twice (`FindRepeats`,
`FindSurvivors`), each record is a transaction of its own, the seen-set is marked after the
writes, and the repeats are marked as fetched last. `jobs` holds the handlers under way;
slot 0 is the one the adapter waits for. `CapAdapter` extends it with the adapter's loop:
`pollRAA`, `pollFeedsCycle` with one goroutine per feed, `drainPending` with its workers,
`sendWithRetry`. A POST may be refused, or be left unanswered and be handled later
(`lateRegistry`, `lateIndex`, a second slot), while the adapter repeats it or goes on.

A validator stands for the list it was issued for. Each feed and document has its own host
(turn-taking is `CapHostLimiter`'s). A document has one message key and one revision.
Intervals are counted in cycles. A batch is bounded by its number of results; the 16 MiB
limit, which only flushes earlier, is not modelled. `update_outcome` reads and writes in two
statements; two handlers that race there write the same value, so it is one step.
`overrun` and `crossed` are history, for the exceptions that `ValidatorsCovered` and
`AttemptsAreDownloads` name.

### Wis2Adapter
`Execute` with its four kinds of goroutines: `MQTTBroker.Run` and the rotator, the worker
pool (`handleMessage`, `dedup.Cache`, the download semaphore, `handleWarnings`,
`handleTrajectory`, `handleSynop`), the flush ticker and the health reporter, from start to
the end of `wg.Wait`. Steps are critical sections and network calls. A select in which both
the stop and something else are ready may pick either. With deadlock checked and `Return`
as the only step of a finished adapter, the run also shows that a stop never leaves a
goroutine blocked.

A notification yields one feature of its batch. The download of a warning's area is best
effort, outside the semaphore, and changes nothing else; it is left out. Download, decoding
and integrity failures are counted together and so are all centres. Observations leave the
model for `Wis2ObsQueue`. `fate`, `due`, `forgotten` and `reported` are history.

### Wis2ObsQueue
`enqueueObservationFeature` and `flushObsBatch` with Go's slices spelled out: backing
arrays, offset, length, capacity, `append` in place or into a grown array. The steps
are the critical sections of `obsBatchMu` and the network call between them. The pool's
goroutines are `PoolWorkers` and a goroutine's batch is `flushBatch`; these names and those of
the specification (`QueueSpec`) differ from `Wis2Adapter`'s, since the proofs extend both.

### EmscAdapter
`run`, `runFDSNSync`, `runLive`, `Subscribe`, `Batcher.Run`. An event is its
lastupdate; EMSC's query service knows it at once, its stream carries it at most
`Skew` later, which is assumed to be under `gapFillLookback`. An update that
supersedes an event is an event of its own; the backfill window covers the whole run.
The code compares lastupdates as strings, which misplaces timestamps with and without
fractions of the same second; the lookback of five minutes absorbs that and the model
compares numbers. `Delete` is EMSC deleting an event: the stream carries a message of its
own, with its own lastupdate, and the query service has no such message (ADR 0007, line 61,
assumes that there are no tombstones); whether it still lists the deleted event is left open.
`blind` records what no later query brings: what the stream carried to nobody between a
sync's endtime and the subscription, or in a message that could not be parsed; deletions that
were lost with a connection or with the process; and the events that have been deleted.

### WindowPoller and GdacsAdapter
`WindowPoller` is an abstract specification: what a poller promises that remembers nothing
and asks, again and again, for what changed in the last `Window`. A change is `"new"`,
`"stored"` or `"overlooked"`, and only a poll begun more than a window after the last
complete one may overlook anything. `GdacsAdapter` is the detailed one: `run`, `pollTick`,
`pollAllPages` (pages, retries, abandoned queries), `drainGeometry` with
`fetchGeometryWithRetry` and `flushGeometry`, and the core's tables. `KeepsWindow` says that
it implements `WindowPoller` twice, once per event list; the mapping takes `status` from what
the core has and what a complete query left out, `idle`, `elapsed` and `late` as they are.

Time is counted in units of `PollInterval`, and only ages are kept, up to one more than the
window, so the state space is finite without a bound on the number of ticks. An event is its
latest version. `Rank` is the order of GDACS's list, which a change of an event may extend
but does not permute; a list that is re-sorted between two pages is outside the model.
`unanswered` is chosen once: episodes whose geometry request always fails. `Refused` are the
batches the core refuses every time, by their size or because one geometry in them undoes the
transaction; with a set, every larger one is refused, and a single geometry may be. The core
lists pending episodes by `datemodified`, newest first (`modified` and the core's copy
`stamp`), so that the drain of every tick begins with the same batch.

### NoaaFeed
`noaa_adapter`'s loop (`controller.go`), the core's client timeout, and the intake of a
list: `noaa_data_handler`, `noaa_controller`, `pipeline.run` and
`alert_writer.write_batch`. A list gives each alert a revision (`sent`) or 0. `Poll` keeps
the validators, `Receive` filters the list through `seen`, then each chunk is one
transaction in two steps: `Load` (`SELECT ... FOR UPDATE` of every listed row) and `Write`
(insert, update, revive, sweep, commit, mark), which waits for the rows that another
transaction has locked. `WriteFails` ends a request at any of these, by itself or as the
victim of a deadlock, and `Publish` sends the joint diff of all chunks. `TimeOut` frees the
adapter while the core goes on, so that two lists may be in hand. An insert that meets a
row which another transaction has just inserted changes nothing (`Lost`) and is marked all
the same.

`faults` counts failures of all kinds together. A 304 answer is forwarded as an empty list
and changes nothing. A feature that cannot be decoded is missing from the list and is swept
like a withdrawn one, which is the second disjunct of `Receive`. Alerts whose `active_until`
is over belong to `AlertStream`. `mirrored`, `raced`, `behind` and the `alone` and `wrote` of
a request are history.

### AlertStream
From a commit to the browser. The writers are any number of request handlers
(`Posters`: `noaa_controller` with `alert_writer.write_batch`) and the expiry job of
`matrix_whale.gleam`. Each commits, publishes to `alert_hub` and invalidates
`response_cache`, in three steps that interleave freely; or it fails behind the commit, in a
later chunk or because the answer of the database is lost, and does neither (`Abandon`;
`noaa_controller.gleam:121`). `Commit` stands for all that a handler has committed when it
publishes or fails; what it has committed by then is announced, or not, as one. `req` is the
page's snapshot request on its way through `cached_json_response`: `CacheGet`, `ReadDb`,
`CachePut`, with the generation it was given. `wire` holds what the hub has sent to the
current connection and the page has not handled, from the moment `start_bridge` subscribes
(`StartBridge`); the resync that answers `Last-Event-ID` may come before, between or behind
what the bridge had buffered (`Attached`). The page is `AlertStore` on the shared stream:
`buffer` is `#streamBuffer`, `pending` is `#pendingApply`, `view` is `activeAlerts`.

`rev` is the revision (`sent`) and `seen` is `last_seen_at`, both counted in posts; a batch
concerns one alert. Handlers that overlap commit in the order of their clocks: in the code
one that started earlier and commits later sets `last_seen_at` back, and a page that has the
later one in a snapshot then skips its event in the replay; that is not modelled. An actor
handles a message where it is sent; what it sends waits on `wire`. `Others` are the other
readers of the same cache; a request that the page aborts and the core still finishes is one
of theirs. Not modelled: the eviction at 10,000 alerts, `disconnect`, the single-channel
stream with its ring replay, and the end of a subscription on the server.

`overtaken`, `misled`, `leftover` and `failed` are history: the five ways in which the code
lets the page fall behind, each of which `InSync` excuses. TLC finds `InSync` violated when
any one of them is not excused. `misled` holds two of the ways, per alert: alerts whose last
published change is not their last change. A writer that has committed while others were
between commit and publication is `behind` them; when it is done first, the alerts that it has
in common with one of them are noted in the other's `late`, and are `misled` after that one's
publication; what a failed writer has changed is `misled` at once; both until somebody
publishes the alert again. `spared` holds what failed writers have written, until the cache is
next invalidated; `CacheFresh` excuses these alerts.

## 3. Runs

| Run | Checks | Bounds and why they are enough |
|---|---|---|
| `jma_adapter` | `TypeOK`, `NothingLost`, `ValidatorCovers`, `NoRefetch`, `LatchStopsRequests`, `FinalIsStable` | two telegrams, one of which the core keeps dropping; one failed write and one crash at any step, both telegrams published while it runs. Telegrams interact through the spool order, the pending list (limit 1) and the validator, and two show each of these |
| `jma_adapter_live` | `ListedResolved` | two telegrams, both listed from the start, of which the core drops the one that comes first in the spool; a pending list of one; one spool file damaged in any of the three ways: every exception of the property occurs, and the run fails without any one of them. Failed writes, torn lines and a recovery of a recovery (two faults of any kind) are in `JmaAdapterLiveFaults.cfg`, with one telegram, where the property holds too |
| `jma_budget` | `BoundedOvershoot` | a limit of 5, reservations of 3, three days, three faults: two requests do not fit in a day, each may span midnight |
| `jma_alerts` | `WatermarkIsLatest`, `CancelEndsAll`, `InForceShown` | three bulletins (an old one, a newer one, one that ties with either) in all orders and repeated, two areas, two levels with a step down of known or unknown status, two report times |
| `cap_host_limiter` | `LimiterTypeOK`, `OnePerHost`, `MaxParallel`, `MinGap`, `Served` | four callers, three hosts (one shared), two global slots: contention for a host, for a slot, and for both |
| `wis2_obs_queue` | `LossNeedsOverlap`, `EventuallyOut` | two workers and the ticker, five observations, batches of two, a cap of three, two refusals: the cap is met by the producer and by a requeue |
| `emsc_adapter` | `LiveInOrder`, `GapFillSound`, `Delivered` | three ticks, each with or without an event or a deletion, two lost connections, one restart, a channel of one, batches and pages of two: every queue is full at some time |
| `alert_stream` | `CacheFresh`, `InSync`, `BufferDrains` | one alert (alerts do not interact in cache or store), one handler and the expiry job, two posts, so that a revision, a withdrawal and a revival each meet the expiry job; two connections and one failure, of a snapshot or of a writer behind its commit, so that a request of the first connection meets the second. Two handlers that overlap are in `AlertStreamHandlers.cfg`, with a single connection, where the same properties hold (1.6 million states). All three are proved for any number of alerts, handlers, readers, posts and connections |
| `noaa_feed` | `TypeOK`, `SeenStored`, `MirrorsList`, `SubscribersTold` | two alerts in chunks of one, so that a list of both is two transactions that lock each other's rows; two requests in hand; five versions of the list with two revisions (issued, revised, withdrawn, listed again); two failures, so that a timeout meets a failed chunk, a restart or a refused POST |
| `cap_adapter` | `FetchedIsStored`, `ValidatorsCovered`, `AttemptsAreDownloads`, `ListedIsSettled` | two feeds and two documents that carry the same message, one of them possibly gone for good, the other possibly too old when it is first listed; the registry starts with one feed; two attempts per item, two POSTs per batch, batches and rounds of two, one handler beside the awaited one; one upstream change and one fault (failure, unanswered POST, deadline, restart, expiry) at any step: two handlers of the same documents overlap, a late POST meets a newer one, and the retry of a failed download meets its repeated report |
| `wis2_adapter` | `Conserved`, `OncePerData`, `DuplicateOfWorked`, `CountersAddUp`, `LastFlushCovers` | two copies of one warning under different ids and a third message of any kind; two workers, an inbound queue of one, one download slot, batches of two: the queue overflows, a worker waits for the slot, a batch is filled by one worker while another or the ticker takes it. One fault (lost connection, failed subscription, refused batch, 429, expiry) and a stop at any point; two brokers, the first dead |
| `gdacs_adapter` | `KeepsWindow`, `KeepsPolling`, `GeometryComplete` | two events on the primary list and one tsunami, so that with pages of two a list fills a page exactly; two attempts per page; one change and two faults (a failure, a slow request, a restart), enough to lose a query and let the next come late; a pending limit and batch of two; the tsunami's geometry answered always or never, and refused by the core when it comes with that of one of the events |

Only the EMSC, NOAA and alert stream runs switch deadlock checking off: there the clock, the
versions or the posts end at their bound and an idle adapter or page rightly waits. Symmetry
is used only in runs without liveness.

`TypeOK` is checked and proved for the JMA adapter, the host limiter and the NOAA feed; in
the other proofs the types are part of the inductive invariant. The modules of the limiter and
of the budget prefix their `Init`, `Next` and `Spec` (`LimiterSpec`, `BudgetSpec`), so that one
proof module can extend them beside the adapter they serve.

### Fairness
Weak fairness stands for goroutines that are scheduled, timers that fire
(`clock`, `BackoffExpires`, `FeedDue`, `RetryIntervalOver`, `Tick`) and a process that
is started again (`compose.yaml`, `restart: always`). HTTP clients have timeouts, so a
request ends; strong fairness on a *successful* answer (`IndexAccepted`,
`ReplayAccepted`, `DownloadFinal`, `DrainGet`, `SendOk`, `SyncPage`, `DialOk`) says that
a peer which is asked again and again does not refuse forever, which is the condition
under which the code promises anything. The CAP and GDACS runs need no strong fairness:
there every failure counts against `MaxFaults`, and after the last one peers answer, but for
the downloads of `CapAdapter`, which may fail for ever and then end in the item being given
up, and the `unanswered` geometries. A POST whose answer was lost, an upstream change and a
late handler owe nothing. In the host limiter, strong fairness on the
semaphores is Go's FIFO queue of senders on a channel.

## 4. Known disagreements

Behaviour that the models have because the code has it, and that a comment, a document or a
reader would expect to be otherwise. The first three have a configuration that TLC answers
with a counterexample:

* **Blocked replay** (`tlc -config JmaAdapterBlocked.cfg JmaAdapterMC`): `replaySpool` returns
  at the first telegram that is not accepted (`jma_adapter/app/controller/controller.go:214`),
  so one the core drops every time holds up the rest, against the comment "Deliver each item
  independently to prevent one malformed item from blocking valid items" (line 201).
* **Two levels** (`tlc -config JmaAlertsLevels.cfg JmaAlertsMC`): alerts are keyed by event
  name (`jma_message_writer.gleam:1068`), so a warning that becomes an advisory leaves its old
  row active; `telegram.go:616` says of its lifecycle key, which is not used there, "Ensures
  transitions (e.g. warning -> advisory or active -> 解除) update the same alert record".
* **Overlapping flushes** (`tlc -config Wis2ObsQueueOverlap.cfg Wis2ObsQueueMC`): a requeue
  (`wis2_adapter/app/controller/controller.go:818`) leaves the queue on the array that another
  batch in flight still points to; later appends write over it and observations vanish
  uncounted. `LossNeedsOverlap` shows that this is the only way.

The others are named by the properties that except them:

* CAP: a registry POST that was not answered may be written after a newer one; the next poll
  is answered with 304, so the older list stands until the register changes
  (`overrun` of `ValidatorsCovered`). A registry that drops more than half of the known
  authorities is refused every cycle, for as long as the register stays that way.
* CAP: a failed download is counted once per fetch time, but the core compares only with the
  last one: an older report handled after a newer one counts again (`crossed` of
  `AttemptsAreDownloads`). A feed failure has no such check, and a repeated POST of it counts
  twice towards the longer poll interval.
* WIS2: a batch of warnings or tracks that is refused is gone (fate `"refused"`); ids are cached
  before the download, so when the first copy fails the others, from other caches, have been
  dropped as its duplicates, for as long as the ids are kept; a subscription that
  fails leaves a connection that is up and silent; `Retry-After` is waited out without a limit
  while the download slot is held; after the stop, workers may still fill batches behind the
  last flush, and the ticker may take a batch with the cancelled context.
* GDACS: a geometry that is never answered, whatever its status, is retried for ever, and with
  it the polling of events ends (`Held` in `KeepsPolling` and `GeometryComplete`). A batch of
  up to ten geometries of up to 16 MiB each (`gdacs.go:32`) meets a limit of 17 MiB
  (`gdacs_reciever.gleam:112`), and one geometry that cannot be written undoes its batch; the
  batch is dropped (`controller.go:331`) and is the first again at every tick, so that it and
  all older episodes stay without a geometry (`Blocked` in `GeometryComplete`).
* JMA: besides the blocked replay, two more ways leave a listed telegram unresolved
  (`ListedResolved`). A spool file without an `ItemURL` (`controller.go:155`) is to be moved by its
  ID, which `QuarantineSpool` hashes once more (`state.go:525`); it finds no such file, takes
  that for success, and the file stays (`Stuck`). And an answer of the pending list holds
  fifty telegrams: when these are all spooled or fetched, and the core does not close them, the
  ones behind are never named (`Crowded`).
* JMA: an item whose status is neither 解除 nor in `is_active_alert_status`
  (`domain/jma.gleam:57`) is dropped (`jma_message_writer.gleam:1108`). A warning that goes from
  special warning to advisory (特別警報から注意報) is not shown; `InForceShown` excepts it.
* Behind an unterminated line in `fetched_history.txt`, left by an append that failed half
  way, the next, synced URL is joined to it and forgotten after a restart. `NoRefetch`
  fails when `"torn"` is among the `Faults` of `JmaAdapter.cfg`.
* The page may be left behind in five ways (`InSync`): a snapshot is taken from the cache
  between a publication and its invalidation (`noaa_controller.gleam:108`); two writers
  publish in the other order than they committed; a handler fails behind a commit and
  publishes nothing (`noaa_controller.gleam:121`), which leaves the cache stale as well, until
  the next invalidation or the end of its time to live (`spared` of `CacheFresh`); events
  that waited for an animation frame are applied over a newer snapshot
  (`store.svelte.ts:504`), without the `last_seen_at` comparison that the stream buffer has;
  a failed snapshot is not repeated until somebody presses the button or the stream opens
  again.
* EMSC: a sync fixes its endtime first (`emsc_adapter/app/controller/controller.go:111`) and
  the stream is subscribed last. An event the stream carries in between is missed for good
  once the marker has moved past it, although ADR 0007 expects the gap-fill to make up for
  it. A deletion is a message of the stream only: one that is lost with a connection or a
  restart is not made up for by any query, and the core keeps the event as it was. These are the
  `blind` of `GapFillSound`, which shows that nothing else is missed.
* NOAA: the validators advance before the POST, so a list whose POST fails is not sent again
  until NOAA changes it. A list that consists of repeats is not written at all
  (`pipeline.gleam:79`): an alert that such a list no longer names stays active, and one
  that it names again is not revived, until something new is listed or the seen set
  forgets. `MirrorsList` is therefore about lists of which something was written.
* NOAA: when a later chunk fails, what the earlier chunks have changed is committed and
  marked but never published (`behind`); an insert that loses a race marks a revision as
  seen that is not in the table (`raced`). TLC finds `SubscribersTold` and `SeenStored`
  violated when these are not excused.
* The budget reserves decoded bytes and spends wire bytes; `BoundedOvershoot` is
  checked and proved with `Overhead = 0`. With any overhead the limit is exceeded by it.
* A process that ends in a request reserved before midnight loses that day's bytes;
  this is the `carried` of `BoundedOvershoot`, so the limit itself is not an invariant.
* `FinalIsStable` needs undamaged spool files: `record_item_failure` reopens an ingested
  item when the spool file of a telegram whose acknowledgement was lost is damaged. It needs
  complete lines in the history file, too: a telegram forgotten behind a torn line is
  downloaded again, and a failure of that download is reported.
* The HTTP client follows redirects inside one bracket of the host limiter; the second
  host sees a request the limiter does not know of.

## 5. Proofs

TLAPS proves, for every value of the constants:

* **JmaAdapterProofs**: `TypeCorrect`, `Acquisition` (`NothingLost`), `ValidatorSound`,
  `LatchSound`; `FetchedOnce` (`NoRefetch`, assuming `"torn"` is not among the
  faults, which is needed, see section 4) and `NothingReopened` (`FinalIsStable`, assuming
  also that `"corrupt"` is not). `NothingLost` is not inductive: whether a
  telegram may be recorded depends on what the step before left in the spool. `IInv`
  adds what each `pc` knows of `cur` (`CurInv`), what the replay and drain loops hold
  (`LoopInv`), the latch (`LatchInv`), that memory is no larger than disk (`MemoryInv`) and
  what is known of a listing on its way to the validator (`ListingInv`); `HistoryInv`
  relates the history file to what was acknowledged as recorded. `StableInv` says why nothing
  is reopened: what the core has closed is in the history file or in the spool, hence not
  downloaded again, and a telegram that the core drops is in the spool only while its item
  is not closed. The same module proves `DailyCap` (`BoundedOvershoot` of `JmaBudget`), with
  `Overhead = 0`: `ShapeInv` (dates and counts), `MirrorInv` (memory and file agree while the
  process works) and `AccountInv` (every byte of the day is in the file, in the reservation,
  or carried).
* **JmaAlertsProofs**: `WatermarkSound`, `CancelSound`, `NoWarningMissing`. The invariant
  ties the watermark to the archived bulletins (`Numbered`, `Apart`, `Reported`,
  `Started`, `Origin`, `Behind`) and the rows to the bulletin at the watermark (`Shown`).
  `NoWarningMissing` excepts the items of that bulletin whose status the core does not know.
* **CapAdapterProofs**: `NothingFetchedInVain` (`FetchedIsStored`), `ValidatorSound`
  (`ValidatorsCovered`), `AttemptsSound` (`AttemptsAreDownloads`). `StoredInv` is what a handler
  knows of its records in each phase: a repeat was in the seen-set and is stored; a record of
  the chunk being written is stored, has failed, or has its turn yet. `ReportsInv` says that
  every report on its way, also in the hands of a late handler, is of a download that was
  made, and `CountInv` that an item's attempts are no more than the number of the download
  reported last. For the host limiter, `LimiterTypeCorrect`, `Exclusive`, `Parallel` and
  `Spaced`: `HostInv` (a taken host has one holder), `ClockInv` (the recorded end is not later
  than the real one), `SleepInv` (what is left of a sleep covers the gap) and `SlotInv` (the
  tokens in the semaphore are the callers that hold one).
* **Wis2AdapterProofs**: `NothingLostOrDoubled` (`Conserved`), `DeliveredOnce`
  (`OncePerData`), `DuplicatesJustified` (`DuplicateOfWorked`), `LastFlushComplete`
  (`LastFlushCovers`), `CountersSound` (`CountersAddUp`). `Placed` takes the places of a
  notification one by one (queue, worker, batch, a worker's or the ticker's request): it is in
  at most one of them, once, and in one of them exactly while its fate is open. `CacheInv`
  relates the cached ids to the notifications that got past the check, `FlushInv` follows the
  last flush through the batches, and `CountInv` counts fates with cardinalities. For the
  observation queue, `LossTakesOverlap` (`LossNeedsOverlap`): while no two flushes have
  overlapped, every slice lies within its array (`SlicesOK`); the one batch in flight ends where
  the queue begins or before, if they share an array, and its envelope holds what it holds
  (`OneFlight`); batch and queue together are in arrival order (`ArrivalOrder`); and every
  observation is accounted for (`Accounted`). `IsAppended` is what `append` promises of the heap,
  in place or grown: a slice that ends no later than the one appended to keeps its elements.
* **EmscAdapterProofs**: `NothingReordered` (`LiveInOrder`) and `GapFillReaches`
  (`GapFillSound`). The second needs the whole way of an event: `SyncInv` (what a sync leaves
  to the stream and what it has brought), `StreamInv` (while the connection is open everything
  the stream carried is on its way) and `ReachInv`: in the pipeline nothing that would move
  `maxLastUpdate` a lookback past a missing event is ahead of that event. This is where
  `Skew < GapFillLookback` is used: an event that the stream still owes is too young to be
  passed. That `Greatest` exists is proved from the least element of a set of naturals.
* **GdacsAdapterProofs**: `WindowKept` (`KeepsWindow`), the refinement of `WindowPoller` by
  both queries: initial states, every step, and no fairness. `AgeInv` (what is missing has
  changed since the last complete query began), `AskedInv` (a query that is not late asks for
  all of it) and `PageInv` (what was on the list at the tick has been sent as far as the pages
  go). A page that is not full is the last one, which is a counting argument over positions
  (`LastPage`); that needs a finite set of events.
* **NoaaFeedProofs**: `TypeCorrect`, `SeenSound` (`SeenStored`), `SubscribersInformed`
  (`SubscribersTold`) and `TableMirrorsList` (`MirrorsList`). `SeenStored` needs to know
  that only listed alerts are marked, that a row which is absent has no revision, and that no
  step lowers a stored revision; `WriteOK` is the one step that marks anything. The other two
  add what a request that is alone in hand knows (`AloneInv`): its diff says what the table
  says (`ToldInv`), no list or row has a later revision than the list polled last (`RevInv`),
  and the chunks written so far have left the table as the list says (`CopyInv`).
* **AlertStreamProofs**: `SnapshotCurrent` (`CacheFresh`), `NeverStuck` (`BufferDrains`),
  `Typed` and `PageInSync` (`InSync`).
  `CacheFresh` needs to know of requests on their way: a body that would still be accepted
  is current unless a writer has yet to invalidate (`PutInv`), and no request has a
  generation from the future (`GenInv`).

  `InSync` speaks of quiet states only and is far from inductive. Its chain of invariants
  follows a change from the commit to the view. `WriterInv`: of two writers between commit and
  publication exactly one is behind. `SeenInv`: no event and no snapshot has seen an alert later
  than its row. `DiffInv`: what a writer has yet to publish is no older than what is on its way
  and true of the row, unless another writer has overridden it or it is late. An alert is
  `Trusted` when it is not misled, or when a writer that is not late is about to publish a change
  of it. `BodyInv`: a snapshot that the cache has or would accept is right about every trusted
  alert that no unfinished writer has changed since; `PageBody`: the page's snapshot is right
  about every trusted alert of which no later event is still to come. `LineInv`: the last event of
  a settled alert (not misled, and in nobody's hands) on the wire, in the buffer followed by the
  wire, and in what waits for a frame followed by the wire, is true of the row, and none before it
  has been seen later. `ViewInv`: with no request under way, what the page shows of a settled
  alert with nothing on its way is in force. The snapshot is the step where all of them meet:
  either the buffer holds an event as late as the snapshot, and the last such event decides
  (`LineInv`), or it does not, and the snapshot decides (`PageBody`). `Quits` is what a
  publication and a failure have in common, so that most facts are proved once for both.

  What a replay or a frame does to the view is a fold over a sequence of any length. Instead
  of an induction over sequences the lemmas `AfterReplay` and `AfterFrame` say it of the prefixes
  by way of the least natural that a set misses (`Induction`, from the well-foundedness of
  `<`), which is a statement about sets and needs no operator as a parameter. `TwoParts`,
  `Taken`, `Grown` and `Slipped` say what becomes of the last event of an alert when sequences
  are joined, lose their head, grow, or have a resync slipped in.

The assumptions are those of the modules that declare the constants: sizes and bounds are
natural numbers, the sets that are counted are finite, and the values that stand for nothing
(`NoItem`, `NoId`, `Nobody`) are not among what they stand beside. Each inductive
invariant was first checked by TLC on the instances of section 3, those of
`AlertStreamProofs` on `AlertStreamHandlers.cfg` and on `AlertStream.cfg` with one post.

Only model-checked: liveness (`ListedResolved`, `Served`, `EventuallyOut`, `Delivered`,
`ListedIsSettled`, `KeepsPolling`, `GeometryComplete`), which is out of the prover's reach. Every
safety invariant and refinement of the runs is proved.

## 6. Not modelled, and the plan

Left out for good: XML, CAP, BUFR and SYNOP decoding (pure functions with fixture
tests), configuration and URL rules, metrics, logging, read queries, rendering,
migrations, stubs.

Planned, in this order:

1. USGS poller, as another implementation of `WindowPoller`; the EMSC gap-fill as a third.
2. What a CAP message does to the alerts it references; the limiter inside `CapAdapter`.
3. Core intake of earthquakes and hazards, event matching.
4. Core hubs: ring replay, restarts and the life of a subscription (`live_stream.gleam:206`);
   earthquake and hazard stores.
5. JMA schedule of several feeds; the earthquake half of the JMA writer; the observation queue
   at shutdown.
