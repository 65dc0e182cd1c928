# A TLA+ model of the Turnstile App Check gateway

The gateway exchanges a Cloudflare Turnstile token for a Firebase App Check
token (`POST /exchange`), answers a proxy's forwardAuth question (`/verify`),
limits both by client, and records what it did in an audit trail that an
administrator reads and resets through a dashboard. This directory specifies
the parts of it that are hard to test, checks them with TLC on small instances
and proves the most important statements with TLAPS for instances of any size.

Paths below are relative to `src/`.

## 1. The system

| Component | Code | State it keeps | Operations |
|---|---|---|---|
| Asynchronous recorder | `internal/audit/recorder.go` | bounded channel, the worker's batch, closed flag, counters | `Record`, `Flush`, `Reset`, `Close`, the worker's `run`, `flushWithRetry`, `flushOnce` |
| Synchronous recorder | `internal/audit/recorder.go` | none | `Record` (used when `AUDIT_ASYNC_ENABLED` is off) |
| Audit policy | `internal/audit/policy.go` | a random generator | `Decide` |
| Audit repository | `internal/audit/storage/bunrepo` | tables `audit_events`, `audit_metric_rollups` | `AppendBatch`, `AppendMetricRollups`, `AppendAuditBatch`, `Get`, `List`, `Summary`, `Metrics`, `Reset`, `PruneRetention`, `Migrate` |
| Rate limiter | `internal/middleware/rate_limit.go` | one entry per client and route | `allow`, `pruneLocked` |
| Handlers | `internal/handlers` | per request | `ExchangeHandler.Handle`, `VerifyHandler.Handle`, deferred summaries |
| Router, middlewares | `internal/httpserver`, `internal/middleware` | none | preflight, recovery, logging |
| Upstream clients | `internal/turnstile`, `internal/firebaseappcheck`, `internal/auth` | cached OAuth token, under a lock | `Verify`, `Exchange`, `Token` |
| Admin API | `internal/admin` | none | access check, metrics, pages of the trail, reset |
| Dashboard | `frontend/src/App.svelte` | page, filters, cursors | load, page, reset |
| Life cycle | `cmd/turnstile-appcheck-gateway/main.go` | the pruner, the server | start, prune, shutdown |
| Configuration | `internal/config/config.go` | none | `Load` |
| Health, version, logging | `internal/health`, ... | none | |

**How they interact.** Every request has a goroutine. It passes the limiter (one
mutex), calls the upstreams under a context with `REQUEST_TIMEOUT`, and calls
`Record` several times: for each step, for a denial, and once in a deferred call
for the whole request. `Record` asks the policy what becomes of the event (a
row, a count in a rollup, both or neither, and its priority) and sends an item on the
recorder's channel. The worker is the only reader of the channel; it batches
items, writes them to the repository and retries. `Flush`, `Reset` and `Close`
send requests to the worker on channels of their own. The dashboard reads the
repository through the admin API; the pruner deletes old rows; the shutdown in
`main.go` stops the server, then the pruner, then closes the recorder, and a
deferred call closes the repository.

**What is hard.** Callers race the worker on a full channel. A write fails, or
fails after it took effect, and is retried together with whatever arrived since.
`Close` checks a flag that `Record` and `Flush` read without a lock. `Reset` is a
flush and then a separate transaction, while the worker goes on. The limiter reads the clock
before it has the lock. A Turnstile token can be redeemed and the answer lost. The
OAuth token is fetched under a lock and without the request's context. A page of the trail takes two
queries and a walk over its pages many, with writes, resets and pruning between them. The database is migrated statement by
statement and a process may end after any of them. The dashboard starts loads while others are waiting for their answers.

**What makes each part correct.**

* *Recorder*: an accepted event is never lost and its count never doubled;
  `Flush` and `Close` are barriers; nothing sent before a reset survives it; nobody waits for ever.
* *Limiter*: a window admits no more than its limit, windows do not overlap,
  denials are deserved, memory is bounded.
* *Handlers and policy*: a token is issued only for an accepted Turnstile token
  and once; every request is counted once with the status it got; failures stay
  on the trail in every mode; every request is answered.
* *Repository*: a walk over the pages shows every row that stayed, and by cursor none twice; the points of the metrics add up to
  their total; the counters do not fall behind the trail.
* *Configuration*: an environment that is accepted gives every component values that it can work with.
* *Life cycle*: nothing is served on an unfinished or legacy schema, rows survive crashes and migrations until they
  expire, exit code 0 means that nothing was lost, and a signal ends the process.
* *Dashboard*: what is shown belongs to the page number and the range that are shown, and no control stays disabled.

The hazards of the code are listed, each at its line and with the properties
that cover it, in `PROJECT.json`.

## 2. The modules

| Module | Models |
|---|---|
| `AuditLog` | what the recorder promises: a log, what of it is kept, what a reset erased |
| `AsyncRecorder`, `MCAsyncRecorder` | the asynchronous recorder and the repository's writes as it sees them; implements `AuditLog` |
| `AsyncRecorderProofs` | its theorems |
| `AuditLogProofs` | what `AuditLog` amounts to for a reader of the trail |
| `RefinementProofs` | that `AsyncRecorder` implements `AuditLog`, and so inherits its theorems |
| `RateLimiter`, `MCRateLimiter` | the limiter |
| `RateLimiterProofs` | its theorems |
| `Gateway`, `MCGateway` | router, handlers, policy, upstreams |
| `GatewayProofs` | its theorems |
| `Repository`, `MCRepository` | the tables under the synchronous recorder, the worker's transactions, resets and the pruner; `List` and `Metrics` behind the admin API |
| `RepositoryProofs` | its theorems |
| `Config` | which environments `Load` accepts and with which values |
| `Lifecycle`, `MCLifecycle` | `main.go` with `Open` and `Migrate`, crashes and restarts; extends `Config` |
| `LifecycleProofs` | its theorems |
| `Dashboard`, `MCDashboard` | the async functions of `App.svelte` and the answers of the admin API |
| `DashboardProofs` | its theorems |

### AsyncRecorder

A process per call of `Record` (`Calls`), of `Flush` or `Reset` (`Flushers`, of which
`Resetters` are resets), of `Close` (`Closers`), and the worker. A step ends where
another goroutine can be observed: a channel operation, an atomic access, a
transaction, a timer.

| Variables | Code |
|---|---|
| `closed`, `items`, `closeCh`, `doneCh` | `r.closed` and the channels; `flushCh` is unbuffered and becomes the joint step `TakeFlush` |
| `record`, `item` | the local state of a call of `Record`; `item` is the policy's decision |
| `events`, `rollups` | the two slices of `run`, as sets of calls (a call sends one item) |
| `worker`, `attempt`, `serving` | the program counter of `run`, `flushWithRetry`, `flushOnce`, and whom the flush answers |
| `flush`, `reply`, `close`, `ctxDone` | callers of `Flush`, `Reset`, `Close`, the buffered `req.done`, a passed deadline |
| `stats` | the counters that `Record` maintains |
| `rows`, `counts`, `markers` | the tables as the recorder sees them |
| `log`, `before`, `wiped` | history only: what was sent, what had been sent when a client called, what a reset deleted |

`Record` is `RecordClosed`, `RecordPrepareFails`, `RecordSkipped`, `RecordDecided`, then
`EnqueueFast`, `EnqueueFull`, and for an item that waits `EnqueueSlow`,
`EnqueueTimeout`, `EnqueueCtxDone`. The worker's `select` is `ReceiveItem`, `Tick`,
`TakeFlush`, `TakeClose`; its loops are `DrainItem`, `DrainDone`, and an attempt to write
is `AppendSucceeds` or `AppendFails` followed by `BackoffElapsed` or `BackoffCtxDone`.
With `Atomic` the repository implements `AppendAuditBatch`; without it rows and
rollups are two writes. `AppendFails` may have taken effect, no more often per
rollup than `AmbiguousLimit`; rows are protected by their ID, rollups are not.

### RateLimiter

`Stamp` reads the clock; `OpenWindow`, `CountRequest` and `Deny` are what `allow` does
under the lock, pruning included; `Tick` is time. `entries` is the map, with the zero
entry for a key that is absent. `countedIn` and `decidedAt` are history.
A limiter that is disabled lets everything pass and is not modelled.
The model assumes that a request waits for the lock no longer than a window
(`MaxDelay <= Window`). The lock is held for a walk over a map, and the default window is a
minute. Without the assumption a request that is held up for longer could find its window
forgotten by the pruning, and the statements about windows would be false.

### Gateway

A request arrives with a route, the faults that `ExchangeHandler.Handle` would find in it,
and a Turnstile token. `at[r]` is how far it has come; `Limited`, `Admitted` and `Preflight` are
the middlewares; `Reject` to `FirebaseFails` are the body of the exchange handler, one step per
upstream event; `VerifyDenied` and `VerifyAllowed` that of the verify handler;
`Summary` the deferred call. `Decide`, `decideSummary` and `decideStep` are the policy: operators
that return the set of decisions that sampling allows. `trail[r]` is what was recorded with the decision.
Siteverify is external: it accepts a token at most once, may refuse any,
and may accept one after the caller has given up (`TurnstileFails` leaves `answer` as
it is). The OAuth token source is external as well: `holder` has its lock.
A `VERIFY_FAILURE_STATUS` of 1xx, which `config.go` accepts, is excluded: net/http sends it ahead of a 200, and the model has one answer per request.
The verdict of the limiter is an input, because `RateLimiter` says when it is which;
what becomes of a recorded event is `AsyncRecorder`, whose `Decisions` are those of this policy that keep something.

### Repository

`rows`, `nextSeq` and `rollups` are the two tables; a step is a statement or a transaction. `Record` is what both
recorders begin with. `Append(C)` is a transaction for the calls in `C`: a batch of the worker, or a single call of
`SyncRecorder`; without `AppendAuditBatch` (`atomic`) `SyncRecorder` writes `AppendRollupFirst` and then `AppendRowThen`, and
`WriteFails` may come at either. `Reset` and `PruneRetention` are one transaction each.
`walk` is a client of the admin API that turns pages until the answer names no next one: `ListTotal` is the count, `ListPage` the page and what
`auditEvents` answers, by cursor, or by offset as older callers do. `metrics` is a request for metrics: `MetricsSummary`, then
`MetricsPoints`, or `MetricsPanics` for a bucket below a second. A position in `List`'s order is a time and a sequence number (`Before`).
Time is in half seconds; a filter is a range and the set of kinds of event it admits; a rollup's key is its minute and kind.
`kept`, `seen`, `grown`, `shrunk`, `cutoff` and `torn` are history.

### Config and Lifecycle

`Config` has one operator per parser of `config.go`; an environment gives every variable blank, a number or a word. Lists of
origins and users, names and paths that `Load` takes as they are, are left out.
`Lifecycle` follows `run`: `phase` is where it is, and every call that may fail is a step that may instead be `Fails`, a
return from `run` whose deferred call closes the store. `InspectTable` to `CreateNext` are `Migrate`, one statement a step; `objects`
and `legacy` are the schema, `rows` the rows with their age. `Crash` may come anywhere; `Restart` starts again on the same database and
environment. The recorder is seen from outside: an event is accepted or dropped (`Recorded`), queued until the worker writes it (`WorkerWrites`),
and `CloseDone` needs an empty queue. That is what `AsyncRecorder` says of `Close`: a nil answer means that what was sent before it was written (`CloseCovers`).
No request sends during `Close`, since `Shutdown` has then returned nil; this is the composition that `CleanExit` rests on.

### Dashboard

A task is a call of an async function of `App.svelte`. `task[t].at` is the request it waits for; what runs between two awaits
is one step, and everything after an answer is `Continue`. `Serve` is the admin API: an answer, or an error before or after the work was done.
A cursor is the number of pages walked to it, and a page has the cursor it was asked with. `walked` and `charted` are history: they
become false when a load fails or starts while another is waiting.

## 3. The runs

| Run | Checks | Instance, distinct states |
|---|---|---|
| `reset` | type, `NothingLost`, `RollupCountedOnce`, `TrailAndMetricsAgree`, `Accounting`, refinement of `AuditLog` | 3 records, 1 reset, channel of 1, batch of 3, 2 attempts; 46 000 |
| `split_writes` | `CloseCovers`, `FlushCovers`, `ResetErases` | 2 records, a reset with its flush, 2 closes, two separate writes, one ambiguous commit; 3 500 000 |
| `liveness` | `FlushAnswered`, `CloseReturns`, `WorkerStops`, `EventuallyKept` | 1 record, a flush, 2 closes, two separate writes; 27 000 |
| `rate_limiter` | all properties of `RateLimiter` | 4 requests, 2 keys, window 2, limit 2, delay 2, time 6; 848 000 |
| `gateway` | all properties of `Gateway` but `TimeoutEndsExchange` | 2 requests, 2 tokens, 2 configurations; 334 000 |
| `repository` | all properties of `Repository` | 2 records, 1 reset, 3 moments, pages of 1 and 2, one reader at a time; 1 900 000 |
| `lifecycle` | the properties of `Lifecycle` but its type and `ShutdownDrains` | 2 requests, 2 starts, about 700 environments, every database; 150 000 |
| `dashboard` | all properties of `Dashboard` | 3 tasks, 2 ranges, up to 3 pages; 509 000 |
| `batch_limit`, `normal_drop`, `gateway_timeout`, `shutdown_drains` | statements of the documentation that do not hold, section 6 | |

**Why the bounds are enough.** A recorder's steps concern an item, its batch and one
client at a time, so two or three items show every overlap of an item on the channel with one in the
slices and one in the repository. A channel of one is full as soon as a second call
comes. Two attempts give a failed one that is retried and a last one that gives up.
A batch of 2 is due in the middle of traffic and is exceeded by an item with two parts; a
batch of 3 is filled by the second item. Three calls with a reset let one be written before it, one
be in the slices, and one arrive after it. Two closes are what it takes for one to steal the
other's result. For the limiter, six ticks hold three windows of length two and four requests fill one
window and open the next, with a delay of a whole window as the extreme; two keys let
the window of one prune the other. For the gateway two requests are what it takes to share a token or to wait for
the lock, and two tokens what it takes for both to reach it; the two configurations have two modes, every kind
of rate, and a failure status that is a redirect. Summary mode is not in the run; the theorems of `GatewayProofs` hold for every configuration.
For the repository, two of the three moments lie in one minute and the third a day later, so that a retention of a day prunes one and not the
other; two records and a reset's marker fill three pages of one row; the queries have buckets of half a second, of one and a half, of a minute, and by default. A page size of 3 is above the model's upper limit of 2.
For the life cycle an environment differs from a working one, with mock upstreams or without, in one variable, each with values on both sides of its bounds; a second start sees everything the first may leave.
In the dashboard three tasks let two loads overlap and a third follow; with three pages going back can drop two cursors.

**Deadlock** is not checked: in every instance the calls are finite in number and the system rests when all have returned, or when the process is down and has no start left.

## 4. Fairness

*Recorder.* Go runs a goroutine that can run, so its steps are weakly fair. `select` chooses at random
among the cases that are ready, so one that is ready again and again is taken with
probability one: `ReceiveItem`, `Tick`, `TakeFlush` and `TakeClose` are strongly fair. Timers and deadlines
fire (`EnqueueTimeout`, `BackoffElapsed`, `DeadlinePasses`; `Close` gives a deadline to a context
without one). Writes end, well or badly. Callers need not call and their contexts need not
end. `EventuallyKept` is promised under `Recovers`, that writes that are tried again and again sometimes succeed; without that
`EventuallyKept` is false, as it should be. A worker that has exited is excluded from `EventuallyKept`: a final
flush that fails leaves its batch in memory only.

*Gateway.* A handler that can go on does. The timeout passes, and a call that runs under
an ended context fails. The lock of the token source is Go's mutex, which hands over to a waiter that has
starved for a millisecond: taking it is strongly fair. Nothing is assumed of the services in `FairSpec`.
`AnsweringSpec` adds that a fetch of the OAuth token ends, and only `Answered` needs it; `gateway_timeout` shows that it is needed.

*Life cycle.* The ten seconds of `Shutdown` and the timeout of the recorder's `Close` end: one of its two outcomes comes. A process whose `run`
has returned exits. The ticker of the pruner ticks, a prune ends, and one that is tried again and again succeeds
sometimes (strong fairness of `Pruned`; only `RetentionEnforced` needs it). Nothing is assumed of the start, of requests, or of the worker.

*Dashboard.* The network answers or refuses every request, and the browser runs what follows an answer. Nothing is assumed of the user.
A fetch that neither answers nor fails would keep its controls disabled: `App.svelte` sets no timeout.

## 5. What is proved

All proofs are for arbitrary constants under the assumptions named in the modules.
`RecorderAssumption` says that sizes and attempts are positive (`config.go` refuses others), that clients have one role,
and that an enqueued item carries something. `RepositoryAssumption` says that the limits are positive, the kinds that are counted finite in number and
apart from the others, the calls finite in number, and that no event carries the zero time. `LifecycleAssumption` says that the sets of rows are finite and disjoint. `RateLimiterAssumption` says that window and limit are positive and that
`MaxDelay` is at most a window.

**AsyncRecorderProofs.** `TypeCorrect` is inductive by itself. The others
follow from one inductive invariant `IInv`, because none of them is inductive alone:

* `NothingLost` itself, which needs types to know that a written slice is the one that is emptied;
* `Provenance`: whatever is on the channel, in the slices or in the tables was accepted, so that a reset
  has a complete list of places an old item may be in;
* `FlushProgress`, `CloseProgress`: past the drain, nothing sent before the call that is served is left on the channel; after a nil answer
  nothing of it is left in the slices either, and it never comes back there. With `NothingLost` this says that all of it was written;
* `Erasure`, which is `ResetErases`: with the previous one, deleting the tables deletes everything that preceded the reset and no later write brings it back;
* `WorkerPhase`: nobody is served while the worker selects, and rollups are written on their own only after their events.

From it: `NeverLost` (`NothingLost`), `FlushIsABarrier` (`FlushCovers`), `CloseIsABarrier` (`CloseCovers`),
`ResetIsFinal` (`ResetErases`).

A second invariant, `JInv`, is about the two parts of an item: `OnChannelOnce` (while a call is on the channel no part of it is anywhere else),
`PartsTogether` (with an atomic repository the slices hold both parts or neither, and so do the tables) and `NotYetCounted` (without ambiguous commits a
rollup in the slice has not been added, nor is one added again that a reset deleted). From it:
`CountedAtMostOnce` (`RollupCountedOnce`) and `TrailAgreesWithMetrics` (`TrailAndMetricsAgree`). `CountersAccount` (`Accounting`) is
inductive together with the finiteness of the sets it counts: a call that ends moves from one of them to another once.

A third invariant, `HInv`, is about the handshakes: `Served` (whoever the worker took from `flushCh` is served or answered, one at a time), `OneClose` (only the
first `Close` ever goes through `closeCh`) and `OneResult` (the worker sends one result, which waits or was read). From it: `WorkerNeverBlocks` (each send on a buffered channel
finds it empty, so that the worker and the `Close` that holds `closeMux` do not block), `WaitersAreServed` (whoever waits has an answer or one who will give it) and
`ResultReadOnce`. They are what the liveness properties of the recorder rest on, without the fairness: nobody waits for something that can no longer come, with one exception, which
`WaitersAreServed` leaves open and which the code has: a `Close` that finds its result read by another waits for its deadline. `BatchExceedsByOne` is what does hold of `AUDIT_BATCH_SIZE`:
a flush begun by an item, or by the timer, on slices that were not yet due exceeds it by one at most. Only drains and batches that failed go further (`batch_limit`).

**RefinementProofs.** `RecorderImplementsAuditLog`: every step of `AsyncRecorder` is a step of `AuditLog` or none, when `kept` is what is in the tables with all that it carries
(`InTrail`) and `erased` what a reset has deleted a part of (`Deleted`). The steps are first sorted into five kinds: one sends, takes, writes, deletes, or leaves all of that
alone. Beside `IInv` and `JInv` the argument needs `KInv`: `Carried` (a call that is past its decision carries something, and only what it carries is written) and `Fifo` (the channel is the
end of the log, and no call is on the log twice). That an atomic repository leaves no gap follows: what precedes an item of the written slice on the log is not on the channel, so by
`NothingLost` it is in the slices too or was written before, and by `PartsTogether` it is written with the same step. Without `AppendAuditBatch` a reset may fall
between the two writes of a batch and meet half of a call that another reset has already deleted the other half of; therefore `Erase(S)` may name calls that were erased before, unless the log is `InOrder`.

**AuditLogProofs** says what the promise is worth: in a log that is `InOrder` what is kept or erased is a prefix of what was accepted (`TrailHasNoGap`), and what is kept goes only all at once
(`TrailStaysKept`). The refinement carries both over to the recorder, where the theorems of the same names in `RefinementProofs` state them of its tables: with `AppendAuditBatch` no event
is in the trail while an earlier one is missing (`TrailInOrder`), and what a reader has seen there stays until a reset (`TrailGoesAtOnce`). Both would be awkward to prove of the recorder directly.

**RateLimiterProofs.** `IInv` joins the type invariant with `Stamps` (a request that waits read the clock at most `MaxDelay` ago;
one that was admitted was decided within that delay, and counted in a window that had begun and not expired), `EntriesCount` (an entry's count is the number of requests its window
has admitted) and `LatestWindow` (an entry is the newest window of its key, and when the entry is absent every
window of the key began more than two windows before the present, so that no waiting request can fall into one: this is where pruning after *two* windows and `MaxDelay <= Window` meet).
From it: `TypeCorrect`, `WindowsLimit` (`AtMostPerWindow`), `WindowsDisjoint` (`WindowsApart`), `DenialsJustified`
(`DeniedOnlyWhenBusy`), `EntriesRecent` (`MemoryBounded`). `BurstsBounded` (`BurstBound`) needs no further invariant: the starts of the windows that
admit requests decided within a stretch of one window lie within three window lengths (two without delay), and
windows that are apart have at most one start in each half-open interval of one length.

**GatewayProofs.** `GatewayAssumption` says what configurations are. `IInv` is local to each request, but for `AcceptedOnce` (no two
requests have had one token accepted), which follows from Siteverify's `redeemed`. The local parts follow a request through its phases:
`Progress` (it calls upstreams only without a fault, Firebase only after an acceptance), `Evidence` (its trail shows the steps it has passed, and a 200
comes with both), `Counting` (nothing is counted until the summary or the limiter's denial, then one event) and `OnTrail` (what the answer says
failed is on the trail, persisted). Three lemmas say what the policy decides for steps, denials and summaries; `RecordOne` and `RecordAdds` what
recording adds; `Frame` that a step of one request leaves the others alone. From it: `NothingUnverified` (`IssuedOnlyToVerified`), `OneIssue` (`OneIssuePerToken`),
`EveryRequestCounted` (`CountedOnce`), `FailuresKept` (`FailuresOnTrail`), for every configuration and any number of requests.

Two more invariants stand beside `IInv`. `LockIsFetch` (the lock is held exactly by the request that fetches) gives `LockNeverLeft`: one fetch at a time, and no way in which a fetch
ends leaves the lock held. With fairness and a fetch that ends, this is `Answered`. `EndedFails` (a request whose context has ended is still
among its upstream calls, or it is over and its answer was 502) gives `EndedGetsNo`: the end of a context is not lost between two upstream calls.

**LifecycleProofs.** `IInv` joins the type invariant with `Stages` (in which phases a request may run, or an event be queued), `Migrated` (after `created`
statements the first `created` objects exist, and past the migration all do), `LegacyUntouched` (nothing has been written while the database is
of the earlier schema) and `SettledFresh` (`RowsSurvive` is not inductive: a prune spares a settled row because it is fresh). It holds for every environment, whatever `Accepts` says, and
any number of starts. From it: `ServesOnSchemaHolds`, `RowsSurviveHolds`, `CleanExitHolds`, `TypeCorrect`. `LoadedIsSoundHolds` (`LoadedIsSound`) needs no invariant: `Accepts` implies
`Sound` for whatever values the variables have, defaults included, where the run tries the chosen environments only. `NothingIsForgotten` is an action property: an accepted event leaves
the queue by being written, or with a process that crashes or exits with an error, and one that is written stays until it expires. `CleanExit` looks at the end of a process only; this says how every event comes to it.

**RepositoryProofs.** The first part is about the order of `List` and its slices alone: `AheadIsNested` and `RankGrows` number the rows of a finite table,
`LeftOutComesAfter` says that a row that a page leaves out comes after all that it shows, and `NoNextPage` that a page is the last when the one row
more that was asked for did not come (by well-founded induction on the rows ahead of one that would be missing). `IInv` then joins

* `Stored` and `Writing`: sequence numbers are unique and below the next one, an event counts exactly if its kind does, and only without `AppendAuditBatch`
  is a call between two writes;
* `Walking` and `ByCursor`: what was shown lies up to the cursor, what is kept and not yet shown lies beyond it. `NoRowTwice` and `WalkComplete` are not
  inductive without, since they say nothing of where the next page begins;
* `ByOffset`: at least as many rows as the offset are ahead of each that is not yet shown, and the total is the number of rows that match;
* `Covered`: a rollup is at least the number of its rows *and* of the calls that have counted and whose row is still to come;
* `Measuring`: between its two statements a request for metrics has summed no more than there is now if the rollups only grew, and no less if they only shrank. `MetricsAddUp`, which
  compares the two answers when both are there, is not inductive without.

`Sum` is the number of pairs of a key and a number from 1 to its count, so that no recursion stands between the model and the proof: a sum over more keys, or over larger counts, is the
cardinality of a larger set (`SumOfSubset`, `SumFollows`). That the points add up to what the summary says needs besides that each minute of the range falls into one bucket that
is shown: `BucketHolds` and `EveryBucketShown`, from the rounding of `\div`.

From it: `CursorNeverRepeats` (`NoRowTwice`), `CursorMissesNothing` (`WalkComplete`), `OffsetMissesNothing` (`LegacyWalkComplete`), `CountersKeepUp`
(`RowsAreCounted`), `RepositoryType` (`TypeOK`), `MetricsAgree` (`MetricsAddUp`), for every number of calls, all times and filters, page sizes and buckets of any value.
`NothingOvercounted` is the other side of `CountersKeepUp`: the rollups of any keys sum up to no more than the calls that came to their upsert. A transaction adds at most one number per call, and the calls
it is for had not come to their upsert before: the new numbers are the image of those calls (`UpsertAdds`), and pruning and resets only take numbers away.

**DashboardProofs.** `StackIsWalk` is almost inductive; `RowsMatchPage` is not, since it says nothing while a load is under way. `IInv` joins types (an answer is
to what its request asked, a page's next cursor is one further than its own), `StackIsWalk`, `WalkSound` (as long as `walked` holds, at most one load of the trail is under way,
it asked for the page in the heading, and its answer is not older than the last reset that is known) and `ChartSound`, the same for the chart. `WalkFrame` and `ChartFrame` say that steps
which start or end no such load keep them, `LoadsPage` and `LoadsChart` that `loadAudit` and `loadMetrics` do. From it: `StackHolds` (`StackIsWalk`), `RowsMatch` (`RowsMatchPage`), for
any number of calls and pages. `FlagsFall` follows from `Caused`, which gives each flag that disables controls the call that set it and whose `finally` takes it down: `auditLoading` and `metricsLoading` have a
request in flight, `loading` a call that reloads, `resetting` exactly the one reset. Nothing is disabled when every call is over, which is what `ControlsReturn` needs beside fairness.

**Only model-checked.** Liveness: `FlushAnswered`, `CloseReturns`, `WorkerStops`, `EventuallyKept`, `Answered`, `SignalEndsProcess`, `RetentionEnforced` and `ControlsReturn`. They follow from fairness, hence
from when actions are enabled, which the prover has no rules for. What can be said of them without fairness is proved: `WorkerNeverBlocks`, `WaitersAreServed`, `LockNeverLeft`, `FlagsFall`.
Every other property of a run that passes has a theorem.

## 6. What the documentation says and the code does not

* `README.md:182`, `AUDIT_BATCH_SIZE` is "max events/rollups per flush". `run` compares the sizes after it has added an item
  that may carry two parts, and keeps a failed batch while it takes more items: a flush may be larger (`batch_limit`); by how much is `BatchExceedsByOne`.
* `README.md:185`, `AUDIT_DROP_ON_FULL`: "drop best-effort events when the queue is full". Normal events are dropped as well, at once,
  without the timeout that `README.md:186` gives them (`normal_drop`).
* `README.md:153`, `REQUEST_TIMEOUT` is the "external request timeout". The OAuth token is fetched
  through `tokenSource.Token()`, which has no context and uses an HTTP client without that timeout: a fetch that hangs outlives the
  timeout of its request and, by the lock, holds up the others (`gateway_timeout`).
* `README.md:226`: "Shutdown drains the queue with `AUDIT_SHUTDOWN_FLUSH_TIMEOUT`". When a request still runs after ten seconds, `Shutdown` returns an
  error and `run` returns with it before it comes to the recorder's `Close`: what is queued is lost (`shutdown_drains`).

## 7. What is not modelled

* *Conversions.* Sanitising and truncation of events, JSON, JWT and base64, the encoding of cursors, the texts of answers: they keep no
  state, and no property is about them.
* *Panics* in handlers and the recovery middleware. The panics of a bucket below a second and of colliding routes are modelled as the failures they end in.
* *Queries that change nothing and take one statement* (`Get`, `Summary`), and the flush counters of `RecorderStats`.
* *Events of administrators and of the system* beyond the startup event: the policy always persists them, and to the recorder they are items like others.
* *A disabled limiter*, which lets everything pass.
* *The access check of the admin API*, a comparison of headers; to the dashboard it is an answer of 401 or 403.
* *Several processes on one database.* `README.md:202` gives each its own counters for the limiter, and says nothing of concurrent migrations;
  two that migrate a legacy database at once may drop a table that the other has just created.
* *What an upstream does* beyond what the clients can observe.
* *Names and looks*: filter fields, theme, sidebar and dialogs of the dashboard, health, version, logging, embedded files, chart and scripts.
