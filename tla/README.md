# A verification of hub-router in TLA+

hub-router is an in-memory broker between *online* HTTP clients, which submit
requests and wait for results, and *local* servers (workers), which pull
batches of requests and push results. Nothing is persisted: the state is one
set of bounded queues and one result store in the process. This directory holds
TLA+ models of the hub, of the middleware in front of it, of the process that
runs it and of the clients that use it, the TLC configurations that check them
on small instances, and proofs, checked by TLAPS, of what holds for every
instance.

To check a module with TLC, run `MC<Module>` with `<Module>.cfg`
(`tlc -config HubRouter.cfg MCHubRouter`); to check a module of proofs, run
`tlapm` on `<Module>Proofs.tla`.

## 1. The system

| Component | State | Operations | Interacts with |
|---|---|---|---|
| Per-key queues, `internal/queue` | a map from key to `MemoryQueue`; per queue a buffered channel and four atomic counters | `Enqueue`, `Dequeue` (drops expired requests), `getOrCreate`, `Len`, `TotalLen`, `StatsAll` | called by the handlers, concurrently |
| Result store, `internal/store` | maps `results`, `pending`, `waiters` under one mutex; one one-slot channel per waiting poll | `RegisterPending`, `Put`, `Get` (long poll), `Delete`, sweep of expired results | called by the handlers; a sweeper goroutine |
| Online handlers, `internal/handler/online.go` | where each HTTP request is | `HandleSubmit` (202 with an ID), `HandleSync` (waits, 200 or 202), `HandleResult` (long poll: 200, 204, 404) | queues and store |
| Local handlers, `internal/handler/local.go` | none | `HandlePull` (never blocks), `HandleResult` | queues and store |
| Admin handlers | none | health, stats, metrics | read queues, store, limiters |
| Auth and lockout, `internal/middleware/auth.go`, `lockout.go` | per-IP records of failures, each with its own lock, in a locked map | `Wrap`, `IsLocked`, `UnlockIn`, `RecordFailure`, `RecordSuccess`, `Stats`, a cleanup goroutine | runs before the handlers |
| Rate limiter, `internal/middleware/ratelimit.go` | per-IP token buckets, each with its own lock, in a locked map | `Allow`, `RetryAfterSeconds`, `Stats`, a cleanup goroutine | runs before the handlers |
| Body limit, recovery, logging, headers | none | wrap a handler | the chain in `internal/server` |
| Server, `internal/server`, `cmd` | the HTTP server and the goroutines of store, lockout and limiter | `New`, `Run`, graceful shutdown | owns all of the above |
| Configuration, `internal/config` | values read once | `Load` | numbers reach `make`, tickers and deadlines |
| Dashboard, `internal/tui` | the stats shown, the history of depths, the last total | `Update` on ticks, keys and fetched stats | `GET /debug/stats` |
| Clients: `pkg/client`, `sdks/go`, `sdks/node`, `sdks/python` | worker: semaphore, in-flight requests; client: ID being polled | `Run`, `PullBatch`, `PushResult`; `Submit`, `WaitResult`, `Do`, `DoSync` | HTTP |

What makes each correct, and what is hard about it:

* **Queues.** Per-key FIFO order, nothing lost, duplicated or mixed between
  keys, refusal only when full. Hard: calls that race to create the queue of a
  new key; counters updated after the channel operation they count; expired
  requests met inside the batch loop.
* **Store.** An accepted result reaches a poll or is discarded for a reason; no
  lost wakeup; waiters do not leak. Hard: `Put` signals outside the mutex, `Get`
  registers, looks again, waits and cleans up in four separate steps, the
  deadline races with the signal, two polls of one ID share one map entry, and
  the sweep runs at any time.
* **Handlers.** A 404 or a 500 is never given for a request in progress; a
  refused request leaves no trace; every submission is answered. Hard: the two
  submit handlers register and enqueue in opposite orders, workers act in
  between, requests and results expire, responses to workers are lost, workers
  die, pushes are repeated.
* **Lockout and rate limiter.** Nobody is locked or limited without a cause of
  their own, and what was counted is not forgotten. Hard: a record is found
  under one lock and used under another while a cleanup deletes it; what was
  checked before a request is stale when its outcome is recorded; time.
* **Workers.** What is pulled is processed once, within the limit, before the
  loop returns. Hard: stopping in the middle of a batch, cancelled contexts,
  backpressure, pulls that fail or whose answer is lost.
* **Online client.** What a call returns fits what happened to its request.
  Hard: lost requests and answers, retries, results that expire between polls.
* **Server.** Shutdown ends in bounded time, cuts nothing short before the grace
  period is over and reports what it did. Hard: long polls outlast the shutdown
  timeout, deadlines start at different moments, panics on other goroutines.
* **Dashboard.** It shows what the server holds. Hard: fetches overlap, come
  back in any order, fail, or come back from another run of the server.

`PROJECT.json` lists each of these hazards at its line.

## 2. Modules

| Module | Role |
|---|---|
| `MemoryStore` | `internal/store/memory.go`, one action per section of `s.mu` or channel operation |
| `FifoQueues` | abstract: one bounded FIFO per key |
| `KeyedQueue` | `internal/queue/keyed.go` and `memory.go`, one action per lock section, channel operation or counter update; `Fifo` is its refinement mapping |
| `Broker` | abstract: the life of a request as clients and workers see it |
| `HubRouter` | the handlers of `internal/handler` over `MemoryStore`, which it extends, and an instance of `FifoQueues`; `Hub` is its refinement mapping to `Broker`. Its own definitions of those names are `HubInit`, `HubNext`, `HubSpec`, ... |
| `AuthLockout` | `internal/middleware/lockout.go` with the `Wrap` of `auth.go`, one action per section of `al.mu` or of the lock of a record |
| `RateLimiter` | `internal/middleware/ratelimit.go` in the same way, tokens as integers |
| `Server` | `cmd/hub-router/main.go`, `internal/config`, `internal/server`: start, deadlines, signal, shutdown |
| `WorkerPool` | abstract: what a worker promises for the requests it takes |
| `LocalClient` | the worker of the Go library, `pkg/client/local.go` |
| `NodeWorker`, `PythonWorker` | the workers of the two SDKs |
| `Fleet` | a Node and a Python worker that pull from one queue |
| `OnlineClient` | the online side of the Go library, `pkg/client/online.go`, over `Broker` |
| `Dashboard` | `internal/tui/tui.go` and the server it watches |
| `MC...` | one instance of a module for TLC (two for `AuthLockout`) |
| `...Proofs` | inductive invariants and theorems of a module; `HubRouterProofs` is about the store and the hub, `ClientProofs` about `LocalClient` and `OnlineClient` |

```
FifoQueues <-- refined by -- KeyedQueue
    ^
    | INSTANCE
HubRouter -- EXTENDS --> MemoryStore
    |
    | refines
    v
  Broker <-- INSTANCE -- OnlineClient

WorkerPool <-- refined by -- LocalClient, NodeWorker, PythonWorker
Fleet -- INSTANCE --> NodeWorker, PythonWorker
AuthLockout     RateLimiter     Server     Dashboard
```

`HubRouter` uses the abstract queues instead of `KeyedQueue`: the theorem
`ImplementsFifo` says that `KeyedQueue` behaves like them, `HubUsesQueues` that the
hub uses them as `FifoQueues` describes, and the composition
stays small enough to check. It uses the detailed store, because the way the
steps of `Get` and `Put` mix with the steps of the handlers is the point. In the
same way `OnlineClient` sees of the hub only what `Broker` allows, which is what
`HubRouter` does (`HubKeepsItsPromises`); what it adds is whether a result is still in the store. The
middleware shares no state with the handlers, so its modules stand alone.

### How state and actions correspond to the code

*Calls are constants.* A handler goroutine calls `Put`, `Get`, `Enqueue`,
`Dequeue`, `Wrap` or `Allow` once, so the models have one element per call:
`Gets`, `Puts`, `Reqs`, `Pulls`. A Get also names the channel it makes and a Put
the result it stores. `getPC`, `putPC`, `pc`, `handler`, `at` and `stage` say where
each call is. TLC is given a few calls; the proofs are for any set of them.

*Objects have an identity.* Two calls that each create a queue for a key create
two different queues; `KeyedQueue` names a queue by the call that made it. In the
same way a failure record and a token bucket are named by the request that made
them, so that a record the cleanup has removed from the map, and a request still
holds, is another than the one made for the same address afterwards. `handle`
is the pointer a call holds.

*A step* is one critical section, one channel operation or one atomic operation;
in the Node and Python workers, which run on one thread, it is what happens
between two awaits.

*Time* is nondeterministic in the store, the queues and the hub: a request or a
stored result may pass its expiry, and a waiting `Get` its deadline, in any state
(`Expire`, `Age`, `GetTimeout`). A client that goes away cancels the same context,
so `GetTimeout` stands for it too. The modules whose properties are about
durations have a clock, `now`, with a bound `MaxTime` that TLC needs and the
proofs do not: ticks of the lockout and the limiter may come at any moment, those
of `Server` wait for the timers that are due. `Dashboard` counts the seconds to
the next tick and the age of each fetch.

*Numbers.* A token of the limiter is `Cost` units and a tick adds `Rate` units, so
that fractions of a token are integers. `Second` is the number of ticks in a
second where the code rounds to seconds (`Retry-After`). `Server` has the
configuration as a record of numbers, where `Unset` stands for a variable that is
missing or does not parse.

*Workers* in `HubRouter` push what they like: `PushResult` stores a result for any
ID that was generated, as `HandleResult` does, whether its request is queued,
lapsed, refused, with another worker or answered before. A lost response or the
death of a worker is a pull that no push follows, and needs no action. In the
worker modules the hub is external: it gives a batch out once.

*History variables*, which the code does not have, are marked as such:
`discarded`, `submitted` and `overlapped` in the store, `lapsed` in the queues,
`ahead`, `lockedUntil` and `failedAt` in the lockout, `drawnAt` and `onMap` in the
limiter, `failed` and `swept` in the online client. A result is `discarded` when it
was overwritten, deleted, or swept after its TTL: a sweep of a fresh one does not
count as a reason, and `NoLostResult` fails of it.

Definitions called "mutant" in the modules are changed forms of the action that
follows them. No specification uses them: each shows that some property fails
when the code has that bug.

## 3. What TLC checks

| Run | Instance | Properties |
|---|---|---|
| `store` | 1 ID, 3 Gets, 2 Puts | `NoLostResult`, `DeliveredAtMostTwice`, `NoStrandedWaiter`, `EveryWaiterWakes` |
| `queue` | 3 Enqueues and 2 Dequeues (of 2 and of 1) on one new key, capacity 2 | `NoStrandedRequest`, `CountersAddUp`, `ImplementsFifoQueues` |
| `hub` | one submission of each kind, 3 Gets, 2 Puts, 1 pull, 1 slot | `RefusedLeavesNoTrace`, `SyncUnknownOnlyIfSwept`, `SyncPendingUnresolved`, `ImplementsBroker`, `SubmissionsAnswered` |
| `lockout` | 3 requests of one address (one with a valid key) and 1 of another, threshold 2, 5 ticks | `LockedAreWatched`, `LockEarned`, `LockOutlivesNewcomers`, `RetryAfterCovers` |
| `limiter` | 3 requests of one client, a burst of 4/3 tokens, 6 ticks | `BucketBound`, `AddressBound`, `RefusedOnlyWhenSpent`, `RetryAfterSuffices` |
| `server` | a poll, a synchronous submission, a pull and a health check, 8 environments, 5 ticks | `PollsAreWritten`, `CutOnlyAfterGrace`, `OnlyUsedNumbersPanic`, `SignalEnds` |
| `go_worker` | 4 requests, batches of 3, 2 slots, lossy network | `NothingLeftBehind`, `ImplementsPool`, `StopsEventually`, `QueuedAreProcessed` |
| `fleet` | 3 requests, batches of 2, 1 slot per worker, lossy network | `NodeStops`, `PythonProcesses`, `QueuedAreServed`, `NodeImplementsPool`, `PythonImplementsPool` |
| `online_client` | one call of `Submit`, `DoSync` or `Do`, 2 `WaitResult`s, `MaxRetries` 1, lossy network | `UnknownMeansLost`, `ExhaustedMeansNotYet`, `EveryCallReturns` |
| `dashboard` | 1 queue, fetches by tick and by key, timeout of 2 intervals, 1 restart, 1 failed fetch | `TypeOK`, `FetchesBounded`, `RateSeenLive`, `CatchesUp` |
| `hub_pending_leak` | the instance of `hub` | `PendingUnresolved` is violated |
| `lockout_lost_failure` | 3 failing requests of one address, threshold 2 | `ThresholdLocks` is violated |

Why the bounds are enough. *Store:* it treats request IDs independently, so all
races are between calls of one ID; with three Gets one can have taken the waiter
entry of another while a third takes the result, and with two Puts a result
overwrites another between the map and the channel. *Queues:* three creators of
one key cover two that race and one that comes late; three requests against a
capacity of two cover empty, partly full and full. Other keys and the default
queue, which is there from the start, are left to the proof, which is for any
assignment of keys. *Hub:* two submissions compete for one slot; the races of a
submission with its worker and its polls need only that submission, one poll,
one push and one pull, and the synchronous one has a poll after its 202 too. *Lockout:* two failures make a lock, a
success races with them, the cleanup has time to run before, between and after,
and the lock to run out and be set again. *Limiter:* a
burst that is no whole number of tokens, three draws and a cleanup that finds
the bucket full and stale. *Server:* one request of each route; the values
are small so that read, poll, write and shutdown deadlines pass each other within
five ticks, and each environment at the edge (a negative size, a zero duration, no
write timeout, a write timeout not above the poll timeout) is one of
its own. *Workers:* more requests than a batch holds and more in a batch than
slots, so that a dispatch waits, a stop comes in the middle of a batch and a
second pull follows. *Online client:* two rounds of two polls tell a round from
the calls before it; calls share nothing, so one stands for all, with the method an
application chose at the start. *Dashboard:*
three fetches at once are the bound, a fourth slot shows that none goes above it.

`queue` uses the symmetry of its three requests, which all have the same
arguments; its properties are invariants and step properties, for which symmetry
is sound. No run with a liveness property uses symmetry.

Deadlock is not checked: every call is made once and every clock is bounded, so a
run that made all of them stops, as the hub does when nobody calls it.

### Fairness

`MemoryStore`: a call that is inside the store goes on (the Go scheduler runs
every runnable goroutine). Nothing is assumed of clients, of time, or of timeouts:
`EveryWaiterWakes` is about the signal alone.

`HubRouter` adds that a handler that runs goes on and that the deadline of a
waiting `Get` comes, as `context.WithTimeout` guarantees. No worker, sweep or
client is relied on, so `SubmissionsAnswered` says that the hub answers even if no
worker ever comes.

`LocalClient`: the scheduler runs the loop and every goroutine, a processor
returns, a call to the hub ends (the HTTP client has a timeout). For
`QueuedAreProcessed` the hub is reached, and answers, infinitely often if it is
tried infinitely often (strong fairness): a hub that is down for ever serves
nobody. `Fleet`: the same for the two event loops while they run; Python's `urlopen` has
no timeout, so that its calls end is an assumption on the network, which the code
does not enforce. Only the pulls of the Node worker are strongly fair, since the Python
worker ends with its first failed pull. Nothing keeps Python's event loop alive:
under `asyncio.run(main())`, as `docs/sdk-python.md:330-335` has it, the error that
leaves `run` ends the loop, which cancels every task that is left (`LoopEnds`, possible
in any state and never required), and the task of `run` itself may be cancelled
(`CancelRun`), which cancels what it gathers. A cancelled task asks nothing of
fairness any more: its request is "cancelled", for good, and the properties say so.

`Server`: time passes, timers fire, `Shutdown` polls. No body and no result is
assumed to come. `OnlineClient`: the client goes on, and the hub ends every handler it
runs (what `SubmissionsAnswered` shows of it); no worker is assumed, the network
need not fail, and the application need not call again.

`Dashboard`: time passes and the program handles its messages. `CatchesUp` also
needs that of the fetches that are made again and again some are answered and
handled (strong fairness). That is an assumption on the network.

### Disagreements between the code and what is said of it

Two runs show behaviours that a sentence of the repository excludes:

* `hub_pending_leak`: `HandleSubmit` enqueues (`online.go:63`) before it registers
  (`online.go:72`). A worker that answers in between leaves the ID pending for ever, against
  the comment at `memory.go:26`; after the delivery, polls are told 204 instead
  of 404, and the entry is never freed. `SyncPendingUnresolved` is what remains.
* `lockout_lost_failure`: a record that was never written is stale to the cleanup
  (`lockout.go:238`), which deletes it between its creation and the failure it was made
  for. The failure is counted where nobody reads it, and the threshold passes
  without the lock `lockout.go:25-27` promises.

More were met while modelling. They are not runs; where a checked property has an
exception, the exception is the disagreement:

| Where | The code | What is said | Seen in |
|---|---|---|---|
| `store/memory.go:100`, `105` | a second poll replaces the waiter of the first, and the first to return deletes the entry of the other, so a poll can sleep to its timeout beside its result | `docs/architecture.md:123-124`: all waiters are signalled | `overlapped` in `NoStrandedWaiter` and `EveryWaiterWakes` |
| `store/memory.go:121` | a result handed over by channel stays in the map, and another poll returns it again | `docs/api-reference.md:473`: 404 for a result already delivered | `DeliveredAtMostTwice`, not once |
| `queue/memory.go:45` | a request dropped as expired leaves its ID pending: its polls are answered 204 for ever | `docs/configuration.md:53`: 404 | `Broker` allows both answers for a request whose TTL is over, so a hub that follows the docs keeps it too |
| `handler/local.go:74` | a result pushed after the TTL of its request is stored | `docs/api-reference.md:272`: it is discarded, with 404 | `PushResult` has no guard; `Resolve` of `Broker` neither |
| `lockout.go:173` | a request that passed the check before the lock was set clears it with its success | `lockout.go:25-27`: all requests are rejected until the lock has run out | `ahead` in `LockOutlivesNewcomers` |
| `lockout.go:74` | every failure moves the window, so it bounds the gap between failures | `docs/configuration.md:75`: older failures are not counted | `(Threshold - 1) * WindowDuration` in `LockEarned` |
| `ratelimit.go:50`, `165` | the cleanup removes a bucket between its lookup and its use, and the next request has a full one | `docs/configuration.md:72`: the burst is what an address can send at once | `onMap` in `AddressBound` |
| `ratelimit.go:130` | `Stats` does not refill: an address that fell silent counts as throttled | `ratelimit.go:120`: currently being rate-limited | not modelled further |
| `local.go:106` | a result is pushed with the context of the loop: after a cancel the push fails at once | `local.go:19`: an error is pushed | `PushFails` when `cancelled` |
| `online.go:99` in `pkg/client` | `MaxRetries + 1` polls | `online.go:92-93`: `MaxRetries` answers of 204 | `ExhaustedMeansNotYet` asks for the documented number, at least |
| `handler/online.go:194`, `211` | the result leaves the store before its answer is written: a lost answer loses it | `docs/configuration.md:63`: held until purged | `failed` in `UnknownMeansLost` |
| `server.go:150` | a long poll (30 s) outlasts the shutdown (15 s): exit code 1, cleanup goroutines not stopped | `docs/deployment.md:254`: exits cleanly | `exit = "1"` in `CutOnlyAfterGrace` |
| `config.go:85` | the write deadline runs from the headers, the wait of `POST /request/sync` from the end of its body | `docs/configuration.md:33`: the long poll is inside the window | `PollsAreWritten` holds of `GET /result` only |
| `server.go:89` | `GET /health` needs the admin key when one is set | `docs/api-reference.md:346`: no authentication | `Serve` answers 401 |
| `hub-router.ts:486` | a stop in the middle of a batch drops the rest of it | `hub-router.ts:499`: stops after the current batch | `quit` in `WorkerPool`: a worker that was stopped may give up what it has |
| `hub_router.py:464` | a failed pull ends `run`, and under `asyncio.run` the event loop, which cancels the tasks of requests already pulled: they never get a result | `hub_router.py:455`: blocks until it is stopped or its task is cancelled | "raised" is not "returned" in `PythonImplementsPool`; "cancelled" in `PythonProcesses` and `QueuedAreServed` |
| `tui.go:168`, `184` | an answer that was overtaken is applied last; the rate is a difference, whatever time lies between | `docs/observability.md:64`, `69` | `RateSeenLive` bounds the rate by what came, not by a second |

## 4. What is proved

TLC checks a small instance. The theorems below are for any sets of calls,
keys, addresses and requests and for any size, rate and duration that the
`ASSUME` of the module allows. Each `...Proofs` module states an inductive
invariant, shows that `Init` implies it and that every action keeps it, one
lemma or step per action, and derives its theorems from it.

| Module | Theorem | States |
|---|---|---|
| `HubRouterProofs` | `StoreInvariant` | the inductive invariant of the store |
| | `TypeInvariant`, `WaitersInFlight` | the types; the waiter of an ID is a Get that waits or is about to clean up |
| | `ResultsNeverLost` | `NoLostResult` |
| | `DeliveriesBounded` | `DeliveredAtMostTwice` |
| | `SoloPollsAreSignalled` | `NoStrandedWaiter`: a poll that no other poll of its ID overlaps misses no signal |
| | `AnswersMatchIDs` | a Get returns results of its own ID only, and has an answer once past its select |
| | `HubUsesStore`, `HubUsesQueues` | every behaviour of the hub is one of `MemoryStore` and one of `FifoQueues` |
| | `StoreInHub` | so the theorems of the store hold in the hub |
| | `HubInvariant`, `HubTypeCorrect` | where each handler is, and what that says of its request; the types |
| | `RefusalsLeaveNoTrace` | `RefusedLeavesNoTrace` |
| | `SyncPendingUntilResolved` | `SyncPendingUnresolved` |
| | `SyncUnknownMeansSwept` | `SyncUnknownOnlyIfSwept` |
| | `HubKeepsItsPromises` | `ImplementsBroker`, the refinement of `Broker` |
| `KeyedQueueProofs` | `QueueInvariant`, `QueueTypeCorrect` | the call's queue is the queue its key leads to, no two keys share one |
| | `ImplementsFifo` | `ImplementsFifoQueues`, the refinement of the abstract FIFO |
| | `NothingStranded` | `NoStrandedRequest` |
| | `CountersConsistent` | `CountersAddUp` |
| `AuthLockoutProofs` | `LockoutInvariant`, `LockoutTypeCorrect` | the inductive invariant of the records |
| | `StatsConsistent` | `LockedAreWatched` |
| | `NoInnocentLockout` | `LockEarned` |
| | `NewcomersCannotUnlock` | `LockOutlivesNewcomers`, an action property |
| | `RetryIsEnough` | `RetryAfterCovers`, an action property |
| `RateLimiterProofs` | `LimiterInvariant`, `LimiterTypeCorrect` | what a bucket holds and gave, between its bounds |
| | `BucketsBound` | `BucketBound` |
| | `RefusalsDeserved` | `RefusedOnlyWhenSpent`, an action property |
| | `RetryRefills` | `RetryAfterSuffices`, an action property, with the cap at the burst |
| | `AddressInvariant` | what an address was allowed through the buckets it had, one after another |
| | `AddressesBound` | `AddressBound` |
| `ClientProofs` | `LocalInvariant`, `LocalTypeCorrect` | what the semaphore and the wait group count |
| | `ConcurrencyBounded` | never more than `Workers` processors |
| | `RunLeavesNothing` | `NothingLeftBehind` |
| | `LocalImplementsPool` | `ImplementsPool`, the refinement of `WorkerPool` |
| | `OnlineInvariant`, `OnlineTypeCorrect` | what each call was told, and who has its result |
| | `UnknownIsLost` | `UnknownMeansLost` |
| | `ExhaustedIsNotYet` | `ExhaustedMeansNotYet` |
| `ServerProofs` | `ServerInvariant`, `ServerTypeCorrect` | the configuration that got past `Load`, what a poll has left of its time |
| | `PollsWritten` | `PollsAreWritten`: the one comparison in `Load` is enough, whatever the other timeouts |
| | `GraceKept` | `CutOnlyAfterGrace` |
| | `SuccessComplete` | exit code 0 over nothing that was cut short |
| | `PanicsOnlyByUse` | `OnlyUsedNumbersPanic` |
| `FleetProofs` | `FleetInvariant`, `FleetTypeCorrect` | `activeWorkers` and the semaphore count what they stand for, no request is with both workers |
| | `NodeIsWorker`, `PythonIsWorker` | `NodeImplementsPool`, `PythonImplementsPool`, the refinements of `WorkerPool` by two workers on one queue |
| `DashboardProofs` | `DashInvariant`, `DashTypeCorrect` | fetches are spaced, the totals of what they bring are sound; `TypeOK` |
| | `DashFetchesBounded` | `FetchesBounded` |
| | `DashRateSeenLive` | `RateSeenLive` |

What the theorems rest on is stated where the constants are declared:
`CallAssumption` (a Get and a Put are different calls; `NoGet` and `NoPut` are
none), `HubAssumption` (a synchronous submission polls for its own ID; the
batches allowed are of one request at least, the ones asked for of any integer),
`QueueAssumption` (finitely many calls; an enqueue and a dequeue are different calls; a batch
asks for at least one request, which `HandlePull` sees to), `LockoutAssumption`
and `RateLimiterAssumption` (the threshold, the durations and the rate are
natural numbers), `LocalClientAssumption` and `FleetAssumption` (a finite set of
requests, at least one worker, batches of at least one request),
`ServerAssumption` (each setting is an integer, negative ones included, or
missing; the wait that a client asks for is a natural number),
`OnlineClientAssumption` (`MaxRetries` is not negative), `DashboardAssumption`
(finitely many keys, as in any map; the interval, the timeout and the length of
the history are not zero). TLC
evaluates each in the run of the module.

The type invariants are proved in these modules and not checked again by the
runs, except that of `Dashboard`, which bounds the history that the code builds up. All of the safety properties of the runs are
proved, and all of the refinements; the two runs that expect a violation are the
exceptions.

Why the invariants are stronger than what they show:

* *Store.* That no result is lost needs to know where every accepted result is:
  in the map, on its way through the channel of one Get, delivered, or discarded
  for a reason. That a lone poll is signalled needs to know which of its steps
  the Put fell between: the waiter entry is the Get's own until it cleans up,
  because nobody of its ID came to replace it.
* *Hub.* Its safety is put together from that of its parts. Each step of the hub is
  a step of the store or leaves it alone, and the same goes for the queues; so the
  theorems of the store, and `Fifo!Spec`, hold in it without being proved again. What
  is left is the order of the steps inside a handler: `HubInv` says for each place a
  handler can be at where its request is (`Handled`), when its ID is registered
  (`Registered`: a result may come before, but then the ID was generated) and which
  Gets may run for it (`Polled`). An answer "unknown" is given for a resolved
  request only (`UnknownResolved`), whoever resolved it, and that a
  resolved result which is not in the store was delivered, overwritten or swept is
  `NoLostResult` of the store. With these each step is one of `Broker` or a stutter.
* *Queues.* A call works on the queue it was handed while others may create one
  for the same key. `HandleCurrent` says that the two are the same, which needs
  `CreatedForKey`: a queue enters the map once, under the key of the call that
  made it, and before that it is empty. Where a request is, is proved over the
  steps of the abstract FIFO: `PlaceInv` says without counting that a queue holds
  a request once, under its own key, and apart from the batches. The counters
  balance with the calls between a channel operation and its counter.
* *Lockout.* A lock found in a record must have its failures behind it, in the
  record itself and not in the map, since the cleanup may have removed it from
  there; and the requests that may still lift it are those in `ahead`.
* *Limiter.* The bound over every interval is kept for each starting time at
  once: what a bucket gave since then, plus what it holds, is at most the burst
  plus the refill of the time that passed. Over all the buckets of an address
  that is not enough: the next bucket starts full. `Account` adds that an address
  without a bucket has used, since any time, no more than the plain rate since then.
  It holds when a bucket is removed because the cleanup found it idle for
  `CleanupAfter`, in which time the rate gives a whole burst (`Ample`, the
  hypothesis of `AddressBound`), so that the first burst is paid back. A bucket that
  a request still holds after its removal counts for nobody, which is what `onMap`
  is for. A bucket never holds a token when the burst is less than one
  (`config.go:120` accepts a burst of 0), so `RetryAfterSuffices` is about bursts that
  do, and counts the refill only up to the burst.
* *Server.* That a poll is written in time follows from the comparison of the
  two timeouts in `Load` only if the configuration is still the one that passed
  it, and if no clock tick passes the deadline of a wait: `Loaded` and `InTime`.
  What may panic later follows from the same: the numbers in use are those of the
  environment, with defaults that do no harm (`Configured`).
* *Online client.* `Attempts` says what the loop counter counts: so many answers
  "not yet" at the end of what the call was answered. `Handed` says where a
  result went that left the store, and `GoesOn` that a client which polls again
  was not given it. What remains of an answer "unknown" is a result that was swept, a
  message that was lost, or a request past its TTL (`overdue`), which the hub may
  forget.
* *Two workers.* The queue is one, so `Exclusive` ties the stages of a request in
  the two workers together; `Pinned` says that a batch has its loop waiting for it, or
  the thread that a cancelled `run` left behind, and that no task outlives a `run`
  that returned. `WorkerPool` lets a worker give up what it has received only after
  `quit`, which is `stopped` in the Node worker, the exits of `run` by an error or a
  cancel in the Python worker, and never in the Go worker.
* *Dashboard.* That few fetches run at a time is an argument on their ages: two that
  ticks made are an interval apart (`Spaced`), so that their ages fall into
  different multiples of the interval, and there are only so many below the
  timeout. The rate is a difference of sums: whatever the server holds, an answer
  carries or the screen shows is `Sound`, that is, its total lies between what was
  enqueued before the start and what has been since, until a restart.
* *Worker.* The semaphore counts the requests that are processed or on their
  way out, the wait group those that are not done. `Workers` bounds the one, and
  `Run` returns when the other is zero.

### What is only model-checked

* Every liveness property (`EveryWaiterWakes`, `SubmissionsAnswered`, `SignalEnds`,
  `StopsEventually`, `QueuedAreProcessed`, `NodeStops`, `PythonProcesses`,
  `QueuedAreServed`, `EveryCallReturns`, `CatchesUp`): the prover has no rules for
  fairness, nor for when an action is enabled.
* That the hub over `KeyedQueue` itself, instead of over `FifoQueues`, is a hub: the
  two theorems `ImplementsFifo` and `HubUsesQueues` meet in `FifoQueues`, and no module
  composes the two.

No module computes with a recursive operator. The sums of `aggregateTotals` are folds;
what is needed of them (they are natural numbers, keep an order, change with one
entry) is proved by induction over the finite sets of keys. The induction itself is
a lemma about sets of sets (`KeysInduction`), which follows from the well-foundedness
of `<` on the natural numbers.

The proofs changed three things in the models. `Status` in `HubRouter` had two
cases that overlapped, so that its value was not determined; they exclude each
other now. `HubRouter` extends the store instead of instantiating it, so that
theorems of the store can be used in it. `DashboardAssumption` says that the keys are
finite, without which the sums are not defined.

## 5. What is not modelled

* *Content.* Bodies, headers, routing keys as text, JSON, status texts and the
  wording of errors: no decision of the hub depends on them beyond what is a
  constant here (the key of a request, whether a key is valid). The limit on the
  size of a body is the same.
* *Request IDs.* Two requests never get the same ID (`uuid.NewString`).
* *`GET /metrics` and `Stats` of lockout and limiter.* They read under the same
  locks and change nothing. `LockedAreWatched` is about what `Stats` of the
  lockout reports.
* *Logging and response headers.* They keep no state.
* *The Go SDK* (`sdks/go`) repeats `pkg/client` with a routing key in each call;
  its worker and client are those of `LocalClient` and `OnlineClient`. So are the
  online clients of the Node and the Python SDK, except that they are loops over
  promises and coroutines.
* *Rendering and key navigation of the dashboard*, `example/`, tests and scripts.
* *The network and the HTTP libraries.* External: a call reaches its peer or not,
  is answered or not. The hub that workers and clients talk to in their modules
  is external to those modules, and `Broker` and `WorkerPool` say what is
  assumed of either side.
* *Weak memory.* All shared state of the hub is under a mutex, an atomic or a
  channel, so that a step is what one of them orders.

## 6. Order of work

The store and the queues came first, then the handlers over both, since that is
where the hub's own logic is; then the middleware, whose bugs are the same kind
of race; then what surrounds it: the process, the clients, the dashboard. What
could follow: the two workers of the SDKs and the online client against a hub that is
`HubRouter` itself, and a hub composed with `KeyedQueue`.
