# docsifer in TLA+

This directory specifies and verifies the parts of docsifer where order,
failure and concurrency decide whether it is correct: the usage counters and
their store, the admission of conversions, the life of a conversion request with
its worker thread and its temporary directory, the cache of LLM clients the
threads share, the way of an HTTP request through the middleware, and the start
and stop of the process. TLC checks the modules on small instances; TLAPS proves
every invariant and every action property of the passing runs, and the
refinements, for every instance.

Read the modules in this order: `Periods`, `Analytics`, `Statistics`,
`Admission`, `ConversionGate`, `PerIPLimiter`, `Conversions`, `LLMRegistry`,
`Lifespan`, `HttpPipeline`, `CircuitBreaker`. The `*Proofs` modules hold the
theorems, the `MC*` modules and the `.cfg` files the instances. Operators whose
comment begins with "Mutant" are slightly wrong variants of the definition that
follows them; each violates a property, and shows that the property can fail.

## Inventory

docsifer is one process: a FastAPI application with an optional Gradio UI on one
asyncio loop, worker threads for what blocks, and a remote Redis for the counters.

| component | state | operations | what is hard about it | module |
|---|---|---|---|---|
| `analytics/service.py` AnalyticsService | totals, pending, snapshot, healthy, sync task | start, stop, access, stats, flush, sync loop | a flush suspends between clearing and restoring; cancellation at stop; load racing with accesses; crashes | `Analytics` |
| `analytics/store.py` stores | counters in Redis | load_all, apply_increments, ping, close | partial and ambiguous failures; threads that go on after their caller has gone | `Analytics` |
| `analytics/periods.py` | none | period_keys | ISO weeks against calendar years | `Periods` |
| `safety/conversion_gate.py` ConversionGate | waiting, inflight, semaphore | acquire | cancellation before and after a grant; newcomers against granted waiters; boundary of the queue | `ConversionGate` |
| `safety/per_ip_limiter.py` PerIPLimiter | slots with counter and time | enter, leave, evict | slots that vanish and come back | `PerIPLimiter` |
| `safety/circuit_breaker.py` CircuitBreaker | failures, opened_at, half_open | call | late answers, cancelled probes; not used by the application | `CircuitBreaker` |
| `safety/resource_guard.py` | none | check | thresholds | a choice in `Conversions` |
| `safety/disk_cleanup.py` | files in tmp_dir | sweep | what it must not, and does not, remove | `Conversions`, `Lifespan` |
| `safety/memory_watchdog.py` | none | SIGTERM at a threshold | order of shutdown | `Lifespan` |
| `api/v1/convert.py` route | temporary directory, slots | convert_document | many ends, each with the same clean-up; timeouts; threads | `Conversions`, `HttpPipeline` |
| `core/service.py` DocsiferService | worker pool, LLM registry | convert_file, shutdown | work that cannot be cancelled; shutdown waits for it | `Conversions`, `Lifespan` |
| `core/llm_registry.py` | TTL cache | get, clear | shared by threads, one lock over look-up and building | `LLMRegistry` |
| `core/mime.py` | none (renames a file) | normalize_extension | the rename races with the removal of the directory | `Conversions` |
| `ui/gradio_app.py` | temporary directory, output files | _run_conversion, statistics tables | takes neither gate nor limiter; its tasks outlive the server's | `Conversions`, `Statistics`, `Lifespan` |
| `main.py` lifespan | singletons, loops | start, stop | order of shutdown | `Lifespan` |
| `api/middleware.py`, `error_handlers.py`, `deps.py`, `exceptions.py` | request id | per request | order of the layers, contexts of interleaved requests | `HttpPipeline` |
| health, `/v1/stats` | none | reads | | `HttpPipeline`, `Statistics` |
| `html_cleaner.py`, `tokenizer.py`, `url_guard.py`, `config.py`, `schemas.py`, `logging_config.py` | none | pure, declarations | | none |

How they interact. The server hands a request to the middleware, which hands it
to the route. The route takes a slot of its address (`PerIPLimiter`), then
a place at the gate (`ConversionGate`), stages the upload in a directory by way
of a thread, submits the conversion to the pool of `DocsiferService` and waits for
it at most `request_timeout_sec`; afterwards it removes the directory, gives both
back, answers, and calls `AnalyticsService.access()` in a background task. The UI
does the same without the two admissions. A worker thread asks the registry for
an LLM client. The sync loop, the sweeper and the watchdog run beside the
requests. The lifespan starts and stops all of them.

What makes each component correct:

* counters: nothing accepted is lost or counted twice, beyond what a crash or an
  ambiguous failure makes unavoidable; the numbers shown match the store, add up
  over the calendar and never go back; the loop never dies.
* gate: its units are conserved; its bounds hold; nobody sleeps next to a free
  unit; refusals are due; the line is served in order; everyone is served.
* limiter: its counters are exact under eviction, hence its bound holds.
* requests: every end gives everything back; files are there while they are needed
  and gone afterwards; hanging conversions do not hang requests.
* registry: one client for a configuration, never a client of another
  configuration.
* pipeline: ids of interleaved requests never mix; every answer is secured; the
  shares of the addresses are kept.
* lifespan: what was counted is stored; the shutdown comes to its end.

## Modules

### Analytics, Periods, Statistics

One module for service and store, because its subject is what crosses the border
between them. A *cell* is a metric in a period; a counter maps cells to numbers.
Labels are left out: every caller uses the default one.

The locked blocks of the service contain no `await`, so the lock is never
contended, and a block is atomic with what surrounds it up to the next call that
suspends. The actions are those stretches:

| action | code |
|---|---|
| `Start`, `LoadRead`, `LoadReturns`, `LoadFails` | `start()`; `load_all()` reads one metric after the other |
| `Access` | `access()` with `_refresh_snapshot()` |
| `SyncIdle`, `SyncFlush` with `TakePending` | end of the interval; `_flush_once()` up to its await |
| `StoreApplies` | `apply_increments()`: some of the writes reach Redis (a gather, or a pipeline as a whole) |
| `CallReturns`, `CallFails` with `RestorePending` | the rest of `_flush_once()` and of the loop's turn, backoff included |
| `SyncWake` | end of the backoff |
| `Stop`, `FinalFlush` | `stop()`: cancellation, last flush |
| `Exit`, `Crash` | the process ends; the next `Start` is a restart |
| `OrphanLands`, `OrphanDropped` | writes of abandoned calls that threads or the network still carry |

The in-memory store is not modelled: it applies every call at once, and its
`load_all()` returns nothing, so that its counts end with the process
(store.py:48). Under it `NothingLost` and `TotalsMatchStore` hold within one process
and not over a restart.

`CallFails(goesOn)` covers the failure before, during and after the writes,
and the call whose writes go on after it has failed. `recorded`, `cut`,
`ambiguous` and `drift` are history variables: what was accepted, and whether
something happened that excuses a difference. The properties refer to the
last three exactly where the code cannot do better:

* `NothingLost` needs `~cut`: no process died with counts, no call was cancelled;
* `NothingInvented` has no condition: store, pending, call and orphans together
  exceed what was accepted by at most once for every failed call that left something
  in Redis, since a failure restores a payload and never more than that;
* `TotalsMatchStore` needs `~drift`: the initial load succeeded, and neither of
  the two happened in this incarnation.

The clauses are not vacuous: the run reaches states with failures, retries and
restarts in which they are all still in force. Nothing is said of the end of
`stop()`: its final flush awaits the store without a timeout, so a store that never
answers keeps it waiting.

`Periods` computes the keys of a moment from the ordinal of its day, as
`strftime()` does: `%G-W%V` takes the year from the Thursday of the week, the
other keys from the day itself. `Statistics` is what the readers see, and
`BucketsAddUp` the reason why the two kinds of year may not be mixed up.
`StatisticsProofs` has the calendar itself: `WeekKeysAreWeeks` (two days have the
same week key exactly if they lie in one week from Monday to Sunday, at the turn of a
year too) and `KeysAreDates` (every day lies in its month, one of twelve, and in one
of at most 53 weeks of its ISO year).

### ConversionGate and Admission

`ConversionGate` is `acquire()` together with the `asyncio.Semaphore` (of Python
3.11) it waits in, since the gate's promises depend on it: a granted future keeps its place
in the deque until its task resumes, the counter of the semaphore is already
lowered, and the task may be cancelled before (`cancelled`) or after (`doomed`) the grant.
The operators that stand for asyncio (`Locked`, `Without`, `WakeNext`, and the
action `Cancel`) are external; the rest is `conversion_gate.py`.

`Admission` is what the gate promises: a room and a line before it, without
semaphore, futures or counters. `ImplementsAdmission` is the refinement, under the
mapping `inside <- Running`, `line <- waiters`, `leaving <-` the waiters whose task
was cancelled.

### PerIPLimiter

Slots as functions of the address, with the set of addresses that have one.
`_evict_idle()` runs inside `Enter` and inside `Refuse`, as in the code. `holders`
is who is between `_enter()` and `_leave()`. The limiter is checked as part of
`HttpPipeline`, which extends it.

### Conversions

The composition. It uses `Admission` in place of the gate (`Gate == INSTANCE
Admission`), which the refinement justifies, and the set of holders in place of the
limiter's counters, which `SlotsExact` justifies. `Admission` lets a newcomer join the
line when it could walk in; the gate does that while a unit is promised.

* `TakeSlot` and what follows it at the gate are steps of one stretch: the slot
  is taken, and then the gate lets in, makes wait (`EnterGate`) or refuses
  (`RefusedAtGate`), whereupon the `finally` of the limiter gives the slot back.
* Handlers are tasks on one loop. `turn` names the handler that is in the middle
  of a stretch without suspension; all other handlers wait, threads do not.
* `copy[r]` is the thread of `_stream_to_disk()`, `job[r]` the conversion in the pool,
  which works through the FIFO `pool` with `Workers` threads. Giving up the wait
  cancels a queued conversion (`CancelsJob`), and abandons a running one. The work
  item of a cancelled one stays in the executor's queue until a worker takes and
  drops it, so `pool` is not bounded while the workers hang; `BacklogIsAwaited`
  is about the conversions in it that may still be started.
* `rmtree()` is three steps: it lists the directory (with the step that starts
  the clean-up), unlinks what it listed, and removes the directory if it is empty.
  Threads run between them.
* The UI stages its file on the loop, in one step that may fail half way.
* Converters, HTML clean-up, guard thresholds, names and forms are choices:
  a conversion succeeds or fails, a check passes or fails.

The actions of the gate in `Conversions` are those of `Admission`, so that the
composition uses the gate as specified is a matter of its construction and not a
property.

### LLMRegistry

`get()` holds a `threading.Lock` over the look-up and the building, so the only
state between two steps of threads is `lock` with the thread that is building
(`Miss`, then `Built` or `FallsBack`). The cache is a sequence, least recently used
first. A client is named by the conversion that built it, which lets `OwnClient`
compare the configuration it was built for with the one it is used for. An entry
that expires between the two look-ups inside `TTLCache.get()` raises, and
`_select_converter()` falls back to the basic converter.

`cache_key()` joins the first 16 digits of a SHA-256 digest, the address and the
model with `|`. A text is modelled as the sequence of its pieces between bars, so
that joining is concatenation, and the digest and the stripping are operators
of which nothing is assumed but that stripping yields texts. The key is not
injective: the address `u|a` with the model `b` and the address `u` with the model
`a|b` share one, and hence a client, where llm_registry.py:5-6 speaks of a tuple.
`OwnClient` says what does hold: as long as the addresses have no bar, whoever
shares a client agrees in digest, address and
model. A field of blanks is a value for `or`, and becomes the empty text; only an
absent or empty one becomes the default.

### Lifespan

`_lifespan()` with what goes on during it. It extends `LLMRegistry` and composes it
with handlers, pool and counters, each reduced to what the shutdown touches.

| action | code |
|---|---|
| `Start`, `Started`, `StartFails` | up to the `yield`; a constructor that rejects its setting (`max_concurrent` below 1) raises before the `try` |
| `Terminate`, `WatchdogFires` | SIGTERM from outside, or from `memory_watchdog_loop()` |
| `Drained` | the server has waited for the requests and their background tasks |
| `StopLoop` | `stop_event.set()`, `cancel()` and the await of each loop |
| `SyncFlush`, `SyncStored` | a flush of the sync loop takes along what is pending, and has the answer |
| `FinalFlush`, `FlushEnds` | `analytics.stop()`: the cancellation of the loop and of its flush, the last flush |
| `ClearRegistry`, `ClosePool`, `PoolJoined` | `converter.shutdown()`: `clear()` on the loop, then `executor.shutdown(True)` in a thread |
| `Submit`, `Answer`, `GiveUp`, `Record` | handlers |
| `WorkerTakes`, `ThreadGetsClient`, `ThreadDone`, `CacheAges` | threads and the registry |

`clear()` waits for the registry's lock on the event loop: in the phase `clearing`
no handler moves. Two things the code does and no document denies are visible in
the model: a worker may put clients into the registry again after `clear()`, and a
conversion of the UI that ends after `analytics.stop()` is counted and not flushed;
therefore `ApiCountsStored` speaks of the API only. What a flush had taken along
when `stop()` cancelled it may be lost, as `KeptUntilStored` shows in `Analytics`;
`cutOff` collects it, and `ApiCountsStored` says that nothing else is.

`ShutdownCompletes` holds under `NothingHangs`: no thread converts for ever, and the
store answers the final flush or fails. Neither has a timeout in the code:
`executor.shutdown(True)` waits for the threads of abandoned conversions
(service.py:110), so a hanging one does keep the process. What the property says is
that nothing else does: the lock of the registry, the order of the steps, the work
items left in the queue.

### HttpPipeline

The layers in the order `add_middleware()` gives them: security headers outermost
(if `enable_security_headers`), then the body limit, the request id, the
compression, CORS, and the router. (The docstring at middleware.py:77-79 and
ARCHITECTURE.md:58-62 name another order.) The compression keeps no state and is
left out; CORS answers preflights itself (`Cors`). Each layer of
`BaseHTTPMiddleware` runs the next one in a task with a copy of its context, so
`ctx[r]` has three values. Errors travel on two ways: typed ones are answered
inside all layers, others outside of all (`Fallback`). An unknown route, a wrong method
or a form that cannot be parsed is an `HTTPException` of Starlette
(`RefuseUnrouted`). `_http_exception_handler()` is registered for FastAPI's subclass,
which nothing raises, so the framework's default handler answers these, with the id
in the header and no field for it in the body (`NoField`). Consequences that are not
properties: the 413 of the body limit names no request, since it is
made outside the layer of the id, and `readyz` answers 200 whether or not the
analytics are reachable.

### CircuitBreaker

`call()` with any number of calls under way. A call that was let in while the
circuit was closed may answer when it is open or half open, and a cancelled probe
leaves it half open. Nothing constructs the class outside the unit tests, so no run
is spent on it; its types and its three properties are proved.

## Runs

| run | instance | states | shows |
|---|---|---|---|
| `analytics` | 31 December 2024 and the next day (one ISO week, two years), two accesses, two backoffs, one ambiguous failure, two incarnations | 37,000 | `TypeOK`, `NothingLost`, `NothingInvented`, `TotalsMatchStore`, `BucketsAddUp`, `StatsNeverGoBack`, `EventuallyStored` |
| `gate` | five requests, two places, a line of two | | the safety of the gate, `RefusedOnlyWhenFull`, `ImplementsAdmission`, `EveryoneServed` |
| `conversions_admission` | four requests to the route, two of one address, one of them with a file; one place, a line of one | 317,000 | `TypeOK`, `NothingHeldAfterwards`, `NoMonopoly` |
| `conversions_life` | an upload and a URL to the route, an upload to the UI, one worker | 57,000 | `BacklogIsAwaited`, `FileThereWhileAwaited`, `LeftoverOnlyIfGivenUp`, `CountsResults`, `EveryRequestEnds` |
| `lifespan` | two requests to the API with one configuration in two spellings, one to the UI whose model has a bar; two workers, a cache of one entry | 206,000 | `TypeOK`, `NoBuildForCached`, `OwnClient`, `ApiCountsStored`, `ShutdownCompletes` |
| `http` | four requests, three of one address, share 2, eviction after 1 tick, two ticks, two typed errors and one of the framework | 2,725,000 | `SlotsExact`, `FairShare`, `HttpTypeOK`, `IdsAgree`, `SecuredUnlessUnhandled` |
| `analytics_shutdown_loss`, `analytics_backoff`, `ui_periods`, `conversions_inflight`, `conversions_leftovers`, `http_unhandled` | small | | a document and the code disagree, see below |

Why the bounds are enough. An access affects the cells of one day; the two days
have a week in common and everything else but the total separate. Two accesses
allow one to be stored or in a call while the other arrives.
One ambiguous failure suffices: it shows the retry of what was applied, and each
further one adds to the ledger what the first did. Two incarnations show
what a restart sees. For the gate, five requests are one more than its places, so
that all are taken and one is refused, and two units with two waiters show
grants, cancellations and releases in every order. For the limiter, three requests
meet a share of two, and time needs to outlast one eviction and the return of its
slot. A request of `Conversions` is used once: a client that
comes again is another request. In `Lifespan` two jobs share a client, the third
evicts it, and two workers are enough for one thread to hold the lock of the
registry while another waits for it. `MaxAccess`, `MaxAmbiguous`, `MaxStarts` and
`MaxTime` are the only artificial bounds in the guards; the theorems hold for all
their values.

Deadlock is checked for the gate, which never stops. The other
modules end: after the last incarnation, when all requests are over, or with the
process; `EveryRequestEnds` says that requests do not stop earlier, and `ShutdownCompletes`
that the process does not, unless a conversion or the store hangs.

## Fairness

* `Analytics`: weak fairness for what the loop and its timers do by themselves
  (`SyncFlush`, `SyncWake`, `FinalFlush`, the load). Strong fairness for applying a whole
  call and for its success: a store that is called again and again eventually
  answers. Nothing is assumed of partial writes or of failures.
* `ConversionGate`: the loop runs tasks that are ready (`Resume`, `Unwind`), and
  a conversion leaves (`Leave`), which the route guarantees by its timeout and
  `Conversions!EveryRequestEnds` shows.
* `Conversions`: the loop, its timer, and the copy from the request's own spool
  file. Nothing says that a conversion ends or that a worker becomes free.
* `Lifespan`: the loop, the timers, and the threads up to the conversion proper
  (`WorkerTakes`, `ThreadGetsClient`). Nothing says that a conversion ends or
  that the final flush is answered: that they do is the premise `NothingHangs` of
  `ShutdownCompletes`.
* `HttpPipeline` and `CircuitBreaker` state safety only.

## Where documents and code disagree

* `KeptUntilStored`. ARCHITECTURE.md:115-116 promises that failures keep `pending`
  intact and that shutdown flushes it. `stop()` cancels the sync task even while its
  flush awaits the store, and `except Exception` does not see the cancellation.
* `BackoffRetries`. The docstring of `service.py` speaks of an immediate retry;
  the backoff is followed by a whole interval.
* `UiShowsPeriods`. gradio_app.py:345 promises counters per model and period. The
  tables look up `daily`, `weekly`, `monthly` and `yearly`, while the counters are kept
  under dates: those columns are always 0.
* `InFlightBounded`. ARCHITECTURE.md:100 says the semaphore bounds in-flight
  conversions; a conversion whose request timed out goes on beside the next one.
* `LeftoversSwept`. The sweeper is meant to remove leftovers, but the leftovers are
  directories, and it unlinks regular files only.
* `UnhandledNamesItself`. CHANGELOG.md:76-77 says that 500 answers carry the
  `request_id`. The handler of `Exception` runs outside the layer that sets it, so it
  is null; the timeout of a conversion is one of these exceptions.

## Proofs

All results hold for every value of the constants that satisfies the named
assumptions (`AnalyticsAssumption`, `StatisticsAssumption`, `GateAssumption`,
`LimiterAssumption`, `ConversionsAssumption`, `RegistryAssumption`,
`LifespanAssumption`, `PipelineAssumption`; for the breaker `Parameters`, stated in its
theorems). They follow from the constructors, but for `StatisticsAssumption`: that
the days in which something happens are finitely many, since the sums run over them.

* `AnalyticsProofs`. `Typing` first. `NothingLost` is inductive only
  with the shape of a call (`CallShape`: the unsent part never exceeds the payload and both
  are zero outside a call), because a failure restores the payload and drops the
  unsent part. `TotalsAreExact` needs in addition that snapshot and totals agree,
  what a load has read so far, and that no orphan exists while `~drift`.
  `StatsMonotone` follows from the same invariant. `NothingInvented` is inductive with
  the fact that a call and what it may still write hold each accepted increment at
  most once; a failure that leaves something in Redis raises the factor by one, which
  covers the payload it restores. `StoreIsExact` puts the two
  halves of the ledger together: where no count was cut off and no failure was
  ambiguous, once nothing is pending or on its way Redis holds exactly what was accepted.
* `StatisticsProofs`. The calendar lemmas first. Then what is needed of the sum of
  a function over a finite set, which is a fold: that it exists, takes out any
  member, agrees for functions that agree, and grows by what one value grows. The
  library's induction rules cannot be used, so each of these goes by a smallest
  counterexample, which the well-founded order of the subsets provides. `BucketsInv`
  says that the store is empty until the first load is over, so that in the first
  incarnation the totals are accesses and nothing else; an access keeps them
  adding up because its cells are one day, the week of that day, and the total.
* `ConversionGateProofs`. The invariant `UnitsInv` counts requests by place. The lemmas
  `Move` and `MoveAll` say how the counts change when one request moves, and
  `WakeKeepsBooks` that a wakeup keeps the books in order. `GateTyping`, `GateConservesUnits`,
  `GateIsBounded` and `RefusalsAreDue` follow.
  `LineInv` adds the order: the deque holds each waiting request exactly once, and
  a free unit beside a pending future implies a promised one. From it
  `NoWakeupIsLost`, and step by step `GateImplementsAdmission`.
* `PerIPLimiterProofs`. `LimiterInvariant`: the counter of an address is the number of
  its holders, therefore a sweep removes only slots that count nobody
  (`SweepIsHarmless`). `LimiterCountsExactly` and `LimiterIsFair` follow.
* `ConversionsProofs`. `ConvInv` has three parts beside the types. `Flow(r)` says for
  each place of a request what is settled there; its heart is that after the wait
  has ended without giving up no thread can come to the directory any more, so
  that `rmtree()` has listed all there is. `Booked` says that the place of a request
  determines what it holds of the limiter and the gate. `Rooms` has the
  cardinalities. `FlowSteps`, `BookSteps` and `RoomSteps` preserve them. A conversion
  that may still start is awaited, hence inside the gate or one of the UI's, which
  bounds their number.
* `LifespanProofs`. `RegistryInv`: a thread that builds holds the lock and its key is not
  cached, and a client in the cache or in use has the key of who asked for it. `KeyTells`
  is the lemma on joined texts behind `ClientsAreOwn`: two keys whose addresses have one
  piece agree only if digest, address and model do. `LifeInv` adds
  what each phase of the shutdown has already settled: from `loops` on no request
  of the API is under way, from `flushing` on what the API counted is stored, being
  flushed or cut off.
* `HttpPipelineProofs`. `HttpInv` says for each layer which ids its contexts and its
  response may carry. `PipelineUsesLimiter` maps the steps to the limiter's, so that
  `PipelineIsFair` comes from `LimiterIsFair`.
* `CircuitBreakerProofs`. `BreakerInv`: the circuit has an opening time exactly when the
  failures reach the threshold, and is half open only after the timeout.

Only model-checked: liveness (`EventuallyStored`, `EveryoneServed`,
`EveryRequestEnds`, `ShutdownCompletes`), which needs ENABLED and induction over
behaviours, beyond the prover. What two of these rest on in each state is proved:
`NothingLost` and `NoLostWakeup`. The six disagreements above are counterexamples and
have nothing to prove.

## Not modelled

* `resource_guard.py` is a choice between passing and failing. Its check is not atomic
  with the use of what it measured: requests that pass it at the same time count
  on the same free memory. No document claims more, so there is no property.
* `url_guard.py` is a pure function of one URL and the resolver's answer.
* `html_cleaner.py` and `tokenizer.py` are text processing by third-party libraries.
* `config.py`, `schemas.py` and `logging_config.py` are declarations. The numbers that matter
  are constants of the modules, and `request_id_var` is the variable `ctx`.
* The layout of the UI, the texts of the health endpoints, the names of files and the
  sniffing of types keep no state.

Worth its effort as soon as the application uses a circuit breaker: the breaker around
the calls it is to protect, with a run of its own, since what it promises depends on
who calls it and how late the answers come.
