# Ginny in TLA+

Ginny is a Go library for services that speak gRPC and HTTP at once. This
directory holds TLA+ models of the parts of it that carry state across
goroutines, the TLC configurations that check them on small instances, and
proofs, checked by TLAPS, of theorems about them for every instance.

Paths such as `client/pool.go` are relative to `src/`. `PROJECT.json` maps every
definition of a module to the lines it stands for, lists the runs, and for each
property a mutant: a plausible bug which makes that property fail.

    tlc -workers 2 -config MCConnPool.cfg MCConnPool      # a run
    tlapm ConnPoolProofs.tla                              # a proof module

## 1. Inventory

| Component (source) | State it keeps | Operations | What is hard |
|---|---|---|---|
| gRPC connection pool (`client/pool.go`) | `conns` and their `inUse` flags, `current`, statistics, `closed`, all under `mu`; a wrapper's `closed` under its own mutex | `NewConnPool`, `Get`, `GetPooled`, `Put`, the wrapper's `Close`, `Close`, the health checker | leases against the checker, gRPC changing a connection's state at any time, counts that must follow |
| gRPC client (`client/grpc.go`, `client/options.go`) | the options; a connection; a call in flight | `NewClient`, a call through the chain it builds, closing at exit | options and query overwrite each other; the order of timeout, retries and logger; an attempt that broke may still be handled; a raw connection taken from a pool and never given back |
| HTTP client (`client/http.go`) | options, one shared `http.Client` | `Get`, `Post`, their raw forms, all through `Request` | retries, cancellation, timeout arithmetic, whose error survives |
| Batch logger (`logger/batch.go`) | buffer, statistics, `stopCh`, a goroutine | log calls, `Flush`, `Close`, `Fatal`, the ticker | the lock is given up in the middle of a flush |
| Standard logger (`logger/logger.go`, `zap.go`) | a `sync.Pool` | wrappers around zap | nothing across calls |
| Memory cache (`cache/cache.go`) | items, statistics, `closed` | `Get`, `Set`, `Delete`, `Exists`, `Clear`, `Close`, the cleaner | counters written under a read lock, delayed deletion, an eviction loop that holds the lock |
| Router limit and rate limiter (`interceptor/limit`, `middleware/limit.go`) | `limiterMap`, a bucket per key, `lastSeen` | rule matching, `DefaultRateFn`, `Cleanup`, the cleaner | look up, stamp, read back and ask are four steps without a lock |
| Server life cycle (`server/server.go`, `server/health`, `app.go`) | three servers, health status, what the discovery knows | `Start`, `Close` | `Close` at any point of functions that start concurrently; draining order; partial registration |
| Server options and interceptor chains (`server/options.go`, `interceptor`) | the chain | built once, walked by each call | which link a panic passes, order of the guards |
| HTTP mux and middlewares (`server/mux`, `middleware`) | `defaultMuxOption`, `recoverPanic`, a response writer per request | `NewServer`, the chain, the writer | a server inherits from the one before it; a failing write |
| Logging interceptor (`interceptor/logging`) | a reporter per call: `startCallLogged`, `ctx` | `PostMsgReceive`, `PostMsgSend`, `PostCall` | callbacks of a stream run at once and share both fields without a lock; a status stays in `ctx` |
| Error codes (`errs/codes.go`, `errs/trycatch.go`) | a table of names | code to HTTP status, code to log level | services' own codes, of which only the leading digit counts |
| Configuration (`config/config.go`) | one viper without a lock: `config`, `kvstore`, the callback | `NewConfig`, reloads, `expandEnv` | the watcher runs before the first load; viper reads the raw file, then the callback loads it again; the file changes in between |
| Redirects, tags | little or none | see section 7 | |

How they interact:

- `Application.Start` calls the user's registration and then `Server.Start`, which hands
  its functions to `graceful`; `graceful` and `Application.Stop` call `Server.Close`.
- `NewServer` builds the gRPC chain (validation, tracer, limit, auth, the user's, recovery)
  and the mux with its middlewares; the mux is always there because the HTTP address has
  a default that no option clears. The HTTP gateway's requests run into the gRPC server.
- `interceptor/limit` serves both chains; its `limiterMap` is one for the process.
- A call of a gRPC client walks through the client's own interceptors to the network, and on
  a server its handling is reported to the logging interceptor. A retry is a new handling
  for the server, while the one before may still be going on.
- viper's watcher and `NewConfig` work on the same viper; the watcher reads the file for
  viper first and for the application afterwards.
- A gRPC client may share a pool with others, and several goroutines share an HTTP client.
- The cleaners of the cache, the limiter and the pool and the batch processor are
  goroutines driven by tickers.

What makes each component correct:

- pool: a connection is lent to one holder at a time and not closed under it; counts
  equal connections; unfit idle connections go away; after everything is put back the
  pool can lend again;
- batch logger: what was accepted is written exactly once; `Close` waits for it;
- cache: the memory statistic is exact, so that the limit means something; expired items
  go away; `Set` returns;
- limiter: a key gets no more than its quota, its rate and what stale times cost, which
  is bounded by how stale they are; one bucket per key; the map does not grow for ever;
- life cycle: not serving once closing, drain before return, gateway before gRPC,
  everything started returns, and `Close` too unless it waits for what never ends;
- HTTP client: nil means answered; bodies closed; cancellation obeyed; `Request` returns;
- gRPC call: the timeout covers all attempts and the waiting between them; a call is
  retried only where its last attempt was refused or its answer lost; nil means handled;
  one line in the client's log, and one of the reporter's in the server's, with the status
  it answered;
- configuration: once the file changes no more, what viper holds is the file's last
  version with its variables replaced;
- chains: no handler without the server's own guards; what is refused, fails or panics gets
  one error, and the chain adds nothing else to what the user's code writes; a panicking
  handler does not end the process.

## 2. Modules

| Module | Models | State and actions |
|---|---|---|
| `ConnPool` | `client/pool.go`, and its use in `client/grpc.go` | each method of the pool is one action, since it holds `p.mu` from its first line to its last; the wrapper's `Close` is two (`PooledClosePut`, `PooledCloseDone`), since it holds its own mutex around `Put`; `ConnUp` and `ConnDown` are gRPC's |
| `LeasePool` | what a pool promises | `Grant`, `Return`, `Retire`, `Shutdown` |
| `BatchLogger` | `logger/batch.go` | a critical section is one action and each entry written is one, because `flushBuffer` unlocks to write; any number of goroutines write batches at once |
| `LogSink` | what a logger promises | `Accept`, `Emit`, `EmitDirect`, `Die` |
| `MemoryCache` | `cache/cache.go` | `Get` is a lookup and a return with the two halves of a counter's increment; a `Set` that evicts holds the lock over several steps |
| `RouterLimit` | `interceptor/limit/routerlimit.go` | operators only: `Match`, `getQuota` |
| `RateLimiter` | `interceptor/limit/rate.go`, `interceptor.go`, `middleware/limit.go` | a request makes a bucket with the time it is (`Begin`), finds or stores one (`Load`, `Store`), stamps it (`Stamp`), reads `lastSeen` (`ReadSeen`) and asks for a token (`Ask`), and the clock may advance between any two of these; the cleaner's look and its deletion; `Cleanup`. It extends `RouterLimit` |
| `ServerLifecycle` | `server/server.go`, `server/health/health.go`, `app.go` | each function of `Start` and each call of `Close` is a process; registration is one name at a time; `setup.limited` are the calls of `Close` whose context ends (`GiveUp`) |
| `Pipeline` | `server/mux`, `middleware`, `server/options.go`, `interceptor` | a chain is a sequence of links that a request walks along; a link that merely passes a request on is walked in the step before it |
| `HttpClient` | `client/http.go` | an attempt is sent, then answered, lost or timed out; the answer is read and parsed |
| `ErrorCodes` | `errs/codes.go`, `DefaultCodeToLevel` of `interceptor/logging/options.go` | operators only: what is derived from a status code |
| `GrpcClient` | `client/grpc.go`, `client/options.go` | options become a chain of interceptors (`UnaryChain`, `StreamChain`); a call walks down it, an attempt is sent, its code walks up; `Tick` lets the timers run down |
| `LogReporter` | `interceptor/logging` | a callback is two steps, its test and its writes; `PostCall` is one. It is not a specification of its own: `CallPath` has the actions |
| `CallPath` | a call from a client to a server's handler and back | composes `GrpcClient`, the network and `LogReporter`: attempts arrive late or never, answers are lost, handling goes on |
| `ExpandEnv` | `expandEnv`, `getShellName` of `config/config.go` | operators: the loop as it is written, and what it is meant to compute |
| `ConfigReload` | `config/config.go` | `NewConfig`, viper's watcher and the load of each, step by step; the file is written and removed at any time. It extends `ExpandEnv` |
| `ConnPoolProofs`, `BatchLoggerProofs`, `MemoryCacheProofs`, `RateLimiterProofs`, `PipelineProofs`, `HttpClientProofs`, `CallPathProofs` | theorems about the component each is named after | see section 5 |
| `ApplicationProofs` | theorems about `ExpandEnv`, `ConfigReload` and `ServerLifecycle` | what an application does before and after it serves; `ConfigReload`'s specification has names of its own (`ReloadSpec`, ...) so that one module can extend both |

An `MC...` module extends the component's and gives the constants whose values a
`.cfg` cannot write. What is external (gRPC connectivity, `net/http`, zap, `graceful`,
the discovery, `x/time/rate`) is modelled from how the code uses it, and marked
`external` in the map.

Seven choices that matter to a reader who compares a module with its source:

- **Slices as sets.** `p.conns` is a set of connections numbered in the order in which
  they were dialled. The code only appends to the slice or filters it, so it stays
  sorted, and its first match is the smallest.
- **Reading without a lock.** Where the code reads what others write (`lastSeen`,
  `globalBatchLogger`, the counters of the cache), reading and writing are separate
  actions or the reader may see either value.
- **Time in `GrpcClient`.** Walking along the chain takes no time, and a timer that has run
  out is acted upon before time goes on (`Due`). What a call has taken is history, and stops
  counting at `MaxElapsed`, which is above every timeout of the run.
- **Options of a gRPC client.** The query of the URI overwrites what options have set, even
  where it names nothing: what `WithTimeout` set is lost. The default of ten seconds is
  assigned after the chain was built. Both are in `evaluateOptions` and `UnaryChain`.
- **viper's maps.** `ReadConfig` gives viper an empty map and fills it afterwards. A map is
  the set of the texts it was filled from, so that a map with two texts, which two loads
  at once can produce, is told from either.
- **User code in Pipeline.** A middleware of the user's is modelled up to its call of the
  next one: it may write, any number of times up to the bound, and then pass the request
  on, return, refuse it or panic. What is registered at the gateway's mux may write too,
  and it may return without having written: a handler given to `Server.Handle`, or a
  stream of the gateway that is empty.
- **Pipeline.** The user's mux middlewares stand before tracer, limit and auth, while
  the user's gRPC interceptors stand after them. The health middleware is outside of
  those that exempt `/healthz`, so their exemptions are never reached. `limit` is
  charged before `auth` has judged. The mux answers a failed `authFunc` with
  PermissionDenied whatever its error is. `withoutHTTPStatus` is always true because no
  option clears it: the status of a response goes into a header and the code of the
  envelope, which is what a body is in the module.

## 3. Runs

| Run | What it asks | Bounds, and why they are enough |
|---|---|---|
| `conn_pool` | exclusive leases, counts, statistics, reaping, and that `ConnPool` implements `LeasePool` | three holders on a limit of two, so that somebody waits; a configured MinSize of three, so that the cut to MaxSize happens; four dials, so that connections are replaced twice |
| `conn_pool_starved` | *violation*: a pool that everything was put back to can lend | limit one: one connection dropped while lent suffices |
| `batch_logger` | `NothingLost`: statistics, no refusal, what `Close` leaves; `Completes`: delivery and `Close`; and that `BatchLogger` implements `LogSink` | two producers and the processor, two calls each: two batches may be in flight beside the processor's; a threshold below the buffer's size and one above it |
| `memory_cache` | `Accounting`: exact usage, the limit, counters; `Progress`: expiry, `Set` returns | two goroutines; two ordinary keys and the empty one; one size of which two fit and one that fits never; three ticks, so that an item expires and is stored again; two `Get`s, so that one increment may be lost |
| `rate_limiter` | what a key gets, one bucket per key, reclaiming | two requests at once; two buckets in all; three grants over three ticks: one more than the quota, so that a stale time is used and the tokens of a period are given twice; two rules with the same headers, the blacklist, requests without a limit; an hour of one tick, so that entries expire |
| `server_lifecycle` | `Orderly`: health, draining, announcing; `Ends`: everything returns that does not wait for what never ends | one service and the health service, a call and an endless stream, one HTTP request; two closers without a discovery, one whose context ends and one whose context does not; one closer with it, whose context does not end (a walk of four names makes two closers with it large, and they share nothing but the registry) |
| `server_names` | *violation*: a closed server's services are not in the discovery | the same |
| `http_client` | nil means answered, bodies, cancellation, termination | two goroutines, two retries: a first, a middle and a last attempt; statuses on both sides of each test in `Request` |
| `http_client_timeout` | *violation*: with the default timeout, `Request` returns | the second has 15 units and a duration 12 bits, so that, as with 10^9 and 64 bits, nine seconds times a second is positive and ten seconds times a second is negative |
| `grpc_call` | timeout, retries, what nil means, the lines of both logs, termination | one caller and two attempts: a first and a last; a handler that succeeds, refuses, aborts, or returns io.EOF or its context's DeadlineExceeded as they are; five sets of options, among them `WithTimeout` alone, a pool, a negative timeout and no credentials; a timeout of two and a backoff of one, so that the deadline falls into an attempt and into a backoff; three deciders; two messages per direction of a stream |
| `config_reload` | what viper holds when nothing goes on, and that it gets there | three changes of the file: before the watcher, before the callback and during a load, all combinations; four texts, of which one parses only before its expansion and one only after it; one remote text. `MCExpandsAsMeant` compares `expandEnv` with its meaning for every text of up to six characters; `ExpandsAsMeant` proves it for every text |
| `pipeline` | own guards met, one answer of the chain's, everything ends | two servers in either order, one with both guards and one with none, a client of the gateway and one of gRPC, one request of each kind, one token: it runs out; two writes of user code, so that it writes nothing, once or again, and an error follows |

Deadlock is not checked: every one of these systems may stop, for good or because its
bounds are used up (a closed pool, a dead process, no more tries). That something does
not stop where it should go on is what the liveness properties are for.

No symmetry is used: most runs check liveness or a refinement.

### What the violations show

1. `conn_pool_starved` (`client/pool.go:256`). The checker drops an unhealthy connection
   that is lent from `p.conns`, and neither closes it nor takes it out of `p.current`.
   `Put` does not find it later. `Get` then sees an empty pool at its limit, for good.
2. `server_names` (`server/server.go:227`). What is removed from the discovery is not
   what was registered: the formats of the two names differ.
3. `http_client_timeout` (`client/http.go:260`). A duration is multiplied by
   `time.Second`. From ten seconds to about eighteen the product is negative, which
   `net/http` takes for no timeout; beyond that it wraps on to positive values.

What else the models show to a reader, with no run of its own because no doc says
otherwise: `Fatal` leaves the buffer unwritten (`LogSink` allows a dying process to); a
limiter's bucket that takes longer to fill than its entry lives is forgotten half full; a
request that asks its bucket with a `lastSeen` that is no longer the time moves the
bucket's last time back, and the next one gets the tokens of an interval that was paid out
already (`KeyHoldsRate` says what this costs at most: a token per period of staleness); a
handler that returns `context.DeadlineExceeded` or `context.Canceled` as it is has its
call logged as Unknown, while grpc-go sends the code of that name; a gRPC client with
`WithTimeout` and no timeout in its URI waits without a limit; a file that does not parse
empties the configuration; health checks of the health service are logged, since an empty
`PayloadDecision` means "log at the start". Of the codes that are HTTP statuses, 599 alone
is not its own status (`MCStatusIsItself`): the range ends at 598.

### What passing properties leave out on purpose

A few properties state an exception because the code has one; each is in the comment of
the property: a `Set` that meets the empty key (`Stuck`), `healthServer.Start` after a
`Close` (`lateStart`), a `Shutdown` whose context ended (`gaveUp`), a `Close` that waits
for a stream that never ends or, with a context that does not end, for an HTTP request
that does not (`CloseReturns`), a panic of a guard on a gRPC chain and a write that fails
(`Answered`), entries that a logging goroutine took with its own flush (`CloseDrains`, a
part of `NothingLost`), a key that was deleted and the lateness of requests
(`KeyHoldsRate`), what user code on the mux writes, which may be nothing, with no answer
then (`OneAnswer`), IdleConns, which is MinSize below the truth (`StatsBalance`),
callbacks of both directions of a stream that ran at once (`met`), a status that an
earlier line left in the reporter's context, io.EOF, which is logged as success, and a
context's error, which is logged as Unknown (`LoggedAsAnswered`, of this repository's
reporter only: section 7), timeouts that the query does not name (`PromisedTimeouts`), and
for the configuration two loads that met (`raced`), a file that is read into the map that
comes before a remote provider's (`shadowed`) and a removed file, which ends the watching.

## 4. Fairness

Weak fairness is given to what a goroutine that is running will do next, and to tickers;
never to callers: nobody has to put a connection back, log, flush, call `Close` or make
a request. Beyond that:

- `HealthCheck`, `Tick`, the cleaners: their tickers fire for ever, and every other
  critical section ends.
- `Sweep` of the cache has strong fairness: the lock it needs is taken again and again
  by others, and Go's `sync.RWMutex` lets no waiter starve.
- `StopReceived` of the batch logger has strong fairness: a closed channel stays ready, and a
  `select` with several ready cases picks uniformly at random.
- The HTTP client's `TimeOut` is fair where the product of the timeout is positive.
  That such a product is counted in years, and not in seconds (one second times
  `time.Second` is 31 years), is beyond a liveness property: `RequestReturns` says that
  there is a bound. A server is never assumed to answer.
- A gRPC call: the client's goroutine, the server's callbacks and the clock go on. The
  network need not deliver anything and a handler need not return; nobody has to call or
  to cancel. `CallReturns` rests on the deadline alone.
- The configuration: the main goroutine and the watcher go on. The file need not change, and
  is changed `MaxChanges` times at most, so that "in the end" has a meaning.
- `Close` of a server: its own steps and calls of the discovery go on. The context it is
  given is the caller's (`app.go:116`, `server/server.go:170`) and may never end: only the
  closers of `setup.limited` have one that does, and give up (`GiveUp`). A stream of
  `health.Watch` and an HTTP request are never assumed to end. `CloseReturns` says that
  `Close` returns or waits for one of these for ever.
- The limiter: the ticker's visits have strong fairness, as an entry may be refreshed and
  get old again. Requests go on step by step; nobody has to make one.
- A request in `Pipeline` goes on: guards, the user's code and handlers return or panic.

## 5. What is proved

Every theorem holds for every value of the constants that satisfies the assumptions named
in the component's module and in those it extends. They say what a constant is, and:

- `SizesAssumption`: there are enough connection names for the first MinSize dials.
- `BatchAssumption`, `PipelineAssumption`: what a size or an option is, nothing else. A size
  that is not positive becomes the default.
- `CacheAssumption`: the keys are finitely many, since the cache counts them; sizes and
  lifetimes are not negative; the clock has a first instant.
- `RulesAssumption`, `LimiterAssumption`: quotas are integers and durations are not negative;
  an hour is positive.
- `LifecycleAssumption`: a program has finitely many services, and none of them is called
  as the health service is.
- `HttpAssumption`: statuses, timeouts and retries are positive; the width of a duration is
  even.
- `ClientAssumption`: what options and query may hold, a number in the query being an
  integer or missing; a backoff takes time. `PathAssumption`: there are executions for as
  many attempts as any options allow; a handler returns a code, io.EOF or a context's error.
- `EnvAssumption`, `ReloadAssumption`: the characters that the code tells apart are
  characters, a variable of the environment has a name, and the file holds texts.

| Theorem | States |
|---|---|
| `ConnPoolProofs!TypeCorrect` | `Spec => []TypeOK` |
| `ConnPoolProofs!LeasesAreExclusive` | `Spec => []ExclusiveLease` |
| `ConnPoolProofs!LeasesStayOpen` | `Spec => LeasedNotClosed`, an action property |
| `ConnPoolProofs!OpenConnsBounded` | `Spec => []CurrentAccounting` |
| `ConnPoolProofs!StatsKept` | `Spec => []StatsBalance` |
| `ConnPoolProofs!Refinement` | `Spec => ImplementsLeasePool` |
| `BatchLoggerProofs!TypeCorrect` | `Spec => []TypeOK` |
| `BatchLoggerProofs!LossFree` | `Spec => []NothingLost` |
| `BatchLoggerProofs!Refinement` | `Spec => ImplementsLogSink` |
| `BatchLoggerProofs!AtMostOnce` | no accepted entry is written twice |
| `MemoryCacheProofs!TypeCorrect` | `Spec => []TypeOK` |
| `MemoryCacheProofs!StatisticsTrue` | `Spec => []Accounting` |
| `RateLimiterProofs!TypeCorrect` | `Spec => []TypeOK` |
| `RateLimiterProofs!BucketsAreShared` | `Spec => []OneBucketPerKey` |
| `RateLimiterProofs!RateIsHeld` | `Spec => []KeyHoldsRate` |
| `ApplicationProofs!TypeCorrect` | `Spec => []TypeOK`, of `ServerLifecycle` |
| `ApplicationProofs!StartsAndStopsInOrder` | `Spec => []Orderly` |
| `ApplicationProofs!ExpandsAsMeant` | `expandEnv(s) = Expansion(s)` for every text `s` |
| `ApplicationProofs!ReloadTypeCorrect` | `ReloadSpec => []ReloadTypeOK` |
| `ApplicationProofs!FreshAlways` | `ReloadSpec => []FreshWhenQuiet` |
| `PipelineProofs!TypeCorrect` | `Spec => []TypeOK` |
| `PipelineProofs!GuardsComeFirst` | `Spec => []Guarded` |
| `PipelineProofs!AnsweredOnce` | `Spec => []OneAnswer` |
| `HttpClientProofs!TypeCorrect` | `Spec => []TypeOK` |
| `HttpClientProofs!NilIsAnswered` | `Spec => []NilMeansAnswered` |
| `HttpClientProofs!NoBodyLeaks` | `Spec => []BodiesClosed` |
| `HttpClientProofs!CancelIsRespected` | `Spec => NothingSentAfterCancel`, an action property |
| `HttpClientProofs!LongTimeoutIsNone` | a timeout whose product with a second falls into the negative half of the width is none |
| `CallPathProofs!TypeCorrect` | `Spec => []TypeOK` |
| `CallPathProofs!TimeoutCoversRetries` | `Spec => []DeadlineHolds` |
| `CallPathProofs!LoggedOncePerCall` | `Spec => []ClientLoggedOnce` |
| `CallPathProofs!NilIsHandled` | `Spec => []NilMeansHandled` |
| `CallPathProofs!RetriesAreJustified` | `Spec => RetriedWhenUnavailable`, an action property |
| `CallPathProofs!FinishedAsAnswered` | `Spec => []LoggedAsAnswered` |
| `CallPathProofs!StartedAtMostOnce` | `Spec => []StartedOnce` |

These are all the invariants and all the action properties that the passing runs check, and
both refinements. The arguments:

**Pool.** `ExclusiveLease` is not inductive: `GetIdle` picks a connection whose `inUse`
flag is clear, so one must know that the flag of each connection an open wrapper holds is
set (`LeasedInUse`), and `GetDialled` picks a fresh number, so one must know that
everything in the pool has a number that was already dialled (`Numbered`); `Unopened`
says what the variables are before `NewConnPool`. Their conjunction with `TypeOK` is
`IInv`. `LeasesStayOpen` follows from it, since `HealthCheck` closes only what is
not in use. `OpenConnsBounded` needs `CurrentAccounting` itself in addition, in the form
"the open connections are those in `p.conns` or in use", and two arithmetical lemmas on
cardinalities: what the checker takes out and what the refill adds (`ReapAndRefill`).
`Refinement` maps the connections of open wrappers to the abstract loans and those shut down
to the retired ones; it needs `RefInv`, which adds that a connection not yet dialled has no
state (`Undialled`). From it follows that the loans are among the connections in use, and
fewer than MaxSize wherever one more may be had (`LentInUse`).

**Batch logger.** The entries in the buffer and in the batches that goroutines are writing
are pairwise different (`Apart`), and their numbers are not above what their producers have
sent, so that a new one is new (`Fresh`); statistics count exactly them (`StatsMatch`).
`Draining` ties the shutdown to where the processor is: its last flush comes after
`close(stopCh)` and leaves nothing in the buffer of what `Close` found there. The refinement
maps buffer and batches to the pending entries of `LogSink`; a flush that only moves entries
from one to the other is a stutter.

**Cache.** One goroutine evicts and then nobody reads (`Locked`). Usage and key count are
those of the present items (`Accounts`); the sum of the sizes is the number of the items'
bytes (`Bytes`), so that storing and removing an item are steps of a cardinality. `Lookups`
splits the lookups that have returned into hits and misses: no counter, and nothing that was
read of one, is above its share, and one that was written is not 0.

**Rate limiter.** `Typed` says that a request behind its lookup has a bucket, and that no
bucket was asked with a time later than now. `Sharing` says that the bucket a request
holds is the one stored under its key, unless the key was deleted since. For the rate,
`Held` states the bound between any two grants of a bucket, in tokens times period so that
it stays in the integers. It is not inductive: what ends with the latest grant is bounded
by what was in the bucket. `Filled` says that: what was granted since grant i, with what
is left, is no more than a full bucket and what came in since. With stale times the
bucket's last time does not measure what came in, since it moves back; but a request that
moves it back to t at the time now is late by now - t, and the sum of `last` and of the
lateness of all who were granted a token (`late`) never goes down by such a step. That sum
is the clock of `Filled`, and it makes the bound hold with no assumption on when the clock
moves. `Granting` ties grants to keys: a key that was not deleted has had one bucket only.

**Server life cycle.** `register` walks over a sequence of names in any order
(`WalkIsComplete`: what is behind it and what it has announced is every service under each
protocol, by counting, since a walk has as many places as there are names). `Announcing`
says that a name is known or among the entries left; `Begun` that nothing runs before
`Application.Start` registered the services; `InStep` that how far a Close is says how far
the servers are. The other parts of `Orderly` are then inductive (`Drains`).

**Chains.** `Inherited` and `Built` say what the option slices and the chains of the
servers built from them may hold: links of other servers are no guards of this one
(`Foreign`), the one handler is last (`Handled`), the limiter stands before authFunc
(`Guards`). `Moving` says of a request on its way that it was let through by exactly the
links before it that look at it (`Walked`), and that its body is what user code wrote, and
at its end the answer of the link that stopped it, if that has one (`Answering`).

**HTTP client.** `TriesLeft` bounds the attempts of a request that may still fail, which
`TypeOK` needs; `ReadsAnswer` says that one being read was answered with a status;
`ReturnsLast` says that there is a result only when the request is over. `CancelIsRespected`
says over all tries what each try tests for itself; no run checks it.

**gRPC call: the deadline.** `DeadlineHolds` speaks of what a call has taken; `DeadlineInv`
says how it is kept at each link. Two lemmas compute where each link of a unary chain stands for any
options (`UnaryLinks`, and seen from the timeout `TimedLinks`): user and logger before
it; retries, metrics, tracer and the wire behind it. `TimeKept` then says, with T the place
of the timeout link: before T a call has taken no time and has no timer; from T on
`elapsed + left` stays within the timeout, since a tick moves one from `left` to
`elapsed` and happens only where `left` is not 0; attempts and backoffs are behind T, so
a retry never comes back to T and never renews the timer; and above T on the way up no
time passes. `ConnKept` ties the options to what was given. With retries before the
timeout (the mutant `UnaryChainRetryFirst`) the lemma on the links is where the proof fails.

**gRPC call: attempts.** `PathInv` adds where the logger's link stands (`Standing`: a call has
its line exactly when it is above that link on its way up, or done), and what the history of
the attempts says of its code (`Answered`): a call on its way up with nil was handled with
success by its last attempt, and one on its way down again has a last attempt that broke or
was refused. An attempt is a new execution, because attempts are counted and the retry link
bounds them.

**gRPC call: the server's log.** `LogInv` says of each handling what its reporter has learned:
the flag is set where there is a started line, and a callback that goes on has none before
it unless two have met (`Flagged`); a status that was injected is that of a started line
(`Seen`); a unary call's contents are those of the messages it has passed (`InTurn`). The
finished line is then what `PostCall` makes of it (`Ended`). Calls of the health service are
unary (`HealthIsUnary`), so their callbacks never meet.

**Placeholders.** `expandEnv` scans for a name at every `${` it meets, and goes on behind the
name or, if there is none, behind the `$`; what it is meant to compute is one reading from left
to right (`Expansion`). Three functions are recursive here: the scan and the loop, which
look ahead, and the reading, which looks back. For each the proof shows first that a function
satisfies its equation: were there a number n such that none does on the last (the first) n
places, take the least one, and extend the function for n - 1 by a place (`ScansExists`,
`ExpandsExists`, `ReadsExists`). After that an induction is again the least place at which
something fails. `ShellName` says where a scan ends and what it finds. `Agrees` is the
invariant of the reading: what is written for good, followed by what the loop makes of the
text from the open placeholder on, is what the loop makes of the whole. A character keeps it
(`ReadsOn`): it closes the name, and the loop replaces the same (`ReplacesOpen`), or it shows
that there is none, and the loop has copied all of it, a `$` in it that starts another scan
included (`CopiesUpTo`).

**Configuration.** `ReloadInv` follows a load from its reading to its map. `Apart`: while
no two loads met, one of the loaders at most is loading, and `Made`: the map that it has
made is its own, and empty. `LastEvent`: if the last event is a write, the file is there.
`Unchanged`: with no event left, what a loader has read is the file as it is, since
whoever changes the file while the watcher is on leaves an event behind. `Settled` is then
what is to be proved, with the file's text as `expandEnv` leaves it, and `ExpandsAsMeant`
makes it the text that was meant. With a provider the file never reaches the map unless it
shadows (`FromProvider`). A provider whose URI does not parse or that viper refuses leaves
the map and the configuration's type as they were.

What is only model-checked, and why:

- all liveness: it rests on fairness and `ENABLED`, which are out of reach of this prover;
- the tables and the arithmetic of `ErrorCodes`, which `MCCallPath` evaluates for each code.

## 6. Plan

What is left: `TryCatch`, the control flow of `errs/trycatch.go`, as operators against a
reference definition; and the tables of `ErrorCodes` as theorems, which TLC settles by
evaluating them.

## 7. Not modelled

- `logger/logger.go`, `logger/zap.go`: wrappers; objects from the `sync.Pool` are copied
  before they are shared.
- `server/mux/redirect.go`: escaping of strings, without state.
- `interceptor/tags`: a map behind a mutex, one per request; nothing spans two calls.
- `errs/trycatch.go`: `Try`, `Catch` and `Finally` in one goroutine, without state that
  outlives the call; a panic whose value is no error panics again in the type assertion.
  The names of codes are a table.
- `interceptor/logging/clear.go`: it empties the byte fields of a clone that is then not
  used; what is logged is the original. The extractors' fields, durations and formats.
- Of the gRPC client: message sizes, keep-alive and load balancing, which are settings
  handed to grpc-go; retries of streams from the server, which `GrpcClient` has no kind
  of call for; grpc-go's own lines in the log.
- The lines of go-grpc-middleware's logging interceptor, which `server/options.go:296` gives
  the same logger: a unary call has a finished line of that one as well. The properties on
  the server's log are about the reporter of `interceptor/logging`.
- Wording, log lines, trace spans, metrics and headers other than the status.
- Examples, templates and build files.
