# A TLA+ model of adserver

adserver keeps active bids in Redis, distributes them to the memory of many
servers, runs auctions on that memory, and collects bids of DSPs in the
background. This directory models the parts of it whose correctness depends on
order, failure, concurrency or integer arithmetic, checks them with TLC and
proves the most important results with TLAPS. File names below are relative to
`internal/ads/` unless they say otherwise.

## The system

| Part | State it keeps | Operations | Talks to |
| --- | --- | --- | --- |
| Bid registry, `store.go` | in Redis: a hash of active bids and a hash of revisions per placement, the placement index | `Upsert`, `Delete`, `Fetch`, `Placements`, `Subscribe` | Redis, through go-redis with retries |
| Mutation handlers, `server.go` | none | `upsertBid`, `deleteBid` | registry; `RefreshAsync` of the local cache |
| Snapshots, `cache.go` | `entries`, `inflight` | `Warm`, `Reconcile`, `Get`, `RefreshAsync`, the subscription loop, the timer | registry |
| Auctioneer, `auction.go` | an accumulator for one auction | `Run`, `RunWithDynamic` | snapshots |
| DSP engine, `dynamic_bidding.go` | `inflight`, refresh slots, a semaphore and a circuit breaker per bidder | `Lookup`, `Trigger`, `refresh` | adapters, DSP cache |
| DSP cache, `dynamic_bidding.go` | `entries`, `count` | `Get`, `Put` | |
| HTTP adapter, `http_bidder.go` | none | `Fetch` | a DSP |
| Auction, readiness and metrics handlers, `server.go` | none of their own | `auction`, `ready`, `metricsEndpoint` | auctioneer, DSP engine, decision logger, metrics, registry |
| Decision logger, `decision_log.go` | a bounded channel, a count of refused entries | `Record`, `Close`, `run` | log output |
| Metrics, `metrics.go` | atomic counters, two histograms | `RecordAuction`, single additions, `Handler` | |
| Configuration, `types.go` and the constructors | none | `ConfigFromEnv`, `Validate`, the defaults of each constructor | environment |
| Process, `cmd/adserver/main.go` | the context, the listener | start: configuration, Ping, Warm, Start, engine, serve; shutdown | everything |

What is hard about them:

- a mutation is three Redis commands, each of which may be lost, repeated, or
  executed after its client gave up;
- the scripts compare revisions as Lua numbers;
- invalidations are best effort; refreshes of a placement overlap with each
  other, with mutations, and with the timer; reads fail;
- a server crashes and warms up again while mutations go on;
- an auction sees each bid once and computes in `int64`;
- auctions, refresh goroutines and one goroutine per DSP call share marks,
  slots, semaphores, breakers and a bounded cache;
- auctions hand entries to a bounded log that is closed at the end of the
  process, when handlers may still run: `Shutdown` waits five seconds for them;
- an auction is counted in four steps and a scrape reads counter by counter;
- every constructor silently replaces what it does not accept by a default.

`PROJECT.json` lists each of these as a hazard at its line, with the properties
that watch it.

## Modules

| Module | Models |
| --- | --- |
| `BidRegister` | what the registry promises: one register per bid, mutations confirmed or refused at a moment when that is true |
| `RedisStore` | the registry and the mutation handlers, command by command |
| `RedisStoreProofs` | its theorems |
| `BidDistribution` | extends `RedisStore`: the caches of the servers, Pub/Sub, start and crash |
| `BidDistributionProofs` | its theorems |
| `Auction` | one auction, bid by bid |
| `AuctionProofs` | its theorems |
| `CircuitBreaker` | the breaker of one bidder, as operators |
| `BidderEngine` | extends `CircuitBreaker`: Trigger, refresh, calls, the DSP cache, shutdown |
| `BidderEngineProofs` | its theorems |
| `DecisionLogger` | the bounded log, as actions of its variables |
| `Metrics` | counters and histograms, and the loads of a scrape in their order |
| `Configuration` | environment to configuration to the parts, as operators |
| `AdServer` | extends the three: `main` from start to exit, all handlers that count something |
| `AdServerProofs`, `ScrapeProofs` | its theorems; what a scrape shows is in the second |
| `MC*` | instances for TLC |

An operator introduced by a comment "Slip: ..." is a wrong version of the
definition that follows it. The specifications do not use these operators; they
show that a property notices the slip.

### RedisStore and BidRegister

A handler `h` carries one mutation `req[h]`; a delete is the mutation to
`Absent`. `pc[h]` is the command it is about to run (`sadd`, `eval`, `publish`)
or the answer it gave: `rejected` (400), `stale` (409), `failed` (503, or 400
from `deleteBid`, or a broken connection), `acked` (200 or 204). `Eval` runs the script and moves on with its
result in one step, because Redis runs scripts one at a time. `Lose` is an
attempt without a reply: the command is gone or joins `late`, and the handler
tries again or fails. `ExecuteLate` is the late arrival. One `late` entry per
handler and command is kept, since a second copy of the same command adds
nothing a retry does not. `Crash` ends handlers anywhere.

The two scripts are one operator: `EvalResult` returns 0, 1 or 2 and
`Written(m)` is what the active hash holds afterwards. `ToNumber` is Lua's
conversion to a number with `Precision` significant bits, rounding half to
even.

`ImplementsRegister` maps both hashes to one register per key and `pc` to the
client's view, and states that every behaviour is one of `BidRegister`.

### BidDistribution

One record per server for the timer's reconciliation (`rec`, also used by
`Warm` before the server is up) and one per placement for the asynchronous
refresh (`task`). A refresh reads and stores in two steps, so that reads and
stores of different refreshes interleave. The deferred removal of the mark is a
third. `Deliver` hands a message to any subset of the open subscriptions.
Placements are numbers, in the order `sort.Strings` gives. A snapshot carries
its staleness as a flag that may be set at any time, and, only for the
properties, the revisions it was read at (`asof`); `base` is auxiliary as well.

### Auction

`Get` is the look at the snapshot with its two early returns, `Consider` one
call of `consider`, `Decide` the end of `run`. Bid IDs are numbers in string
order. `Add` is addition in the range of `int64`, scaled to `MaxInt`; `BPS`
stands for 10 000.

### BidderEngine

An auction inside `Trigger` is idle, has looked at the cache, or has set the
mark. The goroutine of a key scans the bidders (`scan`, `held`), then waits for
its calls, puts the result, and runs its deferred calls: first the mark
(`Unmark`), then the slot (`FreeSlot`), so that the next refresh of the key may
start before the slot is free. A call returns, reports to the breaker, and
leaves. There is no clock: an entry expires and an open circuit elapses at any
moment, which covers every choice of the durations, the different time to live
after a failure included. `failures` is not counted past the threshold.

### AdServer with DecisionLogger, Metrics and Configuration

`main` is the next thing `main` does: `start` (environment and `Validate`),
`ping`, `warm`, `server` (`NewServer`), `engine`, `listen`, `serve` (waiting for
the context), `shutdown` (inside `httpServer.Shutdown`), `store`
(`store.Close`), `log` and `drain` (the deferred `server.Close`, before and
after the channel is closed), `exited`. `stop` is the done context: a signal may
come from the moment `NotifyContext` is called, the listener may fail at its
start or later. `EndShutdown` may happen at any time, since durations are not
modelled; `gaveUp` remembers that it happened while handlers were running. Of
`net/http` the model takes that `Shutdown` waits for every accepted connection
and that a panic ends only its own handler.

A handler `h` serves `req[h]`; `job[h].at` is its next statement that others
can see. The auction handler: read and decide (`RunAuction`, which picks any
decision of `Courses` that this server can come to), three optional counters
(`Tally`), `RecordDecision` with the four outcomes of `Record` (no log, sent,
full, closed and therefore a panic), `CountDrop`, `Respond`, and the deferred
`RecordAuction` in four steps. Mutations and readiness are counted before and
after their call of the registry, whose outcomes are free here; a closed client
only gives errors. A scrape takes one step for each value it loads. `quiet` is
auxiliary: scrapes during which no other handler ran.

An environment maps each variable to what its text stands for, `Unset` or
`Malformed`; durations are milliseconds. `config` and `built` exist until the
listener starts, because nothing reads them afterwards; `server` is what the
handlers use.

Two things a reader of the metrics should know follow from the order of the
additions and loads and are no violation of a promise: `servedStale`,
`staleNoBid` and `dynamicWins` are raised before `auctions`, and in a scrape
that overlaps with auctions the finite buckets may exceed `+Inf`, which was
loaded before them. `ScrapeNotAhead` states what does hold. The process exits
with status 0 also when its listener failed.

## Runs

Deadlock is not checked: every mutation, auction and shutdown has an end, and
after it nothing has to happen.

| Run | Instance | Shows |
| --- | --- | --- |
| `store` | 2 handlers, 6 mutations (invalid, upsert, replacement, delete with the same revision, later upsert, other placement), one repeated attempt | all properties of the registry, and refinement of `BidRegister` |
| `distribution` | 1 server, upsert, delete and a bid of another placement, one mutation on that server and one elsewhere, failing reads, aging, 1 crash | `SnapshotsSound`, `SameRevisionSameBid`, `NotOlderThanStart` |
| `distribution_live` | bids of 2 placements written elsewhere, failing reads, all messages may be lost | `RefreshesEnd`, `Converges` |
| `auction` | up to 3 snapshot bids of 6, up to 2 DSP bids of 3, both models, two increments | winner and price |
| `engine` | 2 auctions, 2 keys, 2 bidders, fan-out 1, one place per bidder, one cache key, threshold 2 | accounting of marks, slots, places, probes, keys |
| `engine_live` | 2 auctions, 2 keys, 2 slots, 1 bidder with one place | `MarksReturned`, `DrainsAfterCancel`, `CircuitRetried` |
| `server` | 2 requests in 7 combinations, log with one place, one latency bucket, values around the limits of every environment variable that is checked, signal or listener failure at any time | `ConfigInForce`, `AcceptedIsLogged`, `GraceRespected`, `EveryRequestCounted`, `QuietScrapeExact`, `ScrapeNotAhead`, `AuctionsEnd`, `ProcessEnds` |

The bounds are small but each contested resource is contested: two mutations
meet on one bid, two refreshes of one placement overlap, the last slot, one place or
one cache key is wanted by two, and the increment is as large as the largest
integer. In `server` the two requests meet at the last place of the log, at a
counter that a scrape is reading, and at the closed channel; the environments
differ in one variable from one that enables everything, since no check of the
configuration relates two variables but the Redis mode and database, which vary
together. A third handler, key or bid repeats what two already do to each other.
Servers share nothing but Redis, so one server next to handlers that run
elsewhere sees everything another server could cause. `HandlerSymmetry` and
`AuctionSymmetry` permute interchangeable processes in safety runs only.

Four statements of the documentation, and one of the README, do not hold of the
code; each has a run in which TLC finds the counterexample:

- `store_coarse`: beyond 2^53 a newer revision can be refused with 409
  (`store.go:92`; the run uses 2 bits of precision for 53);
- `distribution_shard`: a placement that cannot be read keeps all placements
  after it from being reconciled (`cache.go:100`). The same happens when a
  stored bid does not decode. Auctions that find a snapshot missing or stale
  still repair it;
- `distribution_message`: an invalidation during a refresh that has already
  read Redis starts no refresh (`cache.go:131`). `Converges` shows that the
  timer repairs it;
- `auction_zero`: a next bid with an effective price of 0 counts as none
  (`auction.go:120`);
- `engine_fresh`: a refresh can start although the entry is fresh
  (`dynamic_bidding.go:265`).

### Fairness

- `BidDistribution!Fairness`: goroutines run and every Redis call ends by its
  deadline (weak fairness of the steps of reconciliations, refreshes and
  handlers), the ticker ticks, a process that ended is started again by its
  supervisor. Reads of a shard that answers at all succeed again and again if
  they are tried again and again (strong fairness of `ListOK` and
  `RecFetchOK`): without it Redis is simply down and nothing can converge.
  Nothing is assumed of Pub/Sub, of auctions or of the subscription.
- `BidderEngine!Fairness`: goroutines run, calls end by their deadline, time
  passes. `CircuitRetried` has `Traffic` as a premise, because a refresh only
  ever starts from an auction. It holds for bidders that the fan-out limit lets a refresh
  reach.
- `AdServer!Fairness`: `main` and the handlers run (weak fairness of `main`'s
  steps and of the handlers' own steps). Ping and Warm end, in success or error,
  by the timeouts of the Redis client, and `Shutdown` by its deadline. Nothing is assumed of Redis answering a
  handler, of the log output, of signals or of clients: `AuctionsEnd` holds with
  a log output that stands still. `ProcessEnds` has progress of the log
  goroutine as a premise in the property itself, because `Close` waits for it
  without a limit.

## Proofs

All proofs are checked by `tlapm` for arbitrary constants that satisfy the
named assumptions.

`RedisStoreProofs` assumes `StoreAssumption` (the types of the constants) and
`ToNumberAssumption` (conversion yields a number and never reverses an order);
TLC evaluates both in its runs. The invariant `StoreInv` joins `TypeOK`,
`HashesAgree` and `IndexedBeforeWritten` with two facts that make them
inductive: every handler past validation, and every late command, has a valid
mutation (`Validated`), and every handler past SADD, and every late script, has
its placement in the index (`Indexed`). `RevisionsGovern` follows from it for
any rounding. For `AnswersAreTrue` and `StoreImplementsRegister` the revisions
in use must be distinct as Lua numbers (`ExactRevisions`); the run
`store_coarse` shows that they fail otherwise. The refinement proof takes one
step per action: the script that applies is `Confirm` of the register, a lost
one that arrives later is `Apply`, a refusal is `Refuse`, a failure or crash is
`GiveUp`, and everything else stutters.

`AuctionProofs` assumes `AuctionAssumption` (bids are valid, numbers fit). The
loop invariant `AuctionInv` says that the accumulator has the best eligible bid
and the price of the next one in its priority, for the bids considered so far,
and that a decision was computed from the accumulator at the end. A promotion
needs that the order of `ranksAhead` is total and transitive on eligible bids.
`EffectivePrice` needs a lemma on
division: splitting a price into quotient and remainder before multiplying
gives the same rounded product. The three results on prices follow without
further induction.

`BidDistributionProofs` assumes `DistributionAssumption` besides those of the
store (placements are natural numbers, and the value for a missing snapshot is
none). `DistInv` is `StoreInv`, `DistTypeOK` and, for each server:

- `ListsRecent`: not only the snapshot, but also every list that a refresh or
  the reconciliation has read and will store later, agrees with Redis
  (`Sound`: no newer revision, and the stored bid where the revision is the
  stored one) and is no older than the start of the server. Without
  the lists in flight the invariant is not inductive, since a late store
  replaces a snapshot whatever it holds;
- `Lifecycle`: what a process that is down or warming cannot have;
- `BasePast`: what was in Redis at the start is not ahead of Redis;
- `WarmCovers`: a placement that had something at the start is loaded, or Warm
  has not come to it yet. It needs `IndexedBeforeWritten` of the store: the list
  that Warm walks through comes from the index.

Revisions in the store only grow, and a bid changes only with its revision
(`RevisionGoverns`), so lists stay sound. That servers agree with each other
(`SameRevisionIsSameBid`) is an induction of its own: every list that is held
after a step was held before or has just been read (`ListsFrom`, shown with each
action), and a read agrees with all lists that are held because those are sound.
The run has one server, with its snapshots, refreshes and reconciliation; the
theorem is about any number. `DistributionRefinesStore` says that
caches only use the registry through its commands, and carries the theorems on
the store, the refinement of `BidRegister` included, over to any number of
servers.

`BidderEngineProofs` assumes `EngineAssumption` (positive limits, bidders with
distinct IDs, as `NewBidderEngine` checks them; a missing entry is no entry) and
`ThresholdAssumption`. The keys may be infinitely many, so `EngineInv` also says
that the sets it counts are finite. What makes it inductive: the mark of a key
has one owner, an auction or the goroutine (`MarksOwned`), which `Unmark` before
`FreeSlot` does not break; bidders the loop has not come to have not been called
(`CallsInOrder`), so that a place taken is new; a refresh that holds a place has
not used up its fan-out (`FanoutInv`); results of calls belong to their key
before they are put (`AnswersBelong`). `FreshIsKept` is an action property and
uses that `Put` sweeps only what has expired.

`AdServerProofs` assumes `ServerAssumption` (types, finitely many handlers) and
`BucketsAssumption` (bounds ascend). `ServerInv` says what is known of a request
at each place of its handler (`Shape`), the order of start and shutdown
(`MainInv`), that each entry of the log is in one place (`LogInv`), and that each
counter and each bucket is the number of handlers that have reached it, not only
when all have ended (`CountInv`, `HistogramInv`): a counter without its place in
the handler's course cannot be followed through a step. Each step of a handler
is first shown to have one of few effects (`HandlerEffect`), and each part of the
invariant is shown to survive every effect. `ConfigInForce` needs the
configuration to be one that `ConfigFromEnv` and `Validate` let through.

`ScrapeProofs` adds that a value loaded is at most the present value, because
counters only grow (`ScrapeInv`), and equal to it while the scrape is alone
(`QuietInv`). For the histograms it needs the sum of a scrape's finite buckets:
`SumOfSizes` shows that the sum of the sizes of disjoint sets is the size of
their union. The sum is a recursion over a finite set, which the prover's
induction rules do not reach; the proof exhibits a function that satisfies the
recursion and compares a second one with it at a minimal set where they would
differ. A latency is in one bucket at most, so buckets are disjoint sets of
auctions, and what an overlapping scrape shows of them is the size of a part of
each.

Model-checked only: liveness (`RefreshesEnd`, `Converges`, `MarksReturned`,
`DrainsAfterCancel`, `CircuitRetried`, `AuctionsEnd`, `ProcessEnds`), which is
outside the reach of the prover. Every safety property of a passing run is also
proved.

## Not modelled

- replication and failover inside Redis: an acknowledged write that a promoted
  replica does not have is lost for this service, and nothing in the code could
  tell;
- durations: deadlines, tickers and time to live are moments that may come at
  any time; in particular the deadline of a whole reconciliation (`cache.go:210`);
- the statistics of the snapshot cache and of the DSP engine, which
  `/metrics` prints after the counters of `Metrics`; the request number;
- JSON, HTTP, response and log formats; how the token is compared (a request
  carries it or not); environment variables that nothing checks (addresses,
  password, key prefix);
- the health endpoint and the profiler, which have no state; the load test
  client, which shares none with the service; monitoring files.

## Plan

1. Done: `RedisStore` with its abstract register and proofs;
   `BidDistribution`; `Auction` with proofs; `BidderEngine`.
2. Done: `DecisionLogger`, `Metrics`, `Configuration` and `AdServer`, the
   process that joins them.
3. Done: proofs of all safety properties of `BidDistribution`, `BidderEngine`
   and `AdServer` for any values of the constants.
4. Left: what the liveness properties rest on and a proof can reach, such as
   the step properties of their progress arguments (a breaker or a snapshot
   that only moves forward), as action properties with theorems.
