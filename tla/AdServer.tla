------------------------------ MODULE AdServer ------------------------------
(***************************************************************************)
(* One server process: main of cmd/adserver/main.go from the environment   *)
(* to the exit, the handlers of internal/ads/server.go with everything     *)
(* they count, the decision log and scrapes of the metrics.                *)
(*                                                                         *)
(* Each handler serves one request, concurrently with the others.  What    *)
(* the snapshot cache, the auctioneer, the DSP engine and the registry do  *)
(* inside a request is the subject of the other modules; here an auction   *)
(* ends with any decision auction.go can return, and a call of the         *)
(* registry with any of its outcomes.                                      *)
(***************************************************************************)
EXTENDS Configuration, Metrics, DecisionLogger

CONSTANTS
  Envs,       \* environments the process may be started in
  Handlers,   \* goroutines of the HTTP server
  Workloads,  \* functions from handlers to requests
  Courses     \* decisions of auctions, with their latencies in microseconds

Requests ==
  [kind : {"auction", "upsert", "delete", "ready", "metrics"},
   valid : BOOLEAN,   \* the body, the bid or the query is acceptable
   token : BOOLEAN]   \* the request carries the admin token

(* The decisions Auctioneer.run can return.                                *)
Decisions ==
  [reason : {"cold_cache", "stale_snapshot"}, stale : {FALSE}, dynamic : {FALSE}]
  \cup [reason : {"no_eligible_bid"}, stale : BOOLEAN, dynamic : {FALSE}]
  \cup [reason : {""}, stale : BOOLEAN, dynamic : BOOLEAN]
Filled(d) == d.reason = ""

ASSUME ServerAssumption ==
  /\ Workloads \subseteq [Handlers -> Requests]
  /\ Courses \subseteq [decision : Decisions, timing : [selection : Nat, handler : Nat]]
  /\ \A c \in Courses : c.timing.selection <= c.timing.handler
  /\ NoEntry \notin Handlers
  /\ IsFiniteSet(Handlers)

VARIABLES
  main,      \* where main is
  exitCode,  \* the status of the process, -1 while it runs
  stop,      \* ctx is done: a signal came, or the listener failed
  gaveUp,    \* Shutdown ended because its time was over
  config,    \* the configuration, while main needs it
  built,     \* what the constructors made of it, while main needs it
  server,    \* what the handlers use of it
  listener,  \* "none", "starting", "accepting", "failed", "closed"
  store,     \* the Redis client: "open" or "closed"
  req,       \* req[h]: the request of handler h
  job,       \* job[h]: how far handler h is
  quiet      \* scrapes during which no other handler was running

metricsVars == <<metric, histogram>>
mainVars == <<main, exitCode, stop, gaveUp, config, built, server, listener, store>>
handlerVars == <<req, job, quiet, metricsVars>>
vars == <<mainVars, handlerVars, loggerVars>>

NoConfig == [none |-> TRUE]
NoServer == [AdminToken |-> FALSE, buffer |-> 0, engine |-> FALSE, rejectStale |-> FALSE]

NoOutcome == [reason |-> "none", stale |-> FALSE, dynamic |-> FALSE]
IdleJob == [at |-> "waiting", answer |-> 0, log |-> "none", decision |-> NoOutcome,
            timing |-> [selection |-> 0, handler |-> 0], seen |-> <<>>]

Init ==
  /\ main = "start" /\ exitCode = -1 /\ stop = FALSE /\ gaveUp = FALSE
  /\ config = NoConfig /\ built = NoConfig /\ server = NoServer
  /\ listener = "none" /\ store = "open"
  /\ req \in Workloads
  /\ job = [h \in Handlers |-> IdleJob]
  /\ quiet = {}
  /\ MetricsInit
  /\ LoggerInit

Alive == main # "exited"
Active == {h \in Handlers : job[h].at \notin {"waiting", "done"}}

-----------------------------------------------------------------------------
(* main                                                                    *)
Goto(place) == main' = place /\ UNCHANGED exitCode
Exit(code) == main' = "exited" /\ exitCode' = code

ReadConfig ==
  /\ main = "start"
  /\ \E env \in Envs :
       LET c == ConfigFromEnv(env) IN
         IF Validate(c) THEN Goto("ping") /\ config' = c
                        ELSE Exit(2) /\ UNCHANGED config
  /\ UNCHANGED <<stop, gaveUp, built, server, listener, store,
                 handlerVars, loggerVars>>

(* A cancelled context makes a call fail unless its answer is there.       *)
Ping ==
  /\ main = "ping"
  /\ Goto("warm") \/ Exit(1)
  /\ UNCHANGED <<stop, gaveUp, config, built, server, listener, store,
                 handlerVars, loggerVars>>

Warm ==
  /\ main = "warm"
  /\ Goto("server") \/ Exit(1)
  /\ UNCHANGED <<stop, gaveUp, config, built, server, listener, store,
                 handlerVars, loggerVars>>

(* The cache policy, NewServer with its auctioneer and its decision log.   *)
BuildServer ==
  /\ main = "server"
  /\ Goto("engine")
  /\ built' = [cache |-> NewCachePolicy([RefreshEvery |-> config.CacheRefresh,
                                         MaxSnapshotAge |-> config.MaxSnapshotAge,
                                         StaleAction |-> config.StaleSnapshotAction]),
               auction |-> NewAuctionPolicy([PricingModel |-> config.PricingModel,
                                             Increment |-> config.Increment]),
               engine |-> NoConfig, bidder |-> NoConfig]
  /\ server' = [AdminToken |-> config.AdminToken # "", buffer |-> LogBuffer(config),
                engine |-> FALSE,
                rejectStale |-> built'.cache.StaleAction = "no_bid"]
  /\ NewDecisionLogger(server'.buffer)
  /\ UNCHANGED <<stop, gaveUp, config, listener, store, handlerVars>>

(* The adapters and the engine, when endpoints are configured.  os.Exit    *)
(* does not run the deferred Close.                                        *)
BuildEngine ==
  /\ main = "engine"
  /\ \/ /\ config.DSPBidderEndpoints = <<>>
        /\ Goto("listen")
        /\ UNCHANGED <<built, server>>
     \/ /\ config.DSPBidderEndpoints # <<>>
        /\ AdaptersOK(config) /\ EngineOK(config)
        /\ Goto("listen")
        /\ built' = [built EXCEPT !.engine = EngineConfig(config),
                                  !.bidder = BidderLimits(config)]
        /\ server' = [server EXCEPT !.engine = TRUE]
     \/ /\ config.DSPBidderEndpoints # <<>>
        /\ ~(AdaptersOK(config) /\ EngineOK(config))
        /\ Exit(2)
        /\ UNCHANGED <<built, server>>
  /\ UNCHANGED <<stop, gaveUp, config, listener, store, handlerVars, loggerVars>>

(* The goroutine of the listener is started; nothing reads the             *)
(* configuration after this point.                                         *)
Listen ==
  /\ main = "listen"
  /\ Goto("serve")
  /\ listener' = "starting"
  /\ config' = NoConfig /\ built' = NoConfig
  /\ UNCHANGED <<stop, gaveUp, server, store,
                 handlerVars, loggerVars>>

(* SIGINT or SIGTERM, once signal.NotifyContext has been called.           *)
Signal ==
  /\ main \notin {"start", "exited"} /\ ~stop
  /\ stop' = TRUE
  /\ UNCHANGED <<main, exitCode, gaveUp, config, built, server, listener, store,
                 handlerVars, loggerVars>>

(* ListenAndServe binds the address, or fails then or later and cancels.   *)
Accept ==
  /\ Alive /\ listener = "starting"
  /\ listener' = "accepting"
  /\ UNCHANGED <<main, exitCode, stop, gaveUp, config, built, server, store,
                 handlerVars, loggerVars>>

ListenFails ==
  /\ Alive /\ listener \in {"starting", "accepting"}
  /\ listener' = "failed" /\ stop' = TRUE
  /\ UNCHANGED <<main, exitCode, gaveUp, config, built, server, store,
                 handlerVars, loggerVars>>

(* Slip: main does not wait for the handlers.                              *)
BeginShutdownAndGo ==
  /\ main = "serve" /\ stop
  /\ Goto("store")
  /\ listener' = IF listener = "failed" THEN "failed" ELSE "closed"
  /\ UNCHANGED <<stop, gaveUp, config, built, server, store, handlerVars, loggerVars>>

(* Shutdown closes the listener, or keeps it from being opened, ...        *)
BeginShutdown ==
  /\ main = "serve" /\ stop
  /\ Goto("shutdown")
  /\ listener' = IF listener = "failed" THEN "failed" ELSE "closed"
  /\ UNCHANGED <<stop, gaveUp, config, built, server, store, handlerVars, loggerVars>>

(* ... waits for the handlers, and gives up when its time is over.  The    *)
(* debug server is shut down within the same time.                         *)
EndShutdown ==
  /\ main = "shutdown"
  /\ Goto("store")
  /\ gaveUp' = (Active # {})
  /\ UNCHANGED <<stop, config, built, server, listener, store, handlerVars, loggerVars>>

CloseStore ==
  /\ main = "store"
  /\ Goto("log")
  /\ store' = "closed"
  /\ UNCHANGED <<stop, gaveUp, config, built, server, listener, handlerVars, loggerVars>>

(* The deferred server.Close.                                              *)
CloseLog ==
  /\ main = "log"
  /\ Goto("drain")
  /\ CloseQueue
  /\ UNCHANGED <<stop, gaveUp, config, built, server, listener, store, handlerVars>>

Return ==
  /\ main = "drain"
  /\ CloseReturns
  /\ Exit(0)
  /\ UNCHANGED <<stop, gaveUp, config, built, server, listener, store,
                 handlerVars, loggerVars>>

Startup == ReadConfig \/ Ping \/ Warm \/ BuildServer \/ BuildEngine \/ Listen
Shutdown == BeginShutdown \/ EndShutdown \/ CloseStore \/ CloseLog \/ Return

(* The goroutine of the decision log.                                      *)
LogStep == Alive /\ Run /\ UNCHANGED <<mainVars, handlerVars>>

-----------------------------------------------------------------------------
(* Handlers.  Step(h, at) moves handler h on; Finish(h, status) ends it    *)
(* with an answer.                                                         *)
Step(h, at) == job' = [job EXCEPT ![h].at = at]
Finish(h, status) == job' = [job EXCEPT ![h].at = "done", ![h].answer = status]

At(h, kinds, at) == Alive /\ req[h].kind \in kinds /\ job[h].at = at
KeepRest == UNCHANGED <<mainVars, req, quiet>>
Count(S) == Bump(S) /\ UNCHANGED <<histogram, loggerVars>>

(* A connection counts as active from the moment it is accepted: Shutdown  *)
(* waits for it although its request is not read yet.                      *)
Arrive(h) ==
  /\ Alive /\ listener = "accepting" /\ job[h].at = "waiting"
  /\ Step(h, IF req[h].kind = "metrics" THEN "scrape" ELSE "received")
  /\ quiet' = IF Active = {} THEN {h} ELSE {}
  /\ UNCHANGED <<mainVars, req, metricsVars, loggerVars>>

(* The decisions that this server can come to.                             *)
Possible(d) ==
  /\ d.reason = "stale_snapshot" => server.rejectStale
  /\ d.stale => ~server.rejectStale
  /\ d.dynamic => server.engine

(* The body is read and checked; the auction runs.                         *)
RunAuction(h) ==
  /\ At(h, {"auction"}, "received")
  /\ \/ /\ ~req[h].valid
        /\ Count({"badRequests"})
        /\ Finish(h, 400)
     \/ /\ req[h].valid
        /\ \E c \in Courses :
             /\ Possible(c.decision)
             /\ job' = [job EXCEPT ![h].at = "tally", ![h].decision = c.decision,
                                   ![h].timing = c.timing]
        /\ UNCHANGED <<metricsVars, loggerVars>>
  /\ KeepRest

(* Up to three Adds, which no property tells apart.                        *)
Tally(h) ==
  /\ At(h, {"auction"}, "tally")
  /\ LET d == job[h].decision IN
       Count({c \in {"servedStale"} : d.stale}
             \cup {c \in {"staleNoBid"} : d.reason = "stale_snapshot"}
             \cup {c \in {"dynamicWins"} : d.dynamic})
  /\ Step(h, "log")
  /\ KeepRest

Logged(h, at, how) == job' = [job EXCEPT ![h].at = at, ![h].log = how]

(* Slip: a full queue makes the auction wait.                              *)
RecordDecisionWaits(h) ==
  /\ At(h, {"auction"}, "log")
  /\ \/ runner = "none" /\ Step(h, "respond") /\ UNCHANGED loggerVars
     \/ runner # "none" /\ Room(server.buffer) /\ Send(h) /\ Logged(h, "respond", "sent")
     \/ runner # "none" /\ closed /\ Logged(h, "count", "panic") /\ UNCHANGED loggerVars
  /\ KeepRest /\ UNCHANGED metricsVars

(* Slip: the counters of an auction that panics are lost.                  *)
RecordDecisionAborts(h) ==
  /\ At(h, {"auction"}, "log")
  /\ \/ runner = "none" /\ Step(h, "respond") /\ UNCHANGED loggerVars
     \/ runner # "none" /\ Room(server.buffer) /\ Send(h) /\ Logged(h, "respond", "sent")
     \/ runner # "none" /\ closed /\ Logged(h, "done", "panic") /\ UNCHANGED loggerVars
     \/ runner # "none" /\ ~closed /\ ~Room(server.buffer) /\ Drop /\ Logged(h, "drop", "dropped")
  /\ KeepRest /\ UNCHANGED metricsVars

(* recordDecision and Record.  A send on the closed channel panics: there  *)
(* is no answer, but the deferred RecordAuction still runs.                *)
RecordDecision(h) ==
  /\ At(h, {"auction"}, "log")
  /\ \/ runner = "none" /\ Step(h, "respond") /\ UNCHANGED loggerVars
     \/ runner # "none" /\ Room(server.buffer) /\ Send(h) /\ Logged(h, "respond", "sent")
     \/ runner # "none" /\ closed /\ Logged(h, "count", "panic") /\ UNCHANGED loggerVars
     \/ runner # "none" /\ ~closed /\ ~Room(server.buffer) /\ Drop /\ Logged(h, "drop", "dropped")
  /\ KeepRest /\ UNCHANGED metricsVars

CountDrop(h) ==
  /\ At(h, {"auction"}, "drop")
  /\ Count({"decisionLogDropped"})
  /\ Step(h, "respond")
  /\ KeepRest

Respond(h) ==
  /\ At(h, {"auction"}, "respond")
  /\ job' = [job EXCEPT ![h].at = "count", ![h].answer = 200]
  /\ KeepRest /\ UNCHANGED <<metricsVars, loggerVars>>

(* Slip: the outcome is counted before the auction.                        *)
CountAuctionLast(h) ==
  \/ /\ At(h, {"auction"}, "count")
     /\ Count({IF Filled(job[h].decision) THEN "filled" ELSE "noBid"})
     /\ Step(h, "outcome") /\ KeepRest
  \/ /\ At(h, {"auction"}, "outcome")
     /\ Count({"auctions"})
     /\ Step(h, "selection") /\ KeepRest

(* RecordAuction, deferred: the auction, its outcome, ...                  *)
CountAuction(h) ==
  \/ /\ At(h, {"auction"}, "count")
     /\ Count({"auctions"})
     /\ Step(h, "outcome") /\ KeepRest
  \/ /\ At(h, {"auction"}, "outcome")
     /\ Count({IF Filled(job[h].decision) THEN "filled" ELSE "noBid"})
     /\ Step(h, "selection") /\ KeepRest

(* ... and its two latencies.                                              *)
ObserveLatency(h) ==
  \E d \in Latencies :
    /\ At(h, {"auction"}, d)
    /\ ObserveHistogram(d, job[h].timing[d])
    /\ Step(h, IF d = "selection" THEN "handler" ELSE "done")
    /\ KeepRest /\ UNCHANGED <<metric, loggerVars>>

-----------------------------------------------------------------------------
(* upsertBid and deleteBid up to the call of the registry.                 *)
ReceiveMutation(h) ==
  /\ At(h, {"upsert", "delete"}, "received")
  /\ \/ /\ server.AdminToken /\ ~req[h].token
        /\ Finish(h, 401)
        /\ UNCHANGED <<metricsVars, loggerVars>>
     \/ /\ server.AdminToken => req[h].token
        /\ ~req[h].valid
        /\ Finish(h, 400)
        /\ Count({c \in {"badRequests"} : req[h].kind = "upsert"})
     \/ /\ server.AdminToken => req[h].token
        /\ req[h].valid
        /\ Step(h, "store")
        /\ Count({"bidMutations"})
  /\ KeepRest

(* The registry answers: applied, refused as stale, or an error, which is  *)
(* all a closed client gives.                                              *)
StoreReply(h) ==
  /\ At(h, {"upsert", "delete"}, "store")
  /\ \/ /\ store = "open"
        /\ Finish(h, IF req[h].kind = "upsert" THEN 200 ELSE 204)
     \/ /\ store = "open"
        /\ job' = [job EXCEPT ![h].at = "error", ![h].answer = 409]
     \/ job' = [job EXCEPT ![h].at = "error",
                           ![h].answer = IF req[h].kind = "upsert" THEN 503 ELSE 400]
  /\ KeepRest /\ UNCHANGED <<metricsVars, loggerVars>>

(* ready                                                                   *)
CheckReady(h) ==
  /\ At(h, {"ready"}, "received")
  /\ Count({"readinessChecks"})
  /\ Step(h, "store")
  /\ KeepRest

PingReply(h) ==
  /\ At(h, {"ready"}, "store")
  /\ \/ store = "open" /\ Finish(h, 200)
     \/ job' = [job EXCEPT ![h].at = "error", ![h].answer = 503]
  /\ KeepRest /\ UNCHANGED <<metricsVars, loggerVars>>

CountError(h) ==
  /\ At(h, {"upsert", "delete", "ready"}, "error")
  /\ Count({IF req[h].kind = "ready" THEN "readinessFailures" ELSE "bidMutationErrors"})
  /\ Step(h, "done")
  /\ KeepRest

(* The next Load of Metrics.Handler.                                       *)
Scrape(h) ==
  /\ At(h, {"metrics"}, "scrape")
  /\ LET seen == Append(job[h].seen, Loaded(Loads[Len(job[h].seen) + 1])) IN
       job' = [job EXCEPT ![h].seen = seen,
                          ![h].at = IF Len(seen) = Len(Loads) THEN "done" ELSE "scrape",
                          ![h].answer = IF Len(seen) = Len(Loads) THEN 200 ELSE 0]
  /\ KeepRest /\ UNCHANGED <<metricsVars, loggerVars>>

-----------------------------------------------------------------------------
AuctionStep(h) ==
  RunAuction(h) \/ Tally(h) \/ RecordDecision(h) \/ CountDrop(h) \/ Respond(h)
    \/ CountAuction(h) \/ ObserveLatency(h)

HandlerStep(h) ==
  AuctionStep(h) \/ ReceiveMutation(h) \/ CheckReady(h) \/ CountError(h) \/ Scrape(h)

Next ==
  \/ Startup \/ Shutdown \/ Signal \/ Accept \/ ListenFails \/ LogStep
  \/ \E h \in Handlers : Arrive(h) \/ HandlerStep(h) \/ StoreReply(h) \/ PingReply(h)

(* main and the handlers run; nothing is assumed of the log output, of     *)
(* Redis, of signals and of clients.                                       *)
Fairness ==
  /\ WF_vars(Startup) /\ WF_vars(Shutdown)
  /\ \A h \in Handlers : WF_vars(HandlerStep(h))

Spec == Init /\ [][Next]_vars /\ Fairness

-----------------------------------------------------------------------------
TypeOK ==
  /\ main \in {"start", "ping", "warm", "server", "engine", "listen", "serve",
               "shutdown", "store", "log", "drain", "exited"}
  /\ exitCode \in {-1, 0, 1, 2}
  /\ listener \in {"none", "starting", "accepting", "failed", "closed"}
  /\ store \in {"open", "closed"}
  /\ Len(queue) <= server.buffer
  /\ runner \in {"none", "running", "done"}
  /\ metric \in [Counters -> 0..Cardinality(Handlers)]
  /\ histogram \in [Latencies -> [Buckets -> 0..Cardinality(Handlers)]]
  /\ \A h \in Handlers : Len(job[h].seen) <= Len(Loads)

(***************************************************************************)
(* A configuration that passed ConfigFromEnv and Validate is the one in    *)
(* force: no constructor replaces a value of it by a default, and what it  *)
(* sets satisfies what the models of the parts assume.  In particular the  *)
(* action for stale snapshots that an operator chose is not lost.          *)
(***************************************************************************)
ConfigInForce ==
  main \in {"engine", "listen"} =>
    /\ built.cache = [RefreshEvery |-> config.CacheRefresh,
                      MaxSnapshotAge |-> config.MaxSnapshotAge,
                      StaleAction |-> config.StaleSnapshotAction]
    /\ built.auction = [PricingModel |-> config.PricingModel,
                        Increment |-> config.Increment]
    /\ config.DecisionLogging => server.buffer = config.DecisionLogBuffer
    /\ built.engine # NoConfig =>
         /\ \A f \in DOMAIN built.engine : built.engine[f] = config[f] /\ config[f] > 0
         /\ built.bidder = [Timeout |-> config.DSPTimeout,
                            MaxConcurrent |-> config.DSPMaxConcurrent,
                            Threshold |-> config.DSPFailureThreshold,
                            OpenFor |-> config.DSPCircuitOpenFor]

Sent == {h \in Handlers : job[h].log = "sent"}
Queued == {queue[i] : i \in DOMAIN queue}

(***************************************************************************)
(* An entry the queue accepted is in the queue, being written or written,  *)
(* once; and when main returns all of them are written, whatever handlers  *)
(* were still running.                                                     *)
(***************************************************************************)
AcceptedIsLogged ==
  /\ Sent = Queued \cup ({writing} \ {NoEntry}) \cup written
  /\ Cardinality(Sent) = Len(queue) + Cardinality({writing} \ {NoEntry})
                                    + Cardinality(written)
  /\ exitCode = 0 => Sent = written

(***************************************************************************)
(* Neither the registry client nor the decision log is closed under a      *)
(* running handler, unless Shutdown had to give up on it.  Only then can   *)
(* Record panic.                                                           *)
(***************************************************************************)
GraceRespected ==
  /\ (store = "closed" \/ closed) /\ Active # {} => gaveUp
  /\ \A h \in Handlers : job[h].log = "panic" => gaveUp

(* The counters that request r is due in, by what becomes of its job j.    *)
Due(r, j) ==
  LET auctioned == r.kind = "auction" /\ r.valid
      mutated == r.kind \in {"upsert", "delete"} /\ r.valid /\ j.answer # 401
  IN  {c \in Counters :
        \/ c = "auctions" /\ auctioned
        \/ c = "filled" /\ auctioned /\ Filled(j.decision)
        \/ c = "noBid" /\ auctioned /\ ~Filled(j.decision)
        \/ c = "servedStale" /\ j.decision.stale
        \/ c = "staleNoBid" /\ j.decision.reason = "stale_snapshot"
        \/ c = "dynamicWins" /\ j.decision.dynamic
        \/ c = "decisionLogDropped" /\ j.log = "dropped"
        \/ c = "badRequests" /\ r.kind # "delete" /\ ~r.valid /\ j.answer = 400
        \/ c = "bidMutations" /\ mutated
        \/ c = "bidMutationErrors" /\ mutated /\ j.answer \notin {200, 204}
        \/ c = "readinessChecks" /\ r.kind = "ready"
        \/ c = "readinessFailures" /\ r.kind = "ready" /\ j.answer = 503}

Finished == {h \in Handlers : job[h].at = "done"}
Auctioned == {h \in Finished : req[h].kind = "auction" /\ req[h].valid}
Within(d) == {h \in Auctioned : \E i \in Buckets : job[h].timing[d] <= latencyUpperUS[i]}

(***************************************************************************)
(* When no handler runs, every counter is the number of requests that are  *)
(* due in it - also requests that got no answer because Record panicked -  *)
(* and the metric of dropped entries agrees with the decision log.         *)
(***************************************************************************)
EveryRequestCounted ==
  Active = {} =>
    /\ \A c \in Counters : metric[c] = Cardinality({h \in Finished : c \in Due(req[h], job[h])})
    /\ metric["decisionLogDropped"] = dropped

(***************************************************************************)
(* A scrape during which no other handler ran is exact: outcomes add up to *)
(* the auctions there were, and each histogram has all of them in +Inf and *)
(* exactly those within the last bound in its finite buckets.              *)
(***************************************************************************)
QuietScrapeExact ==
  \A h \in quiet : req[h].kind = "metrics" /\ job[h].at = "done" =>
    LET seen == job[h].seen
    IN  /\ Shown(seen, "auctions") = Cardinality(Auctioned)
        /\ Shown(seen, "filled") + Shown(seen, "noBid") = Cardinality(Auctioned)
        /\ \A d \in Latencies :
             /\ ShownInf(seen, d) = Cardinality(Auctioned)
             /\ ShownFinite(seen, d) = Cardinality(Within(d))

(***************************************************************************)
(* A scrape that overlaps with other requests may show parts that exceed   *)
(* their total, which is loaded before them, but never more than there     *)
(* really are by then: outcomes and observations come from auctions that   *)
(* are counted, errors from mutations that are counted.                    *)
(***************************************************************************)
ScrapeNotAhead ==
  \A h \in Handlers : req[h].kind = "metrics" /\ job[h].at = "done" =>
    LET seen == job[h].seen
    IN  /\ Shown(seen, "filled") + Shown(seen, "noBid") <= metric["auctions"]
        /\ \A d \in Latencies : ShownFinite(seen, d) <= metric["auctions"]
        /\ Shown(seen, "bidMutationErrors") <= metric["bidMutations"]
        /\ Shown(seen, "readinessFailures") <= metric["readinessChecks"]
        /\ Shown(seen, "decisionLogDropped") <= dropped

(***************************************************************************)
(* Queue overflow does not delay the auction (docs/architecture.md): every *)
(* auction that was received ends, although nothing is assumed of the log  *)
(* output, unless the process ends first.                                  *)
(***************************************************************************)
AuctionsEnd ==
  \A h \in Handlers :
    (job[h].at = "received" /\ req[h].kind = "auction") ~> (job[h].at = "done" \/ ~Alive)

(***************************************************************************)
(* After a signal, or when the listener fails, the process ends, however   *)
(* long handlers wait for Redis; it only needs the log output.             *)
(***************************************************************************)
ProcessEnds == WF_vars(LogStep) => (stop ~> ~Alive)
=============================================================================
