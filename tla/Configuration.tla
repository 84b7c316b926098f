--------------------------- MODULE Configuration ----------------------------
(***************************************************************************)
(* From the environment to the parts of a server: ConfigFromEnv and        *)
(* Config.Validate of internal/ads/types.go, and what the constructors of  *)
(* the snapshot cache, the auctioneer, the decision log and the DSP engine *)
(* make of a configuration: several of them replace values they do not     *)
(* like by defaults of their own.                                          *)
(*                                                                         *)
(* An environment maps variables to the value their text stands for.       *)
(* Durations are in milliseconds; an authorization is its length.          *)
(***************************************************************************)
EXTENDS Integers, Sequences

CONSTANTS
  Unset,           \* a variable that is missing or blank
  Malformed,       \* text that does not parse
  ValidIDs,        \* bidder IDs that validBidderID accepts
  AcceptableURLs,  \* texts that are neither empty nor too long
  ValidURLs        \* those with the scheme http or https and a host

Second == 1000
Minute == 60 * Second

(* Slip: a number is taken whatever its sign.                              *)
ParsedUnchecked(raw, least, default) == IF raw \in Int THEN raw ELSE default

(* A number below the least one, or no number, leaves the default.         *)
Parsed(raw, least, default) == IF raw \in Int /\ raw >= least THEN raw ELSE default
Text(raw, default) == IF raw = Unset THEN default ELSE raw

(* An entry of DSP_ENDPOINTS that is not id=url becomes an empty one.      *)
Endpoint(raw) == IF raw = Malformed THEN [ID |-> "", URL |-> ""] ELSE raw

ConfigFromEnv(env) ==
  [RedisMode |-> Text(env.REDIS_MODE, "single"),
   RedisDB |-> Parsed(env.REDIS_DB, 0, 0),
   AdminToken |-> Text(env.AD_ADMIN_TOKEN, ""),
   CacheRefresh |-> Parsed(env.CACHE_REFRESH_INTERVAL, 1, 30 * Second),
   MaxSnapshotAge |-> Parsed(env.MAX_SNAPSHOT_AGE, 1, Minute),
   StaleSnapshotAction |-> Text(env.STALE_SNAPSHOT_ACTION, "serve_stale"),
   PricingModel |-> Text(env.AUCTION_PRICING_MODEL, "first_price"),
   Increment |-> Parsed(env.SECOND_PRICE_INCREMENT_MICROS, 0, 1),
   DecisionLogging |-> env.DECISION_LOGGING = "true",
   DecisionLogBuffer |-> Parsed(env.DECISION_LOG_BUFFER, 1, 4096),
   DSPBidderEndpoints |-> IF env.DSP_ENDPOINTS = Unset THEN <<>>
                          ELSE [i \in DOMAIN env.DSP_ENDPOINTS |->
                                  Endpoint(env.DSP_ENDPOINTS[i])],
   DSPAuthorization |-> Parsed(env.DSP_AUTHORIZATION, 0, 0),
   DSPTimeout |-> Parsed(env.DSP_TIMEOUT, 1, 60),
   CacheTTL |-> Parsed(env.DSP_CACHE_TTL, 1, 2 * Second),
   FailureTTL |-> Parsed(env.DSP_FAILURE_TTL, 1, 250),
   MaxFanout |-> Parsed(env.DSP_MAX_FANOUT, 1, 3),
   MaxConcurrentRefreshes |-> Parsed(env.DSP_MAX_REFRESHES, 1, 128),
   MaxKeys |-> Parsed(env.DSP_MAX_KEYS, 1, 10000),
   DSPMaxConcurrent |-> Parsed(env.DSP_MAX_CONCURRENT, 1, 32),
   DSPFailureThreshold |-> Parsed(env.DSP_FAILURE_THRESHOLD, 1, 3),
   DSPCircuitOpenFor |-> Parsed(env.DSP_CIRCUIT_OPEN, 1, 5 * Second)]

-----------------------------------------------------------------------------
(* Config.Validate                                                         *)
PolicyOK(p) == p.PricingModel \in {"first_price", "second_price"} /\ p.Increment >= 0

EngineConfigOK(e) ==
  /\ e.MaxFanout \in 1..64
  /\ e.MaxConcurrentRefreshes \in 1..4096
  /\ e.MaxKeys \in 1..1000000
  /\ e.CacheTTL \in 1..(10 * Minute)
  /\ e.FailureTTL \in 1..Minute

EndpointOK(e) == e.ID \in ValidIDs /\ e.URL \in AcceptableURLs

Validate(c) ==
  /\ PolicyOK(c)
  /\ c.RedisMode \in {"single", "cluster"}
  /\ c.RedisMode = "cluster" => c.RedisDB = 0
  /\ c.MaxSnapshotAge > 0
  /\ c.StaleSnapshotAction \in {"serve_stale", "no_bid"}
  /\ Len(c.DSPBidderEndpoints) <= 64
  /\ \A i \in DOMAIN c.DSPBidderEndpoints : EndpointOK(c.DSPBidderEndpoints[i])
  /\ c.DSPAuthorization <= 8192
  /\ c.DSPTimeout \in 1..(10 * Second)
  /\ c.DSPMaxConcurrent \in 1..1024
  /\ c.DSPFailureThreshold \in 1..100
  /\ c.DSPCircuitOpenFor \in 1..(60 * Minute)
  /\ EngineConfigOK(c)

-----------------------------------------------------------------------------
(* NewBidCacheWithPolicy and DefaultCachePolicy.                           *)
NewCachePolicy(p) ==
  IF /\ p.RefreshEvery > 0 /\ p.MaxSnapshotAge > 0
     /\ p.StaleAction \in {"serve_stale", "no_bid"}
    THEN p
    ELSE [RefreshEvery |-> 30 * Second, MaxSnapshotAge |-> 60 * Second,
          StaleAction |-> "serve_stale"]

(* NewAuctioneerWithPolicy and DefaultAuctionPolicy.                       *)
NewAuctionPolicy(p) ==
  IF PolicyOK(p) THEN p ELSE [PricingModel |-> "first_price", Increment |-> 1]

(* NewDecisionLogger: the size of the channel, 0 when logging is off.      *)
LogBuffer(c) ==
  IF ~c.DecisionLogging THEN 0
  ELSE IF c.DecisionLogBuffer < 1 THEN 4096 ELSE c.DecisionLogBuffer

OrDefault(value, default) == IF value < 1 THEN default ELSE value

(* NewBidderEngine: first the limits of the engine, ...                    *)
EngineConfig(c) ==
  [MaxFanout |-> OrDefault(c.MaxFanout, 3),
   MaxConcurrentRefreshes |-> OrDefault(c.MaxConcurrentRefreshes, 128),
   MaxKeys |-> OrDefault(c.MaxKeys, 10000),
   CacheTTL |-> OrDefault(c.CacheTTL, 2 * Second),
   FailureTTL |-> OrDefault(c.FailureTTL, 250)]

(* ... then those of each bidder and of its circuit breaker.               *)
BidderLimits(c) ==
  [Timeout |-> OrDefault(c.DSPTimeout, 60),
   MaxConcurrent |-> OrDefault(c.DSPMaxConcurrent, 32),
   Threshold |-> OrDefault(c.DSPFailureThreshold, 3),
   OpenFor |-> OrDefault(c.DSPCircuitOpenFor, 5 * Second)]

(* NewHTTPBidderAdapter accepts every endpoint.                            *)
AdaptersOK(c) == \A i \in DOMAIN c.DSPBidderEndpoints : c.DSPBidderEndpoints[i].URL \in ValidURLs

(* NewBidderEngine returns no error.                                       *)
EngineOK(c) ==
  LET ids == [i \in DOMAIN c.DSPBidderEndpoints |-> c.DSPBidderEndpoints[i].ID]
      b == BidderLimits(c)
  IN  /\ EngineConfigOK(EngineConfig(c))
      /\ \A i, j \in DOMAIN ids : ids[i] \in ValidIDs /\ (ids[i] = ids[j] => i = j)
      /\ b.Timeout <= 10 * Second /\ b.MaxConcurrent <= 1024
      /\ b.Threshold <= 100 /\ b.OpenFor <= 60 * Minute
=============================================================================
