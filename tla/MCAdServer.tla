----------------------------- MODULE MCAdServer -----------------------------
(***************************************************************************)
(* An instance of AdServer for TLC: two requests at a time in the          *)
(* combinations that compete for something, and environments that differ   *)
(* in one variable from that of a server with a short decision log.        *)
(***************************************************************************)
EXTENDS AdServer, TLC

Request(kind) == [kind |-> kind, valid |-> TRUE, token |-> TRUE]

Mixes ==
  {<<Request("auction"), Request("auction")>>,
   <<Request("auction"), Request("metrics")>>,
   <<Request("auction"), Request("upsert")>>,
   <<Request("delete"), Request("metrics")>>,
   <<Request("ready"), Request("metrics")>>,
   <<[Request("auction") EXCEPT !.valid = FALSE], [Request("upsert") EXCEPT !.valid = FALSE]>>,
   <<[Request("delete") EXCEPT !.valid = FALSE], [Request("upsert") EXCEPT !.token = FALSE]>>}

Course(reason, stale, dynamic, us) ==
  [decision |-> [reason |-> reason, stale |-> stale, dynamic |-> dynamic],
   timing |-> [selection |-> 1, handler |-> us]]

(* Within the only bucket, or with an answer that was slow.                *)
FewCourses ==
  {Course("", TRUE, TRUE, 2), Course("cold_cache", FALSE, FALSE, 1),
   Course("stale_snapshot", FALSE, FALSE, 1)}
OneBucket == <<1>>

Blank == [v \in {"REDIS_MODE", "REDIS_DB", "AD_ADMIN_TOKEN", "CACHE_REFRESH_INTERVAL",
                 "MAX_SNAPSHOT_AGE", "STALE_SNAPSHOT_ACTION", "AUCTION_PRICING_MODEL",
                 "SECOND_PRICE_INCREMENT_MICROS", "DECISION_LOGGING",
                 "DECISION_LOG_BUFFER", "DSP_ENDPOINTS", "DSP_AUTHORIZATION",
                 "DSP_TIMEOUT", "DSP_CACHE_TTL", "DSP_FAILURE_TTL", "DSP_MAX_FANOUT",
                 "DSP_MAX_REFRESHES", "DSP_MAX_KEYS", "DSP_MAX_CONCURRENT",
                 "DSP_FAILURE_THRESHOLD", "DSP_CIRCUIT_OPEN"} |-> Unset]

Alpha == [ID |-> "alpha", URL |-> "https"]
Bidding == [Blank EXCEPT !.DECISION_LOGGING = "true", !.DECISION_LOG_BUFFER = 1,
                         !.DSP_ENDPOINTS = <<Alpha>>]

(* Values around the limits of each variable.                              *)
Raw ==
  [REDIS_MODE |-> {"cluster", "sentinel"}, REDIS_DB |-> {-4, 1},
   CACHE_REFRESH_INTERVAL |-> {-1000, 0, 5000}, MAX_SNAPSHOT_AGE |-> {Malformed, 0, 20000},
   STALE_SNAPSHOT_ACTION |-> {"no_bid", "maybe"},
   AUCTION_PRICING_MODEL |-> {"second_price", "third_price"},
   SECOND_PRICE_INCREMENT_MICROS |-> {-1, 0},
   DSP_ENDPOINTS |-> {<<Malformed>>, <<[ID |-> "a:b", URL |-> "https"]>>,
                      <<[ID |-> "beta", URL |-> "ftp"]>>, [i \in 1..65 |-> Alpha]},
   DSP_AUTHORIZATION |-> {8192, 8193}, DSP_TIMEOUT |-> {0, 10000, 10001},
   DSP_CACHE_TTL |-> {-1, 600000, 600001}, DSP_FAILURE_TTL |-> {0, 60000, 60001},
   DSP_MAX_FANOUT |-> {0, 64, 65}, DSP_MAX_REFRESHES |-> {0, 4096, 4097},
   DSP_MAX_KEYS |-> {0, 1000000, 1000001}, DSP_MAX_CONCURRENT |-> {0, 1024, 1025},
   DSP_FAILURE_THRESHOLD |-> {0, 100, 101}, DSP_CIRCUIT_OPEN |-> {0, 3600000, 3600001}]

(* A bidder that is listed twice ends the process after the server, with   *)
(* its decision log, was built.                                            *)
Twice == [Bidding EXCEPT !.DSP_ENDPOINTS = <<Alpha, Alpha>>]

ManyEnvs ==
  {[Blank EXCEPT !.AD_ADMIN_TOKEN = "secret"], Bidding,
   [Bidding EXCEPT !.STALE_SNAPSHOT_ACTION = "no_bid", !.CACHE_REFRESH_INTERVAL = -1000],
   [Bidding EXCEPT !.REDIS_MODE = "cluster", !.REDIS_DB = 1],
   [Twice EXCEPT !.DECISION_LOGGING = "yes"]}
  \cup {[Twice EXCEPT !.DECISION_LOG_BUFFER = raw] : raw \in {Unset, Malformed, 0, 32}}
  \cup UNION {{[Bidding EXCEPT ![v] = raw] : raw \in Raw[v]} : v \in DOMAIN Raw}
=============================================================================
