------------------------------ MODULE Metrics -------------------------------
(***************************************************************************)
(* The counters and latency histograms of internal/ads/metrics.go.  Every  *)
(* Add and every Load is atomic, and nothing else is: recording an auction *)
(* takes four steps and a scrape takes one step per value it shows.        *)
(***************************************************************************)
EXTENDS Integers, Sequences, FiniteSets, FiniteSetsExt

CONSTANT latencyUpperUS  \* upper bounds of the finite buckets, ascending

ASSUME BucketsAssumption ==
  /\ latencyUpperUS \in Seq(Nat)
  /\ \A i, j \in DOMAIN latencyUpperUS : i < j => latencyUpperUS[i] < latencyUpperUS[j]

VARIABLES
  metric,    \* metric[c]: the value of counter c
  histogram  \* histogram[d][i]: observations of latency d in bucket i

(* The counters in the order in which Handler prints them.                 *)
Scalars == <<"auctions", "filled", "noBid", "badRequests", "bidMutations",
             "bidMutationErrors", "readinessChecks", "readinessFailures",
             "decisionLogDropped", "servedStale", "staleNoBid", "dynamicWins">>
Counters == {Scalars[i] : i \in DOMAIN Scalars}
Latencies == {"selection", "handler"}
Buckets == DOMAIN latencyUpperUS

MetricsInit ==
  /\ metric = [c \in Counters |-> 0]
  /\ histogram = [d \in Latencies |-> [i \in Buckets |-> 0]]

Bump(S) == metric' = [c \in Counters |-> metric[c] + IF c \in S THEN 1 ELSE 0]

(* Slip: a latency beyond the last bound falls into the last bucket.       *)
InBucketOrLast(i, us) ==
  /\ us <= latencyUpperUS[i] \/ i = Len(latencyUpperUS)
  /\ \A j \in 1..(i - 1) : us > latencyUpperUS[j]

(* The bucket of a latency is the first whose bound it does not exceed.    *)
InBucket(i, us) ==
  /\ us <= latencyUpperUS[i]
  /\ \A j \in 1..(i - 1) : us > latencyUpperUS[j]

ObserveHistogram(d, us) ==
  histogram' = [histogram EXCEPT ![d] =
                  [i \in Buckets |-> @[i] + IF InBucket(i, us) THEN 1 ELSE 0]]

-----------------------------------------------------------------------------
(* What a scrape loads, in order: a bucket of 0 is a counter; each         *)
(* histogram is preceded by a second load of the number of auctions.       *)
HistogramLoads(d) ==
  <<[counter |-> "auctions", latency |-> d, bucket |-> 0]>>
    \o [i \in Buckets |-> [counter |-> "auctions", latency |-> d, bucket |-> i]]

Loads ==
  [i \in DOMAIN Scalars |-> [counter |-> Scalars[i], latency |-> "none", bucket |-> 0]]
    \o HistogramLoads("selection") \o HistogramLoads("handler")

Loaded(l) == IF l.bucket = 0 THEN metric[l.counter] ELSE histogram[l.latency][l.bucket]

(* The values a finished scrape printed: seen[i] is the result of Loads[i].*)
Shown(seen, c) ==
  seen[CHOOSE i \in DOMAIN Loads : Loads[i].counter = c /\ Loads[i].latency = "none"]
ShownInf(seen, d) ==
  seen[CHOOSE i \in DOMAIN Loads : Loads[i].latency = d /\ Loads[i].bucket = 0]
ShownFinite(seen, d) ==
  MapThenSumSet(LAMBDA i : seen[i],
                {i \in DOMAIN Loads : Loads[i].latency = d /\ Loads[i].bucket # 0})
=============================================================================
