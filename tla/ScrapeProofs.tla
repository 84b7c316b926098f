---------------------------- MODULE ScrapeProofs ----------------------------
(***************************************************************************)
(* What a scrape of the metrics shows, for any number of requests, buckets *)
(* and interleavings: it is never ahead of what there is, and it is exact  *)
(* when nothing else runs.                                                 *)
(***************************************************************************)
EXTENDS AdServerProofs, WellFoundedInduction

(* Every value that a scrape loaded is at most what it would load now.     *)
ScrapeInv ==
  \A h \in Handlers : req[h].kind = "metrics" =>
    /\ \A i \in 1..Len(job[h].seen) : job[h].seen[i] <= Loaded(Loads[i])
    /\ job[h].at = "waiting" => job[h].seen = <<>>
    /\ job[h].at = "done" => Len(job[h].seen) = Len(Loads)

(* While a scrape that started alone is alone, it is exactly that.         *)
QuietInv ==
  /\ quiet \subseteq Handlers
  /\ \A h \in quiet :
       /\ \A g \in Handlers : job[g].at \notin {"waiting", "done"} => g = h
       /\ req[h].kind = "metrics" =>
            \A i \in 1..Len(job[h].seen) : job[h].seen[i] = Loaded(Loads[i])

-----------------------------------------------------------------------------
(* Sums.  MapThenSumSet is this recursion over the subsets of a set, which *)
(* only one function satisfies.                                            *)

SumOver(seen, I) ==
  CHOOSE g : g = [s \in SUBSET I |->
                    IF s = {} THEN 0
                    ELSE seen[CHOOSE x \in s : TRUE] + g[s \ {CHOOSE x \in s : TRUE}]]

(* The sum of the sizes of disjoint sets is the size of their union.       *)
LEMMA SumOfSizes ==
  ASSUME NEW I, IsFiniteSet(I), NEW H, IsFiniteSet(H), NEW seen,
         NEW B \in [I -> SUBSET H],
         \A i \in I : seen[i] = Cardinality(B[i]),
         \A i, k \in I : i # k => B[i] \cap B[k] = {}
  PROVE  SumOver(seen, I)[I] = Cardinality(UNION {B[i] : i \in I})
<1>. DEFINE Pick(s) == CHOOSE x \in s : TRUE
            U(s) == UNION {B[i] : i \in s}
            W == [s \in SUBSET I |-> Cardinality(U(s))]
            Rec(g) == [s \in SUBSET I |-> IF s = {} THEN 0 ELSE seen[Pick(s)] + g[s \ {Pick(s)}]]
            G == SumOver(seen, I)
<1>1. ASSUME NEW s \in SUBSET I, s # {}
      PROVE  Pick(s) \in s /\ s \ {Pick(s)} \in SUBSET I
  BY <1>1
<1>2. ASSUME NEW s \in SUBSET I, s # {}
      PROVE  Cardinality(U(s)) = seen[Pick(s)] + Cardinality(U(s \ {Pick(s)}))
  <2>. DEFINE x == Pick(s)
              r == s \ {x}
  <2>1. x \in s /\ x \in I
    BY <1>1, <1>2
  <2>. HIDE DEF x
  <2>2. B[x] \subseteq H /\ U(r) \subseteq H
    BY <2>1
  <2>3. IsFiniteSet(B[x]) /\ IsFiniteSet(U(r))
    BY <2>2, FS_Subset
  <2>4. U(s) = B[x] \cup U(r)
    BY <2>1
  <2>5. B[x] \cap U(r) = {}
    BY <2>1
  <2>6. Cardinality(B[x] \cup U(r)) = Cardinality(B[x]) + Cardinality(U(r))
    <3>. HIDE DEF U, r
    <3>1. Cardinality(B[x] \cup U(r))
            = Cardinality(B[x]) + Cardinality(U(r)) - Cardinality(B[x] \cap U(r))
      BY <2>3, FS_Union
    <3>2. Cardinality(B[x]) \in Nat /\ Cardinality(U(r)) \in Nat
      BY <2>3, FS_CardinalityType
    <3>3. Cardinality(B[x] \cap U(r)) = 0
      BY <2>5, FS_EmptySet
    <3>. QED  BY <3>1, <3>2, <3>3
  <2>. QED  BY <2>1, <2>4, <2>6 DEF x
<1>3. Cardinality(U({})) = 0
  <2>1. U({}) = {}
    OBVIOUS
  <2>. QED  BY <2>1, FS_EmptySet
<1>. HIDE DEF U, Pick
<1>4. W = Rec(W)
  <2>1. \A s \in SUBSET I : W[s] = Rec(W)[s]
    BY <1>1, <1>2, <1>3
  <2>. QED  BY <2>1
<1>5. G = Rec(G)
  <2>1. G = CHOOSE g : g = Rec(g)
    BY DEF SumOver, Pick
  <2>. HIDE DEF W, Rec, G
  <2>. QED  BY <1>4, <2>1
<1>6. \A s \in SUBSET I : G[s] = W[s]
  <2>. DEFINE T == {s \in SUBSET I : G[s] # W[s]}
              R == StrictSubsetOrdering(I)
  <2>1. IsWellFoundedOn(R, SUBSET I)
    BY FS_StrictSubsetOrderingWellFounded, FS_FiniteSubsetsOfFinite
  <2>2. SUFFICES ASSUME T # {}  PROVE FALSE
    OBVIOUS
  <2>3. PICK m \in T : \A y \in T : ~(<<y, m>> \in R)
    <3>. HIDE DEF R
    <3>1. T \subseteq SUBSET I
      OBVIOUS
    <3>. HIDE DEF T
    <3>. QED  BY <2>1, <2>2, <3>1, WFMin
  <2>4. m \in SUBSET I /\ G[m] # W[m]
    BY <2>3
  <2>. HIDE DEF G, T
  <2>5. \A s \in SUBSET I : G[s] = IF s = {} THEN 0 ELSE seen[Pick(s)] + G[s \ {Pick(s)}]
    BY <1>5
  <2>6. m # {}
    BY <1>3, <2>4, <2>5
  <2>7. Pick(m) \in m /\ m \ {Pick(m)} \in SUBSET I
    BY <1>1, <2>4, <2>6
  <2>8. <<m \ {Pick(m)}, m>> \in R
    BY <2>4, <2>7 DEF StrictSubsetOrdering
  <2>9. G[m \ {Pick(m)}] = W[m \ {Pick(m)}]
    BY <2>3, <2>7, <2>8 DEF T
  <2>10. W[m] = seen[Pick(m)] + W[m \ {Pick(m)}]
    BY <1>2, <2>4, <2>6, <2>7
  <2>. QED  BY <2>4, <2>5, <2>6, <2>9, <2>10
<1>7. G[I] = Cardinality(U(I))
  BY <1>6
<1>. QED  BY <1>7 DEF U

-----------------------------------------------------------------------------
(* Where a scrape loads what.                                              *)

LEMMA Concat ==
  ASSUME NEW X, NEW s \in Seq(X), NEW t \in Seq(X)
  PROVE  /\ s \o t \in Seq(X) /\ Len(s \o t) = Len(s) + Len(t)
         /\ \A i \in 1..Len(s) : (s \o t)[i] = s[i]
         /\ \A i \in 1..Len(t) : (s \o t)[Len(s) + i] = t[i]
         /\ Len(s) \in Nat /\ Len(t) \in Nat
OBVIOUS

Load(c, d, b) == [counter |-> c, latency |-> d, bucket |-> b]

(* The first load of the histogram of latency d.                           *)
First(d) == IF d = "selection" THEN 13 ELSE 14 + Len(latencyUpperUS)

LoadSet == [counter : Counters, latency : Latencies \cup {"none"}, bucket : Nat]

LEMMA HistogramLoadsAre ==
  ASSUME NEW d \in Latencies
  PROVE  /\ HistogramLoads(d) \in Seq(LoadSet)
         /\ Len(HistogramLoads(d)) = Len(latencyUpperUS) + 1
         /\ HistogramLoads(d)[1] = Load("auctions", d, 0)
         /\ \A b \in 1..Len(latencyUpperUS) :
              HistogramLoads(d)[1 + b] = Load("auctions", d, b)
<1>. DEFINE s == <<Load("auctions", d, 0)>>
            t == [i \in Buckets |-> Load("auctions", d, i)]
<1>1. Buckets = 1..Len(latencyUpperUS) /\ Len(latencyUpperUS) \in Nat
  BY BucketsAssumption DEF Buckets
<1>2. \A b \in Nat : Load("auctions", d, b) \in LoadSet
  BY CountersAre DEF Load, LoadSet
<1>3. s \in Seq(LoadSet) /\ Len(s) = 1 /\ s[1] = Load("auctions", d, 0)
  BY <1>2
<1>4. t \in Seq(LoadSet) /\ Len(t) = Len(latencyUpperUS)
      /\ \A b \in 1..Len(latencyUpperUS) : t[b] = Load("auctions", d, b)
  <2>1. \A b \in 1..Len(latencyUpperUS) : Load("auctions", d, b) \in LoadSet
    BY <1>1, <1>2
  <2>. QED  BY <1>1, <2>1
<1>5. HistogramLoads(d) = s \o t
  BY DEF HistogramLoads, Load
<1>. HIDE DEF s, t
<1>6. /\ s \o t \in Seq(LoadSet) /\ Len(s \o t) = 1 + Len(latencyUpperUS)
      /\ (s \o t)[1] = s[1]
      /\ \A i \in 1..Len(latencyUpperUS) : (s \o t)[1 + i] = t[i]
  BY <1>3, <1>4, Concat
<1>. QED  BY <1>1, <1>3, <1>4, <1>5, <1>6

LEMMA LoadsAre ==
  LET n == Len(latencyUpperUS)
  IN  /\ n \in Nat /\ DOMAIN Loads = 1..(14 + 2 * n) /\ Len(Loads) = 14 + 2 * n
      /\ \A i \in 1..12 : Loads[i] = Load(Scalars[i], "none", 0)
      /\ \A d \in Latencies : /\ Loads[First(d)] = Load("auctions", d, 0)
                              /\ \A b \in 1..n : Loads[First(d) + b] = Load("auctions", d, b)
<1>. DEFINE n == Len(latencyUpperUS)
            s == [i \in DOMAIN Scalars |-> Load(Scalars[i], "none", 0)]
            t == HistogramLoads("selection")
            u == HistogramLoads("handler")
<1>1. n \in Nat
  BY BucketsAssumption
<1>2. s \in Seq(LoadSet) /\ Len(s) = 12 /\ \A i \in 1..12 : s[i] = Load(Scalars[i], "none", 0)
  <2>1. DOMAIN Scalars = 1..12
    BY DEF Scalars
  <2>2. \A i \in 1..12 : Load(Scalars[i], "none", 0) \in LoadSet
    BY <2>1 DEF Load, LoadSet, Counters
  <2>. QED  BY <2>1, <2>2
<1>3. /\ t \in Seq(LoadSet) /\ Len(t) = n + 1 /\ t[1] = Load("auctions", "selection", 0)
      /\ \A b \in 1..n : t[1 + b] = Load("auctions", "selection", b)
  BY HistogramLoadsAre DEF Latencies
<1>4. /\ u \in Seq(LoadSet) /\ Len(u) = n + 1 /\ u[1] = Load("auctions", "handler", 0)
      /\ \A b \in 1..n : u[1 + b] = Load("auctions", "handler", b)
  BY HistogramLoadsAre DEF Latencies
<1>5. Loads = (s \o t) \o u
  BY DEF Loads, Load
<1>. HIDE DEF s, t, u, n
<1>6. /\ s \o t \in Seq(LoadSet) /\ Len(s \o t) = 13 + n
      /\ \A i \in 1..12 : (s \o t)[i] = s[i]
      /\ \A i \in 1..(n + 1) : (s \o t)[12 + i] = t[i]
  <2>1. /\ s \o t \in Seq(LoadSet) /\ Len(s \o t) = Len(s) + Len(t)
        /\ \A i \in 1..Len(s) : (s \o t)[i] = s[i]
        /\ \A i \in 1..Len(t) : (s \o t)[Len(s) + i] = t[i]
    <3>1. s \in Seq(LoadSet) /\ t \in Seq(LoadSet)
      BY <1>2, <1>3
    <3>. QED  BY <3>1, Concat
  <2>2. Len(s) = 12 /\ Len(t) = n + 1 /\ 12 + (n + 1) = 13 + n
    BY <1>1, <1>2, <1>3
  <2>. QED  BY <2>1, <2>2, Zenon
<1>. DEFINE v == s \o t
<1>. HIDE DEF v
<1>7. /\ v \o u \in Seq(LoadSet) /\ Len(v \o u) = 14 + 2 * n
      /\ \A i \in 1..(13 + n) : (v \o u)[i] = v[i]
      /\ \A i \in 1..(n + 1) : (v \o u)[(13 + n) + i] = u[i]
  <2>1. v \in Seq(LoadSet) /\ Len(v) = 13 + n
    BY <1>6 DEF v
  <2>2. /\ v \o u \in Seq(LoadSet) /\ Len(v \o u) = Len(v) + Len(u)
        /\ \A i \in 1..Len(v) : (v \o u)[i] = v[i]
        /\ \A i \in 1..Len(u) : (v \o u)[Len(v) + i] = u[i]
    <3>1. v \in Seq(LoadSet) /\ u \in Seq(LoadSet)
      BY <1>4, <2>1
    <3>. QED  BY <3>1, Concat
  <2>3. Len(v) = 13 + n /\ Len(u) = n + 1 /\ (13 + n) + (n + 1) = 14 + 2 * n
    BY <1>1, <1>4, <2>1
  <2>. QED  BY <2>2, <2>3, Zenon
<1>8. Loads = v \o u
  BY <1>5 DEF v
<1>9. Len(Loads) = 14 + 2 * n /\ DOMAIN Loads = 1..(14 + 2 * n)
  BY <1>7, <1>8
<1>10. \A i \in 1..12 : Loads[i] = s[i]
  <2>1. \A i \in 1..12 : i \in 1..(13 + n)
    BY <1>1
  <2>. QED  BY <1>6, <1>7, <1>8, <2>1 DEF v
<1>11. \A i \in 1..(n + 1) : Loads[12 + i] = t[i]
  <2>1. \A i \in 1..(n + 1) : 12 + i \in 1..(13 + n)
    BY <1>1
  <2>. QED  BY <1>6, <1>7, <1>8, <2>1 DEF v
<1>12. \A i \in 1..(n + 1) : Loads[13 + n + i] = u[i]
  BY <1>7, <1>8
<1>13. /\ Loads[13] = t[1] /\ \A b \in 1..n : Loads[13 + b] = t[1 + b]
  <2>1. 1 \in 1..(n + 1) /\ \A b \in 1..n : 1 + b \in 1..(n + 1) /\ 12 + (1 + b) = 13 + b
    BY <1>1
  <2>2. Loads[12 + 1] = t[1]
    BY <1>11, <2>1
  <2>. QED  BY <1>11, <2>1, <2>2
<1>14. /\ Loads[14 + n] = u[1] /\ \A b \in 1..n : Loads[14 + n + b] = u[1 + b]
  <2>1. /\ 1 \in 1..(n + 1) /\ 13 + n + 1 = 14 + n
        /\ \A b \in 1..n : 1 + b \in 1..(n + 1) /\ 13 + n + (1 + b) = 14 + n + b
    BY <1>1
  <2>. QED  BY <1>12, <2>1
<1>15. First("selection") = 13 /\ First("handler") = 14 + n
  BY DEF First, n
<1>16. \A d \in Latencies : /\ Loads[First(d)] = Load("auctions", d, 0)
                            /\ \A b \in 1..n : Loads[First(d) + b] = Load("auctions", d, b)
  BY <1>3, <1>4, <1>13, <1>14, <1>15 DEF Latencies
<1>. QED  BY <1>1, <1>2, <1>9, <1>10, <1>16 DEF n

LEMMA LoadCases ==
  ASSUME NEW i \in DOMAIN Loads
  PROVE  \/ i \in 1..12 /\ Loads[i] = Load(Scalars[i], "none", 0)
         \/ \E d \in Latencies : i = First(d) /\ Loads[i] = Load("auctions", d, 0)
         \/ \E d \in Latencies : \E b \in Buckets :
              i = First(d) + b /\ Loads[i] = Load("auctions", d, b)
<1>. DEFINE n == Len(latencyUpperUS)
<1>1. n \in Nat /\ i \in 1..(14 + 2 * n) /\ Buckets = 1..n
  BY LoadsAre, BucketsAssumption DEF Buckets
<1>2. First("selection") = 13 /\ First("handler") = 14 + n
      /\ "selection" \in Latencies /\ "handler" \in Latencies
  BY DEF First, Latencies
<1>3. /\ \A k \in 1..12 : Loads[k] = Load(Scalars[k], "none", 0)
      /\ \A d \in Latencies : /\ Loads[First(d)] = Load("auctions", d, 0)
                              /\ \A b \in 1..n : Loads[First(d) + b] = Load("auctions", d, b)
  BY LoadsAre
<1>. HIDE DEF n
<1>4. \/ i \in 1..12
      \/ i = First("selection") \/ i = First("handler")
      \/ \E b \in 1..n : i = First("selection") + b
      \/ \E b \in 1..n : i = First("handler") + b
  <2>1. CASE i \in 1..13 \/ i = 14 + n
    BY <1>1, <1>2, <2>1
  <2>2. CASE i > 13 /\ i < 14 + n
    <3>1. i - 13 \in 1..n /\ i = 13 + (i - 13)
      BY <1>1, <2>2
    <3>. QED  BY <1>2, <3>1
  <2>3. CASE i > 14 + n
    <3>1. i - (14 + n) \in 1..n /\ i = 14 + n + (i - (14 + n))
      BY <1>1, <2>3
    <3>. QED  BY <1>2, <3>1
  <2>. QED  BY <1>1, <2>1, <2>2, <2>3
<1>5. CASE i \in 1..12
  BY <1>3, <1>5
<1>6. ASSUME NEW d \in Latencies, i = First(d)
      PROVE  \E e \in Latencies : i = First(e) /\ Loads[i] = Load("auctions", e, 0)
  BY <1>3, <1>6
<1>7. ASSUME NEW d \in Latencies, \E b \in 1..n : i = First(d) + b
      PROVE  \E e \in Latencies : \E b \in Buckets :
               i = First(e) + b /\ Loads[i] = Load("auctions", e, b)
  <2>1. PICK b \in Buckets : i = First(d) + b
    BY <1>1, <1>7
  <2>2. Loads[i] = Load("auctions", d, b)
    BY <1>1, <1>3, <2>1
  <2>. QED  BY <2>1, <2>2
<1>. QED  BY <1>2, <1>4, <1>5, <1>6, <1>7

(* The value shown for a counter is the one that was loaded for it.        *)
LEMMA ShownIs ==
  ASSUME NEW c \in Counters, NEW seen
  PROVE  \E i \in DOMAIN Loads : /\ Shown(seen, c) = seen[i]
                                 /\ Loads[i].counter = c /\ Loads[i].bucket = 0
<1>. DEFINE P(i) == Loads[i].counter = c /\ Loads[i].latency = "none"
            j == CHOOSE i \in DOMAIN Loads : P(i)
<1>1. \E i \in DOMAIN Loads : P(i)
  <2>1. PICK i \in DOMAIN Scalars : c = Scalars[i]
    BY DEF Counters
  <2>2. i \in 1..12
    BY DEF Scalars
  <2>3. i \in DOMAIN Loads /\ Loads[i] = Load(c, "none", 0)
    BY <2>1, <2>2, LoadsAre
  <2>. QED  BY <2>3 DEF Load
<1>2. j \in DOMAIN Loads /\ P(j)
  BY <1>1
<1>3. Shown(seen, c) = seen[j]
  BY DEF Shown
<1>. HIDE DEF j
<1>4. Loads[j].bucket = 0
  BY <1>2, LoadCases DEF Load, Latencies
<1>. QED  BY <1>2, <1>3, <1>4

(* +Inf shows the number of auctions, loaded for this histogram.           *)
LEMMA ShownInfIs ==
  ASSUME NEW d \in Latencies, NEW seen
  PROVE  \E i \in DOMAIN Loads : /\ ShownInf(seen, d) = seen[i]
                                 /\ Loads[i].counter = "auctions" /\ Loads[i].bucket = 0
<1>. DEFINE P(i) == Loads[i].latency = d /\ Loads[i].bucket = 0
            j == CHOOSE i \in DOMAIN Loads : P(i)
<1>1. \E i \in DOMAIN Loads : P(i)
  <2>1. First(d) \in DOMAIN Loads /\ Loads[First(d)] = Load("auctions", d, 0)
    BY LoadsAre DEF First, Latencies
  <2>. QED  BY <2>1 DEF Load
<1>2. j \in DOMAIN Loads /\ P(j)
  BY <1>1
<1>3. ShownInf(seen, d) = seen[j]
  BY DEF ShownInf
<1>. HIDE DEF j
<1>4. Loads[j].counter = "auctions"
  BY <1>2, LoadCases DEF Load, Latencies
<1>. QED  BY <1>2, <1>3, <1>4

(* The loads of the finite buckets of latency d, one per bucket.           *)
BucketLoads(d) == {i \in DOMAIN Loads : Loads[i].latency = d /\ Loads[i].bucket # 0}

LEMMA BucketLoadsAre ==
  ASSUME NEW d \in Latencies
  PROVE  /\ IsFiniteSet(BucketLoads(d))
         /\ \A i \in BucketLoads(d) : /\ i \in 1..Len(Loads) /\ Loads[i].bucket \in Buckets
                                      /\ Loads[i].latency = d
                                      /\ Loads[i].bucket # 0
         /\ \A i, k \in BucketLoads(d) : Loads[i].bucket = Loads[k].bucket => i = k
         /\ \A b \in Buckets : \E i \in BucketLoads(d) : Loads[i].bucket = b
<1>. DEFINE n == Len(latencyUpperUS)
<1>1. /\ n \in Nat /\ DOMAIN Loads = 1..(14 + 2 * n) /\ Len(Loads) = 14 + 2 * n
      /\ Buckets = 1..n
  BY LoadsAre, BucketsAssumption DEF Buckets
<1>2. IsFiniteSet(BucketLoads(d))
  <2>1. IsFiniteSet(1..(14 + 2 * n))
    BY <1>1, FS_Interval
  <2>2. BucketLoads(d) \subseteq 1..(14 + 2 * n)
    BY <1>1 DEF BucketLoads
  <2>. QED  BY <2>1, <2>2, FS_Subset
<1>3. ASSUME NEW i \in BucketLoads(d)
      PROVE  Loads[i].bucket \in Buckets /\ i = First(d) + Loads[i].bucket
  <2>1. i \in DOMAIN Loads /\ Loads[i].latency = d /\ Loads[i].bucket # 0
    BY DEF BucketLoads
  <2>2. CASE i \in 1..12 /\ Loads[i] = Load(Scalars[i], "none", 0)
    BY <2>1, <2>2 DEF Load
  <2>3. CASE \E e \in Latencies : i = First(e) /\ Loads[i] = Load("auctions", e, 0)
    BY <2>1, <2>3 DEF Load
  <2>4. CASE \E e \in Latencies : \E b \in Buckets :
               i = First(e) + b /\ Loads[i] = Load("auctions", e, b)
    BY <2>1, <2>4 DEF Load
  <2>. QED  BY <2>1, <2>2, <2>3, <2>4, LoadCases
<1>4. ASSUME NEW b \in Buckets
      PROVE  \E i \in BucketLoads(d) : Loads[i].bucket = b
  <2>1. b \in 1..n /\ b # 0
    BY <1>1
  <2>2. Loads[First(d) + b] = Load("auctions", d, b)
    BY <2>1, LoadsAre
  <2>3. First(d) + b \in DOMAIN Loads
    BY <1>1, <2>1 DEF First, Latencies
  <2>4. First(d) + b \in BucketLoads(d) /\ Loads[First(d) + b].bucket = b
    BY <2>1, <2>2, <2>3 DEF BucketLoads, Load
  <2>. QED  BY <2>4
<1>. QED  BY <1>1, <1>2, <1>3, <1>4 DEF BucketLoads

-----------------------------------------------------------------------------
(* What steps do to scrapes.                                               *)

(* A load only ever gets a larger value.                                   *)
LEMMA LoadsGrow ==
  ASSUME metric \in [Counters -> Nat], histogram \in [Latencies -> [Buckets -> Nat]],
         NEW h \in Handlers, NEW x, HandlerEffect(h, x), NEW i \in 1..Len(Loads)
  PROVE  /\ Loaded(Loads[i]) \in Nat /\ Loaded(Loads[i])' \in Nat
         /\ Loaded(Loads[i]) <= Loaded(Loads[i])'
<1>1. \A c \in Counters : metric[c] \in Nat /\ metric'[c] \in {metric[c], metric[c] + 1}
  BY DEF HandlerEffect, CountEffect, Bump
<1>2. ASSUME NEW d \in Latencies, NEW b \in Buckets
      PROVE  /\ histogram[d][b] \in Nat
             /\ histogram'[d][b] \in {histogram[d][b], histogram[d][b] + 1}
  <2>1. histogram[d] \in [Buckets -> Nat]
    OBVIOUS
  <2>2. CASE UNCHANGED histogram
    BY <2>1, <2>2
  <2>3. ASSUME NEW e \in Latencies, ObserveHistogram(e, job[h].timing[e])
        PROVE  histogram'[d][b] \in {histogram[d][b], histogram[d][b] + 1}
    <3>1. CASE d # e
      BY <2>1, <2>3, <3>1 DEF ObserveHistogram
    <3>2. CASE d = e
      <4>1. histogram'[d] = [k \in Buckets |-> histogram[d][k]
                               + IF InBucket(k, job[h].timing[e]) THEN 1 ELSE 0]
        BY <2>3, <3>2 DEF ObserveHistogram
      <4>2. histogram'[d][b] = histogram[d][b]
                               + IF InBucket(b, job[h].timing[e]) THEN 1 ELSE 0
        BY <4>1
      <4>. QED  BY <2>1, <4>2
    <3>. QED  BY <3>1, <3>2
  <2>. QED  BY <2>1, <2>2, <2>3 DEF HandlerEffect, ObserveEffect
<1>3. CASE Loads[i].bucket = 0 /\ Loads[i].counter \in Counters
  BY <1>1, <1>3 DEF Loaded
<1>4. CASE Loads[i].bucket # 0 /\ Loads[i].latency \in Latencies /\ Loads[i].bucket \in Buckets
  <2>1. /\ Loaded(Loads[i]) = histogram[Loads[i].latency][Loads[i].bucket]
        /\ Loaded(Loads[i])' = histogram'[Loads[i].latency][Loads[i].bucket]
    BY <1>4 DEF Loaded
  <2>2. /\ histogram[Loads[i].latency][Loads[i].bucket] \in Nat
        /\ histogram'[Loads[i].latency][Loads[i].bucket]
             \in {histogram[Loads[i].latency][Loads[i].bucket],
                  histogram[Loads[i].latency][Loads[i].bucket] + 1}
    BY <1>2, <1>4
  <2>. QED  BY <2>1, <2>2
<1>. QED  BY <1>3, <1>4, LoadsTypes

(* Handlers of other requests take the other steps.                        *)
LEMMA OtherSteps ==
  ASSUME HandlersInv, NEW h \in Handlers,
         HandlerStep(h) \/ StoreReply(h) \/ PingReply(h), ~Scrape(h)
  PROVE  req[h].kind # "metrics" /\ job[h].at \notin {"waiting", "done"} /\ quiet' = quiet
BY DEF HandlerStep, AuctionStep, StoreReply, PingReply, RunAuction, Tally, RecordDecision,
       CountDrop, Respond, CountAuction, ObserveLatency, ReceiveMutation, CheckReady,
       CountError, At, KeepRest, Latencies

LEMMA ScrapeLoads ==
  ASSUME HandlersInv, NEW h \in Handlers, Scrape(h)
  PROVE  LET n == Len(job[h].seen) + 1
         IN  /\ n \in 1..Len(Loads) /\ job[h].seen \in Seq(Nat) /\ job[h].at = "scrape"
             /\ job'[h].seen = Append(job[h].seen, Loaded(Loads[n]))
             /\ job'[h].at \in {"scrape", "done"}
             /\ job'[h].at = "done" => n = Len(Loads)
             /\ \A g \in Handlers : g # h => job'[g] = job[g]
             /\ quiet' = quiet /\ req' = req /\ metric' = metric /\ histogram' = histogram
<1>. DEFINE n == Len(job[h].seen) + 1
            value == Loaded(Loads[n])
<1>1. job[h] \in Jobs /\ Shape(req[h], job[h]) /\ job[h].at = "scrape" /\ req[h].kind = "metrics"
      /\ job \in [Handlers -> Jobs]
  BY DEF HandlersInv, Scrape, At
<1>2. n \in 1..Len(Loads) /\ job[h].seen \in Seq(Nat)
  BY <1>1, LoadsTypes DEF Jobs, Shape, MetricsShape
<1>3. /\ job' = [job EXCEPT ![h].seen = Append(job[h].seen, value),
                 ![h].at = IF Len(Append(job[h].seen, value)) = Len(Loads) THEN "done" ELSE "scrape",
                 ![h].answer = IF Len(Append(job[h].seen, value)) = Len(Loads) THEN 200 ELSE 0]
      /\ KeepRest /\ UNCHANGED metricsVars
  BY DEF Scrape
<1>. HIDE DEF value
<1>4. Len(Append(job[h].seen, value)) = n
  BY <1>2
<1>. HIDE DEF n
<1>5. /\ job'[h].seen = Append(job[h].seen, value)
      /\ job'[h].at = IF Len(Append(job[h].seen, value)) = Len(Loads) THEN "done" ELSE "scrape"
      /\ \A g \in Handlers : g # h => job'[g] = job[g]
  BY <1>1, <1>3 DEF Jobs
<1>. QED  BY <1>1, <1>2, <1>3, <1>4, <1>5 DEF KeepRest, metricsVars, n, value

LEMMA ArriveStarts ==
  ASSUME HandlersInv, NEW h \in Handlers, Arrive(h)
  PROVE  /\ job'[h].seen = job[h].seen /\ job[h].at = "waiting"
         /\ job'[h].at \notin {"waiting", "done"}
         /\ \A g \in Handlers : g # h => job'[g] = job[g]
         /\ quiet' = (IF Active = {} THEN {h} ELSE {})
         /\ req' = req /\ metric' = metric /\ histogram' = histogram
<1>1. job \in [Handlers -> Jobs] /\ job[h] \in Jobs
  BY DEF HandlersInv
<1>2. job' = [job EXCEPT ![h].at = IF req[h].kind = "metrics" THEN "scrape" ELSE "received"]
  BY DEF Arrive, Step
<1>. QED  BY <1>1, <1>2 DEF Jobs, Arrive, metricsVars

(* Steps of main and of the log do not touch the handlers.                 *)
LEMMA MainLeavesHandlers ==
  ASSUME Startup \/ Shutdown \/ Signal \/ Accept \/ ListenFails \/ LogStep \/ UNCHANGED vars
  PROVE  /\ req' = req /\ job' = job /\ quiet' = quiet
         /\ metric' = metric /\ histogram' = histogram
<1>1. UNCHANGED handlerVars
  BY DEF Startup, ReadConfig, Ping, Warm, BuildServer, BuildEngine, Listen, Shutdown,
         BeginShutdown, EndShutdown, CloseStore, CloseLog, Return, Signal, Accept, ListenFails,
         LogStep, vars
<1>. QED  BY <1>1 DEF handlerVars, metricsVars

LEMMA ScrapeNext ==
  ASSUME ServerInv, ScrapeInv, [Next]_vars
  PROVE  ScrapeInv'
<1>. USE DEF ServerInv
<1>1. CASE Startup \/ Shutdown \/ Signal \/ Accept \/ ListenFails \/ LogStep \/ UNCHANGED vars
  BY <1>1, MainLeavesHandlers DEF ScrapeInv, Loaded
<1>2. ASSUME NEW h \in Handlers, Arrive(h) \/ HandlerStep(h) \/ StoreReply(h) \/ PingReply(h),
             NEW g \in Handlers, req'[g].kind = "metrics"
      PROVE  /\ \A i \in 1..Len(job'[g].seen) : job'[g].seen[i] <= Loaded(Loads[i])'
             /\ job'[g].at = "waiting" => job'[g].seen = <<>>
             /\ job'[g].at = "done" => Len(job'[g].seen) = Len(Loads)
  <2>1. PICK x : HandlerEffect(h, x)
    BY <1>2, HandlerEffects DEF CountInv, HistogramInv
  <2>2. /\ \A k \in Handlers : k # h => job'[k] = job[k]
        /\ req' = req
    BY <2>1 DEF HandlerEffect, Moved
  <2>3. /\ \A i \in 1..Len(job[g].seen) : job[g].seen[i] <= Loaded(Loads[i])
        /\ job[g].at = "waiting" => job[g].seen = <<>>
        /\ job[g].at = "done" => Len(job[g].seen) = Len(Loads)
    BY <1>2, <2>2 DEF ScrapeInv
  <2>4. job[g].seen \in Seq(Nat) /\ Len(job[g].seen) <= Len(Loads) /\ Len(Loads) \in Nat
    BY LoadsTypes DEF HandlersInv, Jobs, Shape
  <2>5. \A i \in 1..Len(job[g].seen) : job[g].seen[i] <= Loaded(Loads[i])'
    <3>. SUFFICES ASSUME NEW i \in 1..Len(job[g].seen)
                  PROVE  job[g].seen[i] <= Loaded(Loads[i])'
      OBVIOUS
    <3>1. i \in 1..Len(Loads) /\ job[g].seen[i] \in Nat
      BY <2>4
    <3>2. /\ Loaded(Loads[i]) \in Nat /\ Loaded(Loads[i])' \in Nat
          /\ Loaded(Loads[i]) <= Loaded(Loads[i])'
      BY <2>1, <3>1, LoadsGrow DEF CountInv, HistogramInv
    <3>. QED  BY <2>3, <3>1, <3>2
  <2>6. CASE g # h
    BY <2>2, <2>3, <2>5, <2>6
  <2>7. CASE g = h /\ Arrive(h)
    BY <2>3, <2>5, <2>7, ArriveStarts
  <2>8. CASE g = h /\ Scrape(h)
    <3>. DEFINE n == Len(job[h].seen) + 1
                value == Loaded(Loads[n])
    <3>1. /\ n \in 1..Len(Loads) /\ job[h].seen \in Seq(Nat)
          /\ job'[h].seen = Append(job[h].seen, value)
          /\ job'[h].at \in {"scrape", "done"} /\ (job'[h].at = "done" => n = Len(Loads))
          /\ metric' = metric /\ histogram' = histogram
      BY <2>8, ScrapeLoads
    <3>2. value \in Nat
      BY <2>1, <3>1, LoadsGrow DEF CountInv, HistogramInv
    <3>3. \A i \in 1..Len(Loads) : Loaded(Loads[i])' = Loaded(Loads[i])
      BY <3>1 DEF Loaded
    <3>. HIDE DEF value
    <3>4. /\ Len(job'[h].seen) = n /\ job'[h].seen[n] = value
          /\ \A i \in 1..Len(job[h].seen) : job'[h].seen[i] = job[h].seen[i]
      <4>1. Append(job[h].seen, value)[n] = value /\ Len(Append(job[h].seen, value)) = n
            /\ \A i \in 1..Len(job[h].seen) : Append(job[h].seen, value)[i] = job[h].seen[i]
        BY <3>1
      <4>. QED  BY <3>1, <4>1
    <3>5. ASSUME NEW i \in 1..n
          PROVE  job'[h].seen[i] <= Loaded(Loads[i])'
      <4>1. i \in 1..Len(Loads) /\ (i \in 1..Len(job[h].seen) \/ i = n)
        BY <2>4, <2>8, <3>1
      <4>2. CASE i = n
        BY <3>2, <3>3, <3>4, <4>1, <4>2 DEF value
      <4>3. CASE i \in 1..Len(job[h].seen)
        BY <2>5, <2>8, <3>4, <4>3
      <4>. QED  BY <4>1, <4>2, <4>3
    <3>6. \A i \in 1..Len(job'[h].seen) : job'[h].seen[i] <= Loaded(Loads[i])'
      BY <3>4, <3>5
    <3>. QED  BY <2>8, <3>1, <3>4, <3>6
  <2>9. CASE g = h /\ ~Arrive(h) /\ ~Scrape(h)
    BY <1>2, <2>2, <2>9, OtherSteps
  <2>. QED  BY <2>6, <2>7, <2>8, <2>9
<1>3. ASSUME NEW h \in Handlers, Arrive(h) \/ HandlerStep(h) \/ StoreReply(h) \/ PingReply(h)
      PROVE  ScrapeInv'
  BY <1>2, <1>3 DEF ScrapeInv
<1>. QED  BY <1>1, <1>3 DEF Next

LEMMA QuietNext ==
  ASSUME ServerInv, ScrapeInv, QuietInv, [Next]_vars
  PROVE  QuietInv'
<1>. USE DEF ServerInv
<1>1. CASE Startup \/ Shutdown \/ Signal \/ Accept \/ ListenFails \/ LogStep \/ UNCHANGED vars
  BY <1>1, MainLeavesHandlers DEF QuietInv, Loaded
<1>2. ASSUME NEW h \in Handlers, Arrive(h)
      PROVE  QuietInv'
  <2>1. /\ job'[h].seen = job[h].seen /\ job[h].at = "waiting"
        /\ \A g \in Handlers : g # h => job'[g] = job[g]
        /\ quiet' = (IF Active = {} THEN {h} ELSE {}) /\ req' = req
    BY <1>2, ArriveStarts
  <2>2. req[h].kind = "metrics" => job'[h].seen = <<>>
    BY <2>1 DEF ScrapeInv
  <2>3. Active = {} => \A g \in Handlers : job'[g].at \notin {"waiting", "done"} => g = h
    BY <2>1 DEF Active
  <2>4. 1..Len(<<>>) = {}
    OBVIOUS
  <2>. QED  BY <2>1, <2>2, <2>3, <2>4 DEF QuietInv
<1>3. ASSUME NEW h \in Handlers, HandlerStep(h) \/ StoreReply(h) \/ PingReply(h), ~Scrape(h)
      PROVE  QuietInv'
  <2>1. PICK x : HandlerEffect(h, x)
    BY <1>3, HandlerEffects DEF CountInv, HistogramInv
  <2>2. /\ \A k \in Handlers : k # h => job'[k] = job[k]
        /\ req' = req
    BY <2>1 DEF HandlerEffect, Moved
  <2>3. req[h].kind # "metrics" /\ job[h].at \notin {"waiting", "done"} /\ quiet' = quiet
    BY <1>3, OtherSteps
  <2>4. \A g \in quiet : g = h
    BY <2>3 DEF QuietInv
  <2>. QED  BY <2>2, <2>3, <2>4 DEF QuietInv
<1>4. ASSUME NEW h \in Handlers, Scrape(h)
      PROVE  QuietInv'
  <2>. DEFINE n == Len(job[h].seen) + 1
              value == Loaded(Loads[n])
  <2>1. /\ n \in 1..Len(Loads) /\ job[h].seen \in Seq(Nat) /\ job[h].at = "scrape"
        /\ job'[h].seen = Append(job[h].seen, value)
        /\ \A g \in Handlers : g # h => job'[g] = job[g]
        /\ quiet' = quiet /\ req' = req /\ metric' = metric /\ histogram' = histogram
    BY <1>4, ScrapeLoads
  <2>2. \A i \in 1..Len(Loads) : Loaded(Loads[i])' = Loaded(Loads[i])
    BY <2>1 DEF Loaded
  <2>. HIDE DEF value
  <2>3. /\ Len(job'[h].seen) = n /\ job'[h].seen[n] = value
        /\ \A i \in 1..Len(job[h].seen) : job'[h].seen[i] = job[h].seen[i]
    <3>1. Append(job[h].seen, value)[n] = value /\ Len(Append(job[h].seen, value)) = n
          /\ \A i \in 1..Len(job[h].seen) : Append(job[h].seen, value)[i] = job[h].seen[i]
      BY <2>1
    <3>. QED  BY <2>1, <3>1
  <2>4. \A g \in quiet : g = h
    BY <2>1 DEF QuietInv
  <2>5. h \in quiet /\ req[h].kind = "metrics" =>
          \A i \in 1..Len(job'[h].seen) : job'[h].seen[i] = Loaded(Loads[i])'
    <3>. SUFFICES ASSUME h \in quiet, req[h].kind = "metrics", NEW i \in 1..n
                  PROVE  job'[h].seen[i] = Loaded(Loads[i])'
      BY <2>3
    <3>1. i \in 1..Len(Loads)
      BY <2>1
    <3>2. CASE i = n
      BY <2>2, <2>3, <3>1, <3>2 DEF value
    <3>3. CASE i # n
      <4>1. i \in 1..Len(job[h].seen)
        BY <2>1, <3>3
      <4>2. job[h].seen[i] = Loaded(Loads[i])
        BY <4>1 DEF QuietInv
      <4>. QED  BY <2>2, <2>3, <3>1, <4>1, <4>2
    <3>. QED  BY <3>2, <3>3
  <2>6. \A g \in Handlers : h \in quiet /\ job'[g].at \notin {"waiting", "done"} => g = h
    BY <2>1 DEF QuietInv
  <2>. QED  BY <2>1, <2>4, <2>5, <2>6 DEF QuietInv
<1>. QED  BY <1>1, <1>2, <1>3, <1>4 DEF Next

(***************************************************************************)
(* What a scrape has loaded is at most what there is now, and exactly what *)
(* there is while it runs alone.                                           *)
(***************************************************************************)
THEOREM ScrapeSafety == Spec => [](ServerInv /\ ScrapeInv /\ QuietInv)
<1>1. Init => ScrapeInv /\ QuietInv
  <2>. SUFFICES ASSUME Init  PROVE ScrapeInv /\ QuietInv
    OBVIOUS
  <2>1. \A h \in Handlers : job[h].at = "waiting" /\ job[h].seen = <<>>
    BY DEF Init, IdleJob
  <2>2. 1..Len(<<>>) = {} /\ quiet = {}
    BY DEF Init
  <2>. QED  BY <2>1, <2>2 DEF ScrapeInv, QuietInv
<1>2. ServerInv /\ ScrapeInv /\ QuietInv /\ [Next]_vars => ScrapeInv' /\ QuietInv'
  BY ScrapeNext, QuietNext
<1>. QED  BY <1>1, <1>2, ServerSafety, PTL DEF Spec

-----------------------------------------------------------------------------
(* Buckets and their observations.                                         *)

(* A finite set has subsets of every smaller size.                         *)
LEMMA SubsetOfSize ==
  ASSUME NEW S, IsFiniteSet(S), NEW n \in Nat, n <= Cardinality(S)
  PROVE  \E T \in SUBSET S : Cardinality(T) = n
<1>. DEFINE m == Cardinality(S)
<1>1. m \in Nat /\ ExistsBijection(1..m, S)
  BY FS_CardinalityType
<1>. HIDE DEF m
<1>2. PICK f \in [1..m -> S] : \A i, k \in 1..m : f[i] = f[k] => i = k
  BY <1>1 DEF ExistsBijection, Bijection, Injection, IsInjective
<1>. DEFINE T == {f[i] : i \in 1..n}
            g == [i \in 1..n |-> f[i]]
<1>3. 1..n \subseteq 1..m
  BY <1>1 DEF m
<1>4. T \in SUBSET S
  BY <1>2, <1>3
<1>5. g \in Bijection(1..n, T)
  BY <1>2, <1>3 DEF Bijection, Injection, Surjection, IsInjective
<1>6. Cardinality(T) = n
  <2>1. ExistsBijection(1..n, T)
    BY <1>5 DEF ExistsBijection
  <2>. HIDE DEF T
  <2>. QED  BY <2>1, FS_CountingElements
<1>. QED  BY <1>4, <1>6

(* A latency has one bucket at most, and one if some bound is large enough.*)
LEMMA OneBucket ==
  ASSUME NEW us \in Nat, NEW i \in Buckets, NEW k \in Buckets,
         InBucket(i, us), InBucket(k, us)
  PROVE  i = k
<1>1. i \in Nat \ {0} /\ k \in Nat \ {0}
      /\ latencyUpperUS[i] \in Nat /\ latencyUpperUS[k] \in Nat
  BY BucketsAssumption DEF Buckets
<1>2. i < k => i \in 1..(k - 1)
  BY <1>1
<1>3. k < i => k \in 1..(i - 1)
  BY <1>1
<1>4. ~(i < k) /\ ~(k < i)
  BY <1>1, <1>2, <1>3 DEF InBucket
<1>. QED  BY <1>1, <1>4

LEMMA SomeBucket ==
  ASSUME NEW us \in Nat, NEW k \in Buckets, us <= latencyUpperUS[k]
  PROVE  \E i \in Buckets : InBucket(i, us)
<1>. DEFINE R == OpToRel(<, Nat)
            T == {i \in Buckets : us <= latencyUpperUS[i]}
<1>1. IsWellFoundedOn(R, Nat)
  BY NatLessThanWellFounded
<1>2. R = {ss \in Nat \X Nat : ss[1] < ss[2]}
  BY DEF OpToRel
<1>3. Buckets = 1..Len(latencyUpperUS) /\ Len(latencyUpperUS) \in Nat
      /\ \A i \in Buckets : latencyUpperUS[i] \in Nat
  BY BucketsAssumption DEF Buckets
<1>4. T \subseteq Nat /\ T # {}
  BY <1>3
<1>. HIDE DEF R
<1>5. PICK i \in T : \A j \in T : ~(<<j, i>> \in R)
  <2>. HIDE DEF T
  <2>. QED  BY <1>1, <1>4, WFMin
<1>6. \A j \in 1..(i - 1) : us > latencyUpperUS[j]
  <2>. SUFFICES ASSUME NEW j \in 1..(i - 1)  PROVE us > latencyUpperUS[j]
    OBVIOUS
  <2>1. i \in Nat /\ j \in Nat /\ j < i /\ j \in Buckets
    BY <1>3, <1>5
  <2>2. <<j, i>> \in R
    BY <1>2, <2>1
  <2>3. ~(us <= latencyUpperUS[j])
    BY <1>5, <2>1, <2>2
  <2>. QED  BY <1>3, <2>1, <2>3
<1>. QED  BY <1>5, <1>6 DEF InBucket

(* The handlers whose latency d was observed in the bucket of load i.      *)
Observers(i, d) == {h \in Observed(d) : InBucket(Loads[i].bucket, job[h].timing[d])}

LEMMA ObserversAre ==
  ASSUME ServerInv, NEW d \in Latencies
  PROVE  /\ \A i \in BucketLoads(d) : /\ Observers(i, d) \subseteq Handlers
                                      /\ Loaded(Loads[i]) = Cardinality(Observers(i, d))
                                      /\ IsFiniteSet(Observers(i, d))
         /\ \A i, k \in BucketLoads(d) : i # k => Observers(i, d) \cap Observers(k, d) = {}
         /\ \A h \in Handlers : job[h].timing[d] \in Nat
<1>. USE DEF ServerInv
<1>1. /\ \A i \in BucketLoads(d) : /\ Loads[i].bucket \in Buckets /\ Loads[i].latency = d
                                   /\ Loads[i].bucket # 0
      /\ \A i, k \in BucketLoads(d) : Loads[i].bucket = Loads[k].bucket => i = k
  BY BucketLoadsAre
<1>2. ASSUME NEW h \in Handlers
      PROVE  job[h].timing[d] \in Nat
  <2>1. job[h] \in Jobs
    BY DEF HandlersInv
  <2>2. job[h].timing \in Timings
    BY <2>1 DEF Jobs
  <2>3. job[h].timing.selection \in Nat /\ job[h].timing.handler \in Nat
    BY <2>2 DEF Timings
  <2>. QED  BY <2>3 DEF Latencies
<1>3. ASSUME NEW i \in BucketLoads(d)
      PROVE  /\ Observers(i, d) \subseteq Handlers
             /\ Loaded(Loads[i]) = Cardinality(Observers(i, d))
             /\ IsFiniteSet(Observers(i, d))
  <2>1. Observers(i, d) \subseteq Handlers
    BY DEF Observers, Observed
  <2>2. IsFiniteSet(Observers(i, d))
    BY <2>1, ServerAssumption, FS_Subset
  <2>3. Loaded(Loads[i]) = histogram[d][Loads[i].bucket]
    BY <1>1 DEF Loaded
  <2>4. histogram[d][Loads[i].bucket] = Cardinality(Observers(i, d))
    BY <1>1 DEF HistogramInv, Observers
  <2>. QED  BY <2>1, <2>2, <2>3, <2>4
<1>4. ASSUME NEW i \in BucketLoads(d), NEW k \in BucketLoads(d),
             NEW h \in Observers(i, d), h \in Observers(k, d)
      PROVE  i = k
  <2>1. /\ InBucket(Loads[i].bucket, job[h].timing[d])
        /\ InBucket(Loads[k].bucket, job[h].timing[d]) /\ h \in Handlers
    BY <1>4 DEF Observers, Observed
  <2>2. job[h].timing[d] \in Nat
    BY <1>2, <2>1
  <2>3. Loads[i].bucket = Loads[k].bucket
    BY <1>1, <2>1, <2>2, OneBucket
  <2>. QED  BY <1>1, <2>3
<1>. QED  BY <1>2, <1>3, <1>4

LEMMA ShownFiniteIs ==
  ASSUME NEW d, NEW seen
  PROVE  ShownFinite(seen, d) = SumOver(seen, BucketLoads(d))[BucketLoads(d)]
BY DEF ShownFinite, BucketLoads, MapThenSumSet, MapThenFoldSet, SumOver

(* Values that are not ahead of the finite buckets sum up to no more than  *)
(* the auctions that are counted.                                          *)
LEMMA FiniteNotAhead ==
  ASSUME ServerInv, NEW d \in Latencies, NEW seen,
         \A i \in BucketLoads(d) : seen[i] \in Nat /\ seen[i] <= Loaded(Loads[i])
  PROVE  ShownFinite(seen, d) <= metric["auctions"]
<1>. DEFINE I == BucketLoads(d)
            Part(i) == CHOOSE T \in SUBSET Observers(i, d) : Cardinality(T) = seen[i]
            B == [i \in I |-> Part(i)]
            A == {h \in Handlers : "auctions" \in Counted(req[h], job[h])}
<1>1. ASSUME NEW i \in I
      PROVE  Part(i) \subseteq Observers(i, d) /\ Cardinality(Part(i)) = seen[i]
             /\ Observers(i, d) \subseteq Handlers
  <2>1. /\ Loaded(Loads[i]) = Cardinality(Observers(i, d)) /\ IsFiniteSet(Observers(i, d))
        /\ Observers(i, d) \subseteq Handlers
    BY ObserversAre
  <2>2. \E T \in SUBSET Observers(i, d) : Cardinality(T) = seen[i]
    BY <2>1, SubsetOfSize
  <2>. QED  BY <2>1, <2>2
<1>. HIDE DEF Part
<1>2. B \in [I -> SUBSET Handlers] /\ \A i \in I : seen[i] = Cardinality(B[i])
  BY <1>1
<1>3. \A i, k \in I : i # k => B[i] \cap B[k] = {}
  <2>1. \A i, k \in I : i # k => Observers(i, d) \cap Observers(k, d) = {}
    BY ObserversAre
  <2>. QED  BY <1>1, <2>1
<1>4. IsFiniteSet(I) /\ IsFiniteSet(Handlers)
  BY BucketLoadsAre, ServerAssumption
<1>5. ShownFinite(seen, d) = SumOver(seen, I)[I]
  BY ShownFiniteIs
<1>6. UNION {B[i] : i \in I} \subseteq A
  <2>1. \A i \in I : B[i] \subseteq Observed(d)
    BY <1>1 DEF Observers
  <2>2. Observed(d) \subseteq A
    BY CountersAre DEF Observed, Observes, Counted, Due, After, Latencies
  <2>. QED  BY <2>1, <2>2
<1>7. metric["auctions"] = Cardinality(A) /\ IsFiniteSet(A)
  <2>1. metric["auctions"] = Cardinality(A)
    BY CountersAre DEF ServerInv, CountInv
  <2>. QED  BY <2>1, ServerAssumption, FS_Subset
<1>. HIDE DEF B, I, A
<1>8. SumOver(seen, I)[I] = Cardinality(UNION {B[i] : i \in I})
  BY <1>2, <1>3, <1>4, SumOfSizes
<1>. QED  BY <1>5, <1>6, <1>7, <1>8, FS_Subset

(* Values that are those of the finite buckets sum up to the auctions      *)
(* observed within a bound.                                                *)
LEMMA FiniteExact ==
  ASSUME ServerInv, NEW d \in Latencies, NEW seen,
         \A i \in BucketLoads(d) : seen[i] = Loaded(Loads[i])
  PROVE  ShownFinite(seen, d)
           = Cardinality({h \in Observed(d) :
                            \E b \in Buckets : job[h].timing[d] <= latencyUpperUS[b]})
<1>. DEFINE I == BucketLoads(d)
            B == [i \in I |-> Observers(i, d)]
            A == {h \in Observed(d) : \E b \in Buckets : job[h].timing[d] <= latencyUpperUS[b]}
<1>1. B \in [I -> SUBSET Handlers] /\ \A i \in I : seen[i] = Cardinality(B[i])
  BY ObserversAre
<1>2. \A i, k \in I : i # k => B[i] \cap B[k] = {}
  BY ObserversAre
<1>3. IsFiniteSet(I) /\ IsFiniteSet(Handlers)
  BY BucketLoadsAre, ServerAssumption
<1>4. ShownFinite(seen, d) = SumOver(seen, I)[I]
  BY ShownFiniteIs
<1>5. UNION {B[i] : i \in I} = A
  <2>1. ASSUME NEW i \in I, NEW h \in B[i]
        PROVE  h \in A
    <3>1. h \in Observed(d) /\ InBucket(Loads[i].bucket, job[h].timing[d])
      BY <2>1 DEF Observers
    <3>2. Loads[i].bucket \in Buckets
      BY BucketLoadsAre
    <3>. QED  BY <3>1, <3>2 DEF InBucket
  <2>2. ASSUME NEW h \in A
        PROVE  \E i \in I : h \in B[i]
    <3>1. PICK b \in Buckets : job[h].timing[d] <= latencyUpperUS[b]
      OBVIOUS
    <3>2. h \in Observed(d) /\ h \in Handlers
      BY DEF Observed
    <3>3. job[h].timing[d] \in Nat
      BY <3>2, ObserversAre
    <3>4. PICK k \in Buckets : InBucket(k, job[h].timing[d])
      BY <3>1, <3>3, SomeBucket
    <3>5. PICK i \in I : Loads[i].bucket = k
      BY BucketLoadsAre
    <3>. QED  BY <3>2, <3>4, <3>5 DEF Observers
  <2>. QED  BY <2>1, <2>2
<1>. HIDE DEF B, I, A
<1>6. SumOver(seen, I)[I] = Cardinality(UNION {B[i] : i \in I})
  BY <1>1, <1>2, <1>3, SumOfSizes
<1>7. ShownFinite(seen, d) = Cardinality(A)
  BY <1>4, <1>5, <1>6
<1>. QED  BY <1>7 DEF A

-----------------------------------------------------------------------------
(* Counters and the totals they are part of.                               *)

LEMMA PartsOfTotals ==
  ASSUME ServerInv
  PROVE  /\ metric["filled"] + metric["noBid"] <= metric["auctions"]
         /\ metric["bidMutationErrors"] <= metric["bidMutations"]
         /\ metric["readinessFailures"] <= metric["readinessChecks"]
         /\ metric["decisionLogDropped"] <= dropped
         /\ \A c \in Counters : metric[c] \in Nat
         /\ dropped \in Nat
<1>. USE DEF ServerInv
<1>. DEFINE Q(c) == {h \in Handlers : c \in Counted(req[h], job[h])}
            D == {h \in Handlers : job[h].log = "dropped"}
<1>1. \A S \in SUBSET Handlers : IsFiniteSet(S)
  BY ServerAssumption, FS_Subset
<1>2. \A S, T \in SUBSET Handlers : S \subseteq T => Cardinality(S) <= Cardinality(T)
  BY <1>1, FS_Subset
<1>3. /\ \A c \in Counters : metric[c] = Cardinality(Q(c)) /\ metric[c] \in Nat
      /\ dropped = Cardinality(D)
  BY DEF CountInv
<1>4. \A c : Q(c) \in SUBSET Handlers /\ D \in SUBSET Handlers
  OBVIOUS
<1>5. /\ Q("filled") \subseteq Q("auctions") /\ Q("noBid") \subseteq Q("auctions")
      /\ Q("filled") \cap Q("noBid") = {}
  BY CountersAre DEF Counted, Due, After
<1>6. Q("bidMutationErrors") \subseteq Q("bidMutations")
  BY CountersAre DEF Counted, Due, After
<1>7. Q("readinessFailures") \subseteq Q("readinessChecks")
  BY CountersAre DEF Counted, Due, After
<1>8. Q("decisionLogDropped") \subseteq D
  BY CountersAre DEF Counted, Due
<1>. HIDE DEF Q, D
<1>9. Cardinality(Q("filled") \cup Q("noBid"))
        = Cardinality(Q("filled")) + Cardinality(Q("noBid"))
  <2>1. Cardinality(Q("filled") \cup Q("noBid"))
          = Cardinality(Q("filled")) + Cardinality(Q("noBid"))
              - Cardinality(Q("filled") \cap Q("noBid"))
    BY <1>1, <1>4, FS_Union
  <2>2. Cardinality(Q("filled") \cap Q("noBid")) = 0
    BY <1>5, FS_EmptySet
  <2>3. Cardinality(Q("filled")) \in Nat /\ Cardinality(Q("noBid")) \in Nat
    BY <1>1, <1>4, FS_CardinalityType
  <2>. QED  BY <2>1, <2>2, <2>3
<1>10. Cardinality(Q("filled") \cup Q("noBid")) <= Cardinality(Q("auctions"))
  <2>1. Q("filled") \cup Q("noBid") \subseteq Q("auctions")
    BY <1>5
  <2>2. Q("filled") \cup Q("noBid") \in SUBSET Handlers
    BY <1>4
  <2>. QED  BY <1>2, <1>4, <2>1, <2>2
<1>11. metric["filled"] + metric["noBid"] <= metric["auctions"]
  BY <1>3, <1>9, <1>10, CountersAre
<1>12. dropped \in Nat
  BY <1>1, <1>3, <1>4, FS_CardinalityType
<1>. QED  BY <1>2, <1>3, <1>4, <1>6, <1>7, <1>8, <1>11, <1>12, CountersAre

(***************************************************************************)
(* A scrape that overlaps with other requests never shows more than there  *)
(* is by then, for any number of requests and buckets: each outcome and    *)
(* observation it shows belongs to an auction that is counted, each error  *)
(* to a mutation or a check that is counted.                               *)
(***************************************************************************)
THEOREM ScrapesAreNotAhead == Spec => []ScrapeNotAhead
<1>1. ServerInv /\ ScrapeInv => ScrapeNotAhead
  <2>. SUFFICES ASSUME ServerInv, ScrapeInv, NEW h \in Handlers,
                       req[h].kind = "metrics", job[h].at = "done"
                PROVE  LET seen == job[h].seen
                       IN  /\ Shown(seen, "filled") + Shown(seen, "noBid") <= metric["auctions"]
                           /\ \A d \in Latencies : ShownFinite(seen, d) <= metric["auctions"]
                           /\ Shown(seen, "bidMutationErrors") <= metric["bidMutations"]
                           /\ Shown(seen, "readinessFailures") <= metric["readinessChecks"]
                           /\ Shown(seen, "decisionLogDropped") <= dropped
    BY DEF ScrapeNotAhead
  <2>. DEFINE seen == job[h].seen
  <2>1. Len(seen) = Len(Loads) /\ \A i \in 1..Len(Loads) : seen[i] <= Loaded(Loads[i])
    BY DEF ScrapeInv
  <2>2. \A i \in 1..Len(Loads) : seen[i] \in Nat
    <3>1. seen \in Seq(Nat)
      BY DEF ServerInv, HandlersInv, Jobs
    <3>. QED  BY <2>1, <3>1
  <2>3. DOMAIN Loads = 1..Len(Loads)
    BY LoadsAre
  <2>. HIDE DEF seen
  <2>4. ASSUME NEW c \in Counters
        PROVE  Shown(seen, c) \in Nat /\ Shown(seen, c) <= metric[c]
    <3>1. PICK i \in DOMAIN Loads : /\ Shown(seen, c) = seen[i]
                                    /\ Loads[i].counter = c /\ Loads[i].bucket = 0
      BY ShownIs
    <3>2. Loaded(Loads[i]) = metric[c]
      BY <3>1 DEF Loaded
    <3>. QED  BY <2>1, <2>2, <2>3, <3>1, <3>2
  <2>5. ASSUME NEW d \in Latencies
        PROVE  ShownFinite(seen, d) <= metric["auctions"]
    <3>1. \A i \in BucketLoads(d) : i \in 1..Len(Loads)
      BY BucketLoadsAre
    <3>2. \A i \in BucketLoads(d) : seen[i] \in Nat /\ seen[i] <= Loaded(Loads[i])
      BY <2>1, <2>2, <3>1
    <3>. QED  BY <3>2, FiniteNotAhead
  <2>6. Shown(seen, "filled") + Shown(seen, "noBid") <= metric["auctions"]
    BY <2>4, PartsOfTotals, CountersAre
  <2>7. /\ Shown(seen, "bidMutationErrors") <= metric["bidMutations"]
        /\ Shown(seen, "readinessFailures") <= metric["readinessChecks"]
        /\ Shown(seen, "decisionLogDropped") <= dropped
    BY <2>4, PartsOfTotals, CountersAre
  <2>. QED  BY <2>5, <2>6, <2>7 DEF seen
<1>. QED  BY <1>1, ScrapeSafety, PTL

(***************************************************************************)
(* A scrape during which no other handler ran is exact: its outcomes add   *)
(* up to the auctions there were, +Inf shows all of them and the finite    *)
(* buckets exactly those within the last bound, for any bounds.            *)
(***************************************************************************)
THEOREM QuietScrapesAreExact == Spec => []QuietScrapeExact
<1>1. ServerInv /\ ScrapeInv /\ QuietInv => QuietScrapeExact
  <2>. SUFFICES ASSUME ServerInv, ScrapeInv, QuietInv, NEW h \in quiet,
                       req[h].kind = "metrics", job[h].at = "done"
                PROVE  LET seen == job[h].seen
                       IN  /\ Shown(seen, "auctions") = Cardinality(Auctioned)
                           /\ Shown(seen, "filled") + Shown(seen, "noBid") = Cardinality(Auctioned)
                           /\ \A d \in Latencies :
                                /\ ShownInf(seen, d) = Cardinality(Auctioned)
                                /\ ShownFinite(seen, d) = Cardinality(Within(d))
    BY DEF QuietScrapeExact
  <2>. DEFINE seen == job[h].seen
              Q(c) == {g \in Handlers : c \in Counted(req[g], job[g])}
  <2>1. h \in Handlers /\ \A g \in Handlers : job[g].at \in {"waiting", "done"}
    BY DEF QuietInv
  <2>2. Len(seen) = Len(Loads)
    BY <2>1 DEF ScrapeInv
  <2>3. \A i \in 1..Len(Loads) : seen[i] = Loaded(Loads[i])
    BY <2>2 DEF QuietInv
  <2>4. DOMAIN Loads = 1..Len(Loads)
    BY LoadsAre
  <2>. HIDE DEF seen
  <2>5. ASSUME NEW c \in Counters
        PROVE  Shown(seen, c) = metric[c]
    <3>1. PICK i \in DOMAIN Loads : /\ Shown(seen, c) = seen[i]
                                    /\ Loads[i].counter = c /\ Loads[i].bucket = 0
      BY ShownIs
    <3>. QED  BY <2>3, <2>4, <3>1 DEF Loaded
  <2>6. \A c \in Counters : metric[c] = Cardinality(Q(c))
    BY DEF ServerInv, CountInv
  <2>7. Q("auctions") = Auctioned
    BY <2>1, CountersAre DEF Counted, Due, After, Auctioned, Finished
  <2>8. Shown(seen, "auctions") = Cardinality(Auctioned)
    BY <2>5, <2>6, <2>7, CountersAre
  <2>9. Q("filled") \cup Q("noBid") = Auctioned /\ Q("filled") \cap Q("noBid") = {}
    BY <2>1, CountersAre DEF Counted, Due, After, Auctioned, Finished
  <2>10. IsFiniteSet(Q("filled")) /\ IsFiniteSet(Q("noBid"))
    BY ServerAssumption, FS_Subset
  <2>11. Shown(seen, "filled") + Shown(seen, "noBid") = Cardinality(Auctioned)
    <3>. HIDE DEF Q
    <3>1. Cardinality(Q("filled") \cup Q("noBid"))
            = Cardinality(Q("filled")) + Cardinality(Q("noBid"))
                - Cardinality(Q("filled") \cap Q("noBid"))
      BY <2>10, FS_Union
    <3>2. Cardinality(Q("filled") \cap Q("noBid")) = 0
      BY <2>9, FS_EmptySet
    <3>3. Cardinality(Q("filled")) \in Nat /\ Cardinality(Q("noBid")) \in Nat
      BY <2>10, FS_CardinalityType
    <3>4. Shown(seen, "filled") = Cardinality(Q("filled"))
          /\ Shown(seen, "noBid") = Cardinality(Q("noBid"))
      BY <2>5, <2>6, CountersAre
    <3>5. Cardinality(Q("filled") \cup Q("noBid")) = Cardinality(Auctioned)
      BY <2>9
    <3>6. Cardinality(Auctioned) = Cardinality(Q("filled")) + Cardinality(Q("noBid"))
      BY <3>1, <3>2, <3>3, <3>5
    <3>. QED  BY <3>4, <3>6
  <2>12. ASSUME NEW d \in Latencies
         PROVE  ShownInf(seen, d) = Cardinality(Auctioned)
    <3>1. PICK i \in DOMAIN Loads : /\ ShownInf(seen, d) = seen[i]
                                    /\ Loads[i].counter = "auctions" /\ Loads[i].bucket = 0
      BY ShownInfIs
    <3>2. ShownInf(seen, d) = metric["auctions"]
      BY <2>3, <2>4, <3>1 DEF Loaded
    <3>. QED  BY <2>6, <2>7, <3>2, CountersAre
  <2>13. ASSUME NEW d \in Latencies
         PROVE  ShownFinite(seen, d) = Cardinality(Within(d))
    <3>1. \A i \in BucketLoads(d) : i \in 1..Len(Loads)
      BY BucketLoadsAre
    <3>2. \A i \in BucketLoads(d) : seen[i] = Loaded(Loads[i])
      BY <2>3, <3>1
    <3>3. ShownFinite(seen, d)
            = Cardinality({g \in Observed(d) :
                             \E b \in Buckets : job[g].timing[d] <= latencyUpperUS[b]})
      BY <3>2, FiniteExact
    <3>4. Observed(d) = Auctioned
      BY <2>1 DEF Observed, Observes, Auctioned, Finished
    <3>. QED  BY <3>3, <3>4 DEF Within
  <2>. QED  BY <2>8, <2>11, <2>12, <2>13 DEF seen
<1>. QED  BY <1>1, ScrapeSafety, PTL
=============================================================================
