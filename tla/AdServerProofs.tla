--------------------------- MODULE AdServerProofs ---------------------------
(***************************************************************************)
(* What is proved of AdServer for every set of environments, handlers,     *)
(* requests and decisions: its types, the order in which the process is    *)
(* taken down, that no accepted entry of the decision log is lost, that    *)
(* every request is counted once, and that the configuration in force is   *)
(* the one that was validated.                                             *)
(***************************************************************************)
EXTENDS AdServer, FiniteSetTheorems, TLAPS

-----------------------------------------------------------------------------
(* The inductive invariant.                                                *)

Places == {"waiting", "received", "tally", "log", "drop", "respond", "count",
           "outcome", "selection", "handler", "store", "error", "scrape", "done"}
Reasons == {"none", "cold_cache", "stale_snapshot", "no_eligible_bid", ""}
Outcomes == [reason : Reasons, stale : BOOLEAN, dynamic : BOOLEAN]
Timings == [selection : Nat, handler : Nat]
Jobs == [at : Places, answer : Nat, log : {"none", "sent", "dropped", "panic"},
         decision : Outcomes, timing : Timings, seen : Seq(Nat)]

(* The steps of a valid auction, after its body was read.                  *)
Deciding == {"tally", "log", "drop", "respond", "count", "outcome", "selection", "handler"}

(* What is known of a request r and its job j at every place of a handler. *)
AuctionShape(r, j) ==
  /\ j.at \in {"waiting", "received", "done"} \cup Deciding
  /\ j.at \in Deciding => r.valid
  /\ j.at \in {"tally", "log"} => j.log = "none"
  /\ j.at = "drop" => j.log = "dropped"
  /\ j.answer \in {0, 200} \/ (j.answer = 400 /\ j.at = "done" /\ ~r.valid)
  /\ ~r.valid => j.log = "none" /\ j.decision = NoOutcome
  /\ ~r.valid /\ j.at = "done" => j.answer = 400

MutationShape(r, j) ==
  /\ j.at \in {"waiting", "received", "store", "error", "done"}
  /\ j.at \in {"store", "error"} => r.valid
  /\ j.at = "store" => j.answer = 0
  /\ j.at = "error" => j.answer \in {409, 503, 400}
  /\ j.at = "done" /\ ~r.valid => j.answer \in {400, 401}
  /\ r.kind = "upsert" /\ r.valid => j.answer # 400

ReadyShape(r, j) ==
  /\ j.at \in {"waiting", "received", "store", "error", "done"}
  /\ j.at = "error" => j.answer = 503
  /\ j.at = "store" => j.answer = 0
  /\ j.answer \in {0, 200, 503}

MetricsShape(r, j) ==
  /\ j.at \in {"waiting", "scrape", "done"}
  /\ j.answer \in {0, 200}
  /\ j.at # "done" => Len(j.seen) < Len(Loads)

Shape(r, j) ==
  /\ j.at \in {"waiting", "received"} =>
       j.answer = 0 /\ j.log = "none" /\ j.decision = NoOutcome
  /\ r.kind # "auction" => j.log = "none" /\ j.decision = NoOutcome
  /\ r.kind = "auction" => AuctionShape(r, j)
  /\ r.kind \in {"upsert", "delete"} => MutationShape(r, j)
  /\ r.kind = "ready" => ReadyShape(r, j)
  /\ r.kind = "metrics" => MetricsShape(r, j)
  /\ Len(j.seen) <= Len(Loads)

HandlersInv ==
  /\ req \in [Handlers -> Requests]
  /\ job \in [Handlers -> Jobs]
  /\ \A h \in Handlers : Shape(req[h], job[h])

(* The order of startup and shutdown.                                      *)
Early == {"start", "ping", "warm", "server", "engine", "listen"}
Late == {"store", "log", "drain"}

MainInv ==
  /\ main \in Early \cup Late \cup {"serve", "shutdown", "exited"}
  /\ exitCode \in {-1, 0, 1, 2}
  /\ main = "exited" <=> exitCode # -1
  /\ listener \in {"none", "starting", "accepting", "failed", "closed"}
  /\ store \in {"open", "closed"}
  /\ gaveUp \in BOOLEAN /\ closed \in BOOLEAN
  /\ main \in Early \/ exitCode \in {1, 2} => listener = "none"
  /\ listener = "none" => \A h \in Handlers : job[h].at = "waiting"
  /\ listener \in {"starting", "accepting"} => main = "serve"
  /\ store = "closed" => main \in {"log", "drain", "exited"}
  /\ closed => main \in {"drain", "exited"}
  /\ gaveUp => main \in Late \cup {"exited"}
  /\ main \in Late \/ exitCode = 0 =>
       gaveUp \/ \A h \in Handlers : job[h].at \in {"waiting", "done"}
  /\ \A h \in Handlers : job[h].log = "panic" => gaveUp

(* The decision log: no entry is in two places.                            *)
LogInv ==
  /\ queue \in Seq(Handlers) /\ written \subseteq Handlers
  /\ writing \in Handlers \cup {NoEntry}
  /\ server.buffer \in Nat /\ Len(queue) <= server.buffer
  /\ runner \in {"none", "running", "done"}
  /\ \A i, k \in DOMAIN queue : queue[i] = queue[k] => i = k
  /\ \A i \in DOMAIN queue : queue[i] # writing /\ queue[i] \notin written
  /\ writing \notin written
  /\ Sent = Queued \cup ({writing} \ {NoEntry}) \cup written
  /\ Cardinality(Sent) = Len(queue) + Cardinality({writing} \ {NoEntry})
                                    + Cardinality(written)
  /\ runner # "running" => queue = <<>> /\ writing = NoEntry
  /\ runner = "done" => closed
  /\ main \in Early => runner # "done" /\ written = {}
  /\ runner = "none" => written = {}
  /\ exitCode = 0 => runner # "running"

(* The places of a handler at which it has counted c, if it is due in c.   *)
After(c) ==
  IF c = "auctions" THEN {"outcome", "selection", "handler", "done"}
  ELSE IF c \in {"filled", "noBid"} THEN {"selection", "handler", "done"}
  ELSE IF c \in {"servedStale", "staleNoBid", "dynamicWins"}
    THEN (Deciding \ {"tally"}) \cup {"done"}
  ELSE IF c = "decisionLogDropped" THEN (Deciding \ {"tally", "log", "drop"}) \cup {"done"}
  ELSE IF c \in {"bidMutations", "readinessChecks"} THEN {"store", "error", "done"}
  ELSE {"done"}

Counted(r, j) == {c \in Due(r, j) : j.at \in After(c)}

(* The handlers that have observed latency d.                              *)
Observes(r, j, d) ==
  /\ r.kind = "auction" /\ r.valid
  /\ j.at = "done" \/ (d = "selection" /\ j.at = "handler")
Observed(d) == {h \in Handlers : Observes(req[h], job[h], d)}

(* Every counter is the number of handlers that have counted it.           *)
CountInv ==
  /\ metric \in [Counters -> Nat]
  /\ \A c \in Counters : metric[c] =
       Cardinality({h \in Handlers : c \in Counted(req[h], job[h])})
  /\ dropped = Cardinality({h \in Handlers : job[h].log = "dropped"})

HistogramInv ==
  /\ histogram \in [Latencies -> [Buckets -> Nat]]
  /\ \A d \in Latencies : \A i \in Buckets :
       histogram[d][i] = Cardinality({h \in Observed(d) : InBucket(i, job[h].timing[d])})

(* The configuration, while main builds the server from it.                *)
ConfigInv ==
  /\ main \in Early \ {"start"} =>
       \E env \in Envs : config = ConfigFromEnv(env) /\ Validate(config)
  /\ main = "engine" => built = [cache |-> built.cache, auction |-> built.auction,
                                 engine |-> NoConfig, bidder |-> NoConfig]
  /\ DOMAIN server = {"AdminToken", "buffer", "engine", "rejectStale"}
  /\ ConfigInForce

ServerInv == HandlersInv /\ MainInv /\ LogInv /\ CountInv /\ HistogramInv /\ ConfigInv

-----------------------------------------------------------------------------
(* Facts about the constants.                                              *)

(* A decision has a reason and two flags, and its latencies are numbers.   *)
LEMMA CourseTypes ==
  ASSUME NEW c \in Courses
  PROVE  c.decision \in Outcomes /\ c.timing \in Timings
<1>1. c \in [decision : Decisions, timing : [selection : Nat, handler : Nat]]
  BY ServerAssumption
<1>2. c.decision \in Decisions
  BY <1>1
<1>3. c.decision \in Outcomes
  <2>1. \A S, A, B : S \subseteq Reasons /\ A \subseteq BOOLEAN /\ B \subseteq BOOLEAN =>
          [reason : S, stale : A, dynamic : B] \subseteq Outcomes
    BY DEF Outcomes
  <2>2. {"cold_cache", "stale_snapshot"} \subseteq Reasons /\ {"no_eligible_bid"} \subseteq Reasons
        /\ {""} \subseteq Reasons
    BY DEF Reasons
  <2>3. {FALSE} \subseteq BOOLEAN
    OBVIOUS
  <2>4. Decisions \subseteq Outcomes
    BY <2>1, <2>2, <2>3, Zenon DEF Decisions
  <2>. QED  BY <1>2, <2>4
<1>. QED  BY <1>1, <1>3 DEF Timings

(* Every Load of a scrape reads a counter or a bucket that there is.       *)
LEMMA LoadsTypes ==
  /\ Len(Loads) \in Nat \ {0}
  /\ \A n \in 1..Len(Loads) :
       \/ Loads[n].bucket = 0 /\ Loads[n].counter \in Counters
       \/ Loads[n].bucket # 0 /\ Loads[n].latency \in Latencies /\ Loads[n].bucket \in Buckets
<1>. DEFINE L == [counter : Counters, latency : Latencies \cup {"none"}, bucket : Nat]
            Good == {l \in L : l.bucket = 0 \/ (l.latency \in Latencies /\ l.bucket \in Buckets)}
            Sc == [i \in DOMAIN Scalars |-> [counter |-> Scalars[i], latency |-> "none", bucket |-> 0]]
<1>1. Buckets = 1..Len(latencyUpperUS) /\ Len(latencyUpperUS) \in Nat
  BY BucketsAssumption DEF Buckets
<1>2. Sc \in Seq(Good) /\ Len(Sc) = 12
  <2>1. DOMAIN Scalars = 1..12
    BY DEF Scalars
  <2>2. \A i \in 1..12 : Sc[i] \in Good
    BY <2>1 DEF Counters
  <2>. QED  BY <2>1, <2>2
<1>3. ASSUME NEW d \in Latencies
      PROVE  HistogramLoads(d) \in Seq(Good)
  <2>. DEFINE a == <<[counter |-> "auctions", latency |-> d, bucket |-> 0]>>
              b == [i \in Buckets |-> [counter |-> "auctions", latency |-> d, bucket |-> i]]
  <2>0. "auctions" \in Counters
    <3>1. Scalars[1] = "auctions" /\ 1 \in DOMAIN Scalars
      BY DEF Scalars
    <3>. QED  BY <3>1 DEF Counters
  <2>1. a \in Seq(Good)
    BY <2>0
  <2>2. b \in Seq(Good)
    <3>1. \A i \in 1..Len(latencyUpperUS) : b[i] \in Good
      BY <1>1, <2>0
    <3>. QED  BY <1>1, <3>1
  <2>3. a \o b \in Seq(Good)
    <3>. HIDE DEF a, b, Good
    <3>. QED  BY <2>1, <2>2
  <2>. QED  BY <2>3 DEF HistogramLoads
<1>4. HistogramLoads("selection") \in Seq(Good) /\ HistogramLoads("handler") \in Seq(Good)
  BY <1>3 DEF Latencies
<1>5. Loads \in Seq(Good) /\ Len(Loads) \in Nat \ {0}
  <2>1. Loads = (Sc \o HistogramLoads("selection")) \o HistogramLoads("handler")
    BY DEF Loads
  <2>. HIDE DEF Sc, Good
  <2>2. ASSUME NEW a \in Seq(Good), NEW b \in Seq(Good), Len(a) >= 12
        PROVE  a \o b \in Seq(Good) /\ Len(a \o b) >= 12 /\ Len(a \o b) \in Nat
    <3>1. a \o b \in Seq(Good) /\ Len(a \o b) = Len(a) + Len(b)
      OBVIOUS
    <3>2. Len(a) \in Nat /\ Len(b) \in Nat
      OBVIOUS
    <3>. QED  BY <2>2, <3>1, <3>2
  <2>3. Sc \o HistogramLoads("selection") \in Seq(Good)
        /\ Len(Sc \o HistogramLoads("selection")) >= 12
    <3>1. Len(Sc) >= 12
      BY <1>2
    <3>. QED  BY <1>2, <1>4, <2>2, <3>1, Zenon
  <2>4. (Sc \o HistogramLoads("selection")) \o HistogramLoads("handler") \in Seq(Good)
    BY <1>4, <2>2, <2>3, Zenon
  <2>5. Len((Sc \o HistogramLoads("selection")) \o HistogramLoads("handler")) >= 12
        /\ Len((Sc \o HistogramLoads("selection")) \o HistogramLoads("handler")) \in Nat
    BY <1>4, <2>2, <2>3, Zenon
  <2>6. Loads \in Seq(Good)
    BY <2>1, <2>4, Zenon
  <2>7. Len(Loads) >= 12 /\ Len(Loads) \in Nat
    BY <2>1, <2>5, Zenon
  <2>. QED  BY <2>6, <2>7
<1>6. \A n \in 1..Len(Loads) : Loads[n] \in Good
  BY <1>5
<1>. QED  BY <1>5, <1>6

-----------------------------------------------------------------------------
(* Steps of a handler.  Moved(h, x): the job of h becomes x, the others    *)
(* stay.                                                                   *)
Moved(h, x) ==
  /\ x \in Jobs
  /\ job' \in [Handlers -> Jobs]
  /\ job'[h] = x
  /\ \A g \in Handlers : g # h => job'[g] = job[g]

LEMMA PutJob ==
  ASSUME job \in [Handlers -> Jobs], NEW h \in Handlers, NEW x \in Jobs,
         job' = [job EXCEPT ![h] = x]
  PROVE  Moved(h, x)
BY DEF Moved

LEMMA StepMoves ==
  ASSUME job \in [Handlers -> Jobs], NEW h \in Handlers, NEW at \in Places, Step(h, at)
  PROVE  Moved(h, [job[h] EXCEPT !.at = at])
<1>1. [job[h] EXCEPT !.at = at] \in Jobs
  BY DEF Jobs
<1>2. job' = [job EXCEPT ![h] = [job[h] EXCEPT !.at = at]]
  BY DEF Step
<1>. QED  BY <1>1, <1>2, PutJob

LEMMA AnswerMoves ==
  ASSUME job \in [Handlers -> Jobs], NEW h \in Handlers, NEW at \in Places,
         NEW answer \in Nat,
         job' = [job EXCEPT ![h].at = at, ![h].answer = answer]
  PROVE  Moved(h, [job[h] EXCEPT !.at = at, !.answer = answer])
<1>1. [job[h] EXCEPT !.at = at, !.answer = answer] \in Jobs
  BY DEF Jobs
<1>2. job' = [job EXCEPT ![h] = [job[h] EXCEPT !.at = at, !.answer = answer]]
  OBVIOUS
<1>. QED  BY <1>1, <1>2, PutJob

Answers(h, at, answer) == job' = [job EXCEPT ![h].at = at, ![h].answer = answer]

LEMMA AnswerMovesTo ==
  ASSUME job \in [Handlers -> Jobs], NEW h \in Handlers, NEW at \in Places,
         NEW answer \in Nat, Answers(h, at, answer)
  PROVE  \E x : /\ Moved(h, x) /\ x.at = at /\ x.answer = answer /\ x.log = job[h].log
                /\ x.decision = job[h].decision /\ x.seen = job[h].seen
<1>. DEFINE x == [job[h] EXCEPT !.at = at, !.answer = answer]
<1>1. Moved(h, x)
  BY AnswerMoves DEF Answers
<1>2. job[h] \in Jobs
  OBVIOUS
<1>3. /\ x.at = at /\ x.answer = answer /\ x.log = job[h].log
      /\ x.decision = job[h].decision /\ x.seen = job[h].seen
  BY <1>2 DEF Jobs
<1>. HIDE DEF x
<1>. QED  BY <1>1, <1>3

LEMMA FinishMoves ==
  ASSUME job \in [Handlers -> Jobs], NEW h \in Handlers, NEW status \in Nat, Finish(h, status)
  PROVE  Moved(h, [job[h] EXCEPT !.at = "done", !.answer = status])
<1>1. [job[h] EXCEPT !.at = "done", !.answer = status] \in Jobs
  BY DEF Jobs, Places
<1>2. job' = [job EXCEPT ![h] = [job[h] EXCEPT !.at = "done", !.answer = status]]
  BY DEF Finish
<1>. QED  BY <1>1, <1>2, PutJob

LEMMA LogMoves ==
  ASSUME job \in [Handlers -> Jobs], NEW h \in Handlers, NEW at \in Places,
         NEW log \in {"none", "sent", "dropped", "panic"}, Logged(h, at, log)
  PROVE  Moved(h, [job[h] EXCEPT !.at = at, !.log = log])
<1>1. [job[h] EXCEPT !.at = at, !.log = log] \in Jobs
  BY DEF Jobs
<1>2. job' = [job EXCEPT ![h] = [job[h] EXCEPT !.at = at, !.log = log]]
  BY DEF Logged
<1>. QED  BY <1>1, <1>2, PutJob

LEMMA DecisionMoves ==
  ASSUME job \in [Handlers -> Jobs], NEW h \in Handlers, NEW c \in Courses,
         job' = [job EXCEPT ![h].at = "tally", ![h].decision = c.decision,
                            ![h].timing = c.timing]
  PROVE  Moved(h, [job[h] EXCEPT !.at = "tally", !.decision = c.decision,
                                 !.timing = c.timing])
<1>1. c.decision \in Outcomes /\ c.timing \in Timings /\ "tally" \in Places
  BY CourseTypes DEF Places
<1>2. [job[h] EXCEPT !.at = "tally", !.decision = c.decision, !.timing = c.timing] \in Jobs
  BY <1>1 DEF Jobs
<1>3. job' = [job EXCEPT ![h] = [job[h] EXCEPT !.at = "tally", !.decision = c.decision,
                                               !.timing = c.timing]]
  OBVIOUS
<1>. QED  BY <1>2, <1>3, PutJob

-----------------------------------------------------------------------------
(* What a step of handler h that makes its job x does to everything else.  *)

LogEffect(h, x) ==
  \/ x.log = job[h].log /\ UNCHANGED loggerVars
  \/ /\ x.log = "sent" /\ job[h].log = "none" /\ runner # "none"
     /\ Room(server.buffer) /\ Send(h)
  \/ x.log = "dropped" /\ job[h].log = "none" /\ Drop
  \/ x.log = "panic" /\ job[h].log = "none" /\ closed /\ UNCHANGED loggerVars

(* The counters in S are those that h has counted now and had not before.  *)
Counts(h, x, S) ==
  \A c \in Counters :
    /\ c \in Counted(req[h], x) <=> c \in Counted(req[h], job[h]) \/ c \in S
    /\ c \in S => c \notin Counted(req[h], job[h])

CountEffect(h, x) ==
  \/ UNCHANGED metric /\ Counts(h, x, {})
  \/ \E S : Bump(S) /\ Counts(h, x, S)

ObserveEffect(h, x) ==
  \/ /\ UNCHANGED histogram
     /\ \A d \in Latencies : /\ Observes(req[h], x, d) <=> Observes(req[h], job[h], d)
                             /\ Observes(req[h], x, d) => x.timing = job[h].timing
  \/ \E d \in Latencies :
       /\ ObserveHistogram(d, job[h].timing[d])
       /\ x.timing = job[h].timing
       /\ Observes(req[h], x, d) /\ ~Observes(req[h], job[h], d)
       /\ \A e \in Latencies \ {d} : Observes(req[h], x, e) <=> Observes(req[h], job[h], e)

HandlerEffect(h, x) ==
  /\ Moved(h, x) /\ Shape(req[h], x)
  /\ Alive /\ job[h].at # "done" /\ x.at # "waiting"
  /\ job[h].at = "waiting" => listener = "accepting"
  /\ UNCHANGED mainVars /\ UNCHANGED req
  /\ LogEffect(h, x) /\ CountEffect(h, x) /\ ObserveEffect(h, x)

LEMMA CountersAre ==
  Counters = {"auctions", "filled", "noBid", "badRequests", "bidMutations",
              "bidMutationErrors", "readinessChecks", "readinessFailures",
              "decisionLogDropped", "servedStale", "staleNoBid", "dynamicWins"}
<1>1. DOMAIN Scalars = 1..12
  BY DEF Scalars
<1>2. Counters = {Scalars[1], Scalars[2], Scalars[3], Scalars[4], Scalars[5], Scalars[6],
                  Scalars[7], Scalars[8], Scalars[9], Scalars[10], Scalars[11], Scalars[12]}
  BY <1>1 DEF Counters
<1>. QED  BY <1>2 DEF Scalars

(* Handlers that have counted nothing yet.                                 *)
LEMMA ArriveEffect ==
  ASSUME HandlersInv, NEW h \in Handlers, Arrive(h)
  PROVE  \E x : HandlerEffect(h, x)
<1>. DEFINE at == IF req[h].kind = "metrics" THEN "scrape" ELSE "received"
            x == [job[h] EXCEPT !.at = at]
<1>1. job[h] \in Jobs /\ req[h] \in Requests /\ Shape(req[h], job[h]) /\ job[h].at = "waiting"
  BY DEF HandlersInv, Arrive
<1>2. Moved(h, x)
  <2>1. at \in Places
    BY DEF Places
  <2>. QED  BY <2>1, StepMoves DEF Arrive, HandlersInv
<1>3. x.at = at /\ x.answer = job[h].answer /\ x.log = job[h].log
      /\ x.decision = job[h].decision /\ x.timing = job[h].timing /\ x.seen = job[h].seen
  BY <1>1 DEF Jobs
<1>4. Shape(req[h], x)
  BY <1>1, <1>3 DEF Shape, AuctionShape, MutationShape, ReadyShape, MetricsShape, Requests, Deciding
<1>5. Counts(h, x, {})
  BY <1>1, <1>3, CountersAre DEF Counts, Counted, After, Deciding
<1>6. \A d : ~Observes(req[h], x, d) /\ ~Observes(req[h], job[h], d)
  BY <1>1, <1>3 DEF Observes
<1>. HIDE DEF x
<1>. QED
  BY <1>1, <1>2, <1>3, <1>4, <1>5, <1>6
  DEF HandlerEffect, Arrive, LogEffect, CountEffect, ObserveEffect, metricsVars

(* A handler is where its action says it is, and its request is of the     *)
(* kind that the action serves.                                            *)
LEMMA AtPlace ==
  ASSUME HandlersInv, NEW h \in Handlers, NEW K, NEW p, At(h, K, p)
  PROVE  /\ job[h] \in Jobs /\ req[h] \in Requests /\ Shape(req[h], job[h])
         /\ job[h].at = p /\ req[h].kind \in K /\ Alive
BY DEF HandlersInv, At

LEMMA NoDecision ==
  ~NoOutcome.stale /\ NoOutcome.reason = "none" /\ ~NoOutcome.dynamic
BY DEF NoOutcome

(* A step that neither counts nor observes nor logs.                       *)
LEMMA PlainEffect ==
  ASSUME HandlersInv, NEW h \in Handlers, NEW x, Moved(h, x), Shape(req[h], x), Alive,
         KeepRest, UNCHANGED <<metricsVars, loggerVars>>,
         job[h].at \notin {"waiting", "done"}, x.at # "waiting",
         x.log = job[h].log, Counts(h, x, {}),
         \A d \in Latencies : ~Observes(req[h], x, d) /\ ~Observes(req[h], job[h], d)
  PROVE  HandlerEffect(h, x)
BY DEF HandlerEffect, LogEffect, CountEffect, ObserveEffect, metricsVars, KeepRest

(* A step that counts S and neither observes nor logs.                     *)
LEMMA CountingEffect ==
  ASSUME HandlersInv, NEW h \in Handlers, NEW x, NEW S, Moved(h, x), Shape(req[h], x), Alive,
         KeepRest, Count(S),
         job[h].at \notin {"waiting", "done"}, x.at # "waiting",
         x.log = job[h].log, Counts(h, x, S),
         \A d \in Latencies : ~Observes(req[h], x, d) /\ ~Observes(req[h], job[h], d)
  PROVE  HandlerEffect(h, x)
BY DEF HandlerEffect, LogEffect, CountEffect, ObserveEffect, Count, KeepRest

LEMMA RunAuctionEffect ==
  ASSUME HandlersInv, NEW h \in Handlers, RunAuction(h)
  PROVE  \E x : HandlerEffect(h, x)
<1>1. /\ job[h] \in Jobs /\ req[h] \in Requests /\ Shape(req[h], job[h])
      /\ job[h].at = "received" /\ req[h].kind = "auction" /\ Alive
  <2>1. At(h, {"auction"}, "received")
    BY DEF RunAuction
  <2>. QED  BY <2>1, AtPlace
<1>2. CASE ~req[h].valid /\ Count({"badRequests"}) /\ Finish(h, 400)
  <2>. DEFINE x == [job[h] EXCEPT !.at = "done", !.answer = 400]
  <2>1. Moved(h, x)
    <3>1. job \in [Handlers -> Jobs] /\ Finish(h, 400) /\ 400 \in Nat
      BY <1>2 DEF HandlersInv
    <3>. QED  BY <3>1, FinishMoves, Zenon
  <2>2. x.at = "done" /\ x.answer = 400 /\ x.log = job[h].log /\ x.decision = job[h].decision
        /\ x.seen = job[h].seen
    BY <1>1 DEF Jobs
  <2>. HIDE DEF x
  <2>3. Shape(req[h], x)
    BY <1>1, <1>2, <2>2 DEF Shape, AuctionShape, Deciding
  <2>4. Counts(h, x, {"badRequests"})
    <3>1. ~x.decision.stale /\ x.decision.reason = "none" /\ ~x.decision.dynamic /\ x.log = "none"
      BY <1>1, <2>2, NoDecision DEF Shape
    <3>. QED
      BY <1>1, <1>2, <2>2, <3>1, CountersAre DEF Counts, Counted, After, Due, Deciding
  <2>5. \A d \in Latencies : ~Observes(req[h], x, d) /\ ~Observes(req[h], job[h], d)
    BY <1>2 DEF Observes
  <2>. QED  BY <1>1, <1>2, <2>1, <2>2, <2>3, <2>4, <2>5, CountingEffect DEF RunAuction
<1>3. ASSUME NEW c \in Courses, req[h].valid, UNCHANGED <<metricsVars, loggerVars>>,
             job' = [job EXCEPT ![h].at = "tally", ![h].decision = c.decision,
                                ![h].timing = c.timing]
      PROVE  \E x : HandlerEffect(h, x)
  <2>. DEFINE x == [job[h] EXCEPT !.at = "tally", !.decision = c.decision, !.timing = c.timing]
  <2>1. Moved(h, x)
    BY <1>3, DecisionMoves DEF HandlersInv
  <2>2. x.at = "tally" /\ x.answer = job[h].answer /\ x.log = job[h].log /\ x.seen = job[h].seen
    BY <1>1 DEF Jobs
  <2>. HIDE DEF x
  <2>3. Shape(req[h], x)
    BY <1>1, <1>3, <2>2 DEF Shape, AuctionShape, Deciding
  <2>4. Counts(h, x, {})
    BY <1>1, <1>3, <2>2, CountersAre DEF Counts, Counted, After, Deciding
  <2>5. \A d \in Latencies : ~Observes(req[h], x, d) /\ ~Observes(req[h], job[h], d)
    BY <1>1, <2>2 DEF Observes
  <2>. QED  BY <1>1, <1>3, <2>1, <2>2, <2>3, <2>4, <2>5, PlainEffect DEF RunAuction
<1>. QED  BY <1>2, <1>3 DEF RunAuction

LEMMA TallyEffect ==
  ASSUME HandlersInv, NEW h \in Handlers, Tally(h)
  PROVE  \E x : HandlerEffect(h, x)
<1>. DEFINE d == job[h].decision
            S == {c \in {"servedStale"} : d.stale}
                 \cup {c \in {"staleNoBid"} : d.reason = "stale_snapshot"}
                 \cup {c \in {"dynamicWins"} : d.dynamic}
            x == [job[h] EXCEPT !.at = "log"]
<1>1. /\ job[h] \in Jobs /\ req[h] \in Requests /\ Shape(req[h], job[h])
      /\ job[h].at = "tally" /\ req[h].kind = "auction" /\ Alive
  BY AtPlace DEF Tally
<1>2. Moved(h, x)
  BY StepMoves DEF Tally, HandlersInv, Places
<1>3. x.at = "log" /\ x.answer = job[h].answer /\ x.log = job[h].log
      /\ x.decision = job[h].decision /\ x.seen = job[h].seen
  BY <1>1 DEF Jobs
<1>4. Count(S) /\ KeepRest
  BY DEF Tally
<1>5. /\ "servedStale" \in S <=> d.stale
      /\ "staleNoBid" \in S <=> d.reason = "stale_snapshot"
      /\ "dynamicWins" \in S <=> d.dynamic
      /\ \A c \in S : c \in {"servedStale", "staleNoBid", "dynamicWins"}
  OBVIOUS
<1>. HIDE DEF x, S
<1>6. Shape(req[h], x)
  BY <1>1, <1>3 DEF Shape, AuctionShape, Deciding
<1>7. Counts(h, x, S)
  BY <1>1, <1>3, <1>5, CountersAre DEF Counts, Counted, After, Due, Shape, AuctionShape, Deciding
<1>8. \A e \in Latencies : ~Observes(req[h], x, e) /\ ~Observes(req[h], job[h], e)
  BY <1>1, <1>3 DEF Observes
<1>. QED  BY <1>1, <1>2, <1>3, <1>4, <1>6, <1>7, <1>8, CountingEffect

LEMMA RecordDecisionEffect ==
  ASSUME HandlersInv, NEW h \in Handlers, RecordDecision(h)
  PROVE  \E x : HandlerEffect(h, x)
<1>1. /\ job[h] \in Jobs /\ req[h] \in Requests /\ Shape(req[h], job[h])
      /\ job[h].at = "log" /\ req[h].kind = "auction" /\ Alive
  <2>1. At(h, {"auction"}, "log")
    BY DEF RecordDecision
  <2>. QED  BY <2>1, AtPlace
<1>2. job \in [Handlers -> Jobs] /\ job[h].log = "none" /\ KeepRest /\ UNCHANGED metricsVars
      /\ req[h].valid
  BY <1>1 DEF HandlersInv, Shape, AuctionShape, RecordDecision, Deciding
(* Whatever the outcome is, nothing is counted or observed.                *)
<1>3. ASSUME NEW x, Moved(h, x), LogEffect(h, x),
             x.at \in {"respond", "count"} \/ (x.at = "drop" /\ x.log = "dropped"),
             x.log = "dropped" => x.at = "drop",
             x.answer = job[h].answer, x.decision = job[h].decision, x.seen = job[h].seen
      PROVE  HandlerEffect(h, x)
  <2>1. Shape(req[h], x)
    BY <1>1, <1>2, <1>3 DEF Shape, AuctionShape, Deciding
  <2>2. Counts(h, x, {})
    BY <1>1, <1>2, <1>3, CountersAre DEF Counts, Counted, After, Due, Shape, AuctionShape, Deciding
  <2>3. \A d \in Latencies : ~Observes(req[h], x, d) /\ ~Observes(req[h], job[h], d)
    BY <1>1, <1>3 DEF Observes
  <2>. QED
    BY <1>1, <1>2, <1>3, <2>1, <2>2, <2>3
    DEF HandlerEffect, CountEffect, ObserveEffect, metricsVars, KeepRest
<1>4. ASSUME NEW at \in {"respond", "drop", "count"},
             NEW log \in {"sent", "dropped", "panic"}, Logged(h, at, log)
      PROVE  \E x : /\ Moved(h, x) /\ x.at = at /\ x.log = log /\ x.answer = job[h].answer
                    /\ x.decision = job[h].decision /\ x.seen = job[h].seen
  <2>. DEFINE x == [job[h] EXCEPT !.at = at, !.log = log]
  <2>1. at \in Places /\ log \in {"none", "sent", "dropped", "panic"}
    BY DEF Places
  <2>2. Moved(h, x)
    BY <1>2, <1>4, <2>1, LogMoves, Zenon
  <2>3. /\ x.at = at /\ x.log = log /\ x.answer = job[h].answer
        /\ x.decision = job[h].decision /\ x.seen = job[h].seen
    BY <1>1 DEF Jobs
  <2>. QED  BY <2>2, <2>3
<1>5. CASE Step(h, "respond") /\ UNCHANGED loggerVars
  <2>. DEFINE x == [job[h] EXCEPT !.at = "respond"]
  <2>1. Moved(h, x)
    BY <1>2, <1>5, StepMoves DEF Places
  <2>2. /\ x.at = "respond" /\ x.log = job[h].log /\ x.answer = job[h].answer
        /\ x.decision = job[h].decision /\ x.seen = job[h].seen
    BY <1>1 DEF Jobs
  <2>. HIDE DEF x
  <2>. QED  BY <1>2, <1>3, <1>5, <2>1, <2>2 DEF LogEffect
<1>6. CASE /\ runner # "none" /\ Room(server.buffer) /\ Send(h)
           /\ Logged(h, "respond", "sent")
  <2>1. PICK x : /\ Moved(h, x) /\ x.at = "respond" /\ x.log = "sent" /\ x.answer = job[h].answer
                 /\ x.decision = job[h].decision /\ x.seen = job[h].seen
    BY <1>4, <1>6
  <2>. QED  BY <1>2, <1>3, <1>6, <2>1 DEF LogEffect
<1>7. CASE closed /\ Logged(h, "count", "panic") /\ UNCHANGED loggerVars
  <2>1. PICK x : /\ Moved(h, x) /\ x.at = "count" /\ x.log = "panic" /\ x.answer = job[h].answer
                 /\ x.decision = job[h].decision /\ x.seen = job[h].seen
    BY <1>4, <1>7
  <2>. QED  BY <1>2, <1>3, <1>7, <2>1 DEF LogEffect
<1>8. CASE Drop /\ Logged(h, "drop", "dropped")
  <2>1. PICK x : /\ Moved(h, x) /\ x.at = "drop" /\ x.log = "dropped" /\ x.answer = job[h].answer
                 /\ x.decision = job[h].decision /\ x.seen = job[h].seen
    BY <1>4, <1>8
  <2>. QED  BY <1>2, <1>3, <1>8, <2>1 DEF LogEffect
<1>. QED  BY <1>5, <1>6, <1>7, <1>8 DEF RecordDecision

LEMMA CountDropEffect ==
  ASSUME HandlersInv, NEW h \in Handlers, CountDrop(h)
  PROVE  \E x : HandlerEffect(h, x)
<1>. DEFINE x == [job[h] EXCEPT !.at = "respond"]
<1>1. /\ job[h] \in Jobs /\ req[h] \in Requests /\ Shape(req[h], job[h])
      /\ job[h].at = "drop" /\ req[h].kind = "auction" /\ Alive
  BY AtPlace DEF CountDrop
<1>2. Moved(h, x)
  BY StepMoves DEF CountDrop, HandlersInv, Places
<1>3. x.at = "respond" /\ x.answer = job[h].answer /\ x.log = job[h].log
      /\ x.decision = job[h].decision /\ x.seen = job[h].seen
  BY <1>1 DEF Jobs
<1>4. Count({"decisionLogDropped"}) /\ KeepRest
  BY DEF CountDrop
<1>. HIDE DEF x
<1>5. Shape(req[h], x)
  BY <1>1, <1>3 DEF Shape, AuctionShape, Deciding
<1>6. Counts(h, x, {"decisionLogDropped"})
  BY <1>1, <1>3, CountersAre DEF Counts, Counted, After, Due, Shape, AuctionShape, Deciding
<1>7. \A d \in Latencies : ~Observes(req[h], x, d) /\ ~Observes(req[h], job[h], d)
  BY <1>1, <1>3 DEF Observes
<1>. QED  BY <1>1, <1>2, <1>3, <1>4, <1>5, <1>6, <1>7, CountingEffect

LEMMA RespondEffect ==
  ASSUME HandlersInv, NEW h \in Handlers, Respond(h)
  PROVE  \E x : HandlerEffect(h, x)
<1>. DEFINE x == [job[h] EXCEPT !.at = "count", !.answer = 200]
<1>1. /\ job[h] \in Jobs /\ req[h] \in Requests /\ Shape(req[h], job[h])
      /\ job[h].at = "respond" /\ req[h].kind = "auction" /\ Alive
  BY AtPlace DEF Respond
<1>2. Moved(h, x)
  <2>1. job' = [job EXCEPT ![h].at = "count", ![h].answer = 200]
    BY DEF Respond
  <2>2. job \in [Handlers -> Jobs] /\ "count" \in Places /\ 200 \in Nat
    BY DEF HandlersInv, Places
  <2>. QED  BY <2>1, <2>2, AnswerMoves, Zenon
<1>3. x.at = "count" /\ x.answer = 200 /\ x.log = job[h].log
      /\ x.decision = job[h].decision /\ x.seen = job[h].seen
  BY <1>1 DEF Jobs
<1>4. KeepRest /\ UNCHANGED <<metricsVars, loggerVars>>
  BY DEF Respond
<1>. HIDE DEF x
<1>5. Shape(req[h], x)
  BY <1>1, <1>3 DEF Shape, AuctionShape, Deciding
<1>6. Counts(h, x, {})
  BY <1>1, <1>3, CountersAre DEF Counts, Counted, After, Due, Shape, AuctionShape, Deciding
<1>7. \A d \in Latencies : ~Observes(req[h], x, d) /\ ~Observes(req[h], job[h], d)
  BY <1>1, <1>3 DEF Observes
<1>. QED  BY <1>1, <1>2, <1>3, <1>4, <1>5, <1>6, <1>7, PlainEffect

LEMMA CountAuctionEffect ==
  ASSUME HandlersInv, NEW h \in Handlers, CountAuction(h)
  PROVE  \E x : HandlerEffect(h, x)
<1>1. CASE At(h, {"auction"}, "count") /\ Count({"auctions"}) /\ Step(h, "outcome") /\ KeepRest
  <2>. DEFINE x == [job[h] EXCEPT !.at = "outcome"]
  <2>1. /\ job[h] \in Jobs /\ req[h] \in Requests /\ Shape(req[h], job[h])
        /\ job[h].at = "count" /\ req[h].kind = "auction" /\ Alive
    BY <1>1, AtPlace
  <2>2. Moved(h, x)
    BY <1>1, StepMoves DEF HandlersInv, Places
  <2>3. x.at = "outcome" /\ x.answer = job[h].answer /\ x.log = job[h].log
        /\ x.decision = job[h].decision /\ x.seen = job[h].seen
    BY <2>1 DEF Jobs
  <2>. HIDE DEF x
  <2>4. Shape(req[h], x)
    BY <2>1, <2>3 DEF Shape, AuctionShape, Deciding
  <2>5. Counts(h, x, {"auctions"})
    BY <2>1, <2>3, CountersAre DEF Counts, Counted, After, Due, Shape, AuctionShape, Deciding
  <2>6. \A d \in Latencies : ~Observes(req[h], x, d) /\ ~Observes(req[h], job[h], d)
    BY <2>1, <2>3 DEF Observes
  <2>. QED  BY <1>1, <2>1, <2>2, <2>3, <2>4, <2>5, <2>6, CountingEffect
<1>2. CASE /\ At(h, {"auction"}, "outcome") /\ Step(h, "selection") /\ KeepRest
           /\ Count({IF Filled(job[h].decision) THEN "filled" ELSE "noBid"})
  <2>. DEFINE x == [job[h] EXCEPT !.at = "selection"]
              c == IF Filled(job[h].decision) THEN "filled" ELSE "noBid"
  <2>1. /\ job[h] \in Jobs /\ req[h] \in Requests /\ Shape(req[h], job[h])
        /\ job[h].at = "outcome" /\ req[h].kind = "auction" /\ Alive
    BY <1>2, AtPlace
  <2>2. Moved(h, x)
    BY <1>2, StepMoves DEF HandlersInv, Places
  <2>3. x.at = "selection" /\ x.answer = job[h].answer /\ x.log = job[h].log
        /\ x.decision = job[h].decision /\ x.seen = job[h].seen
    BY <2>1 DEF Jobs
  <2>. HIDE DEF x
  <2>4. Shape(req[h], x)
    BY <2>1, <2>3 DEF Shape, AuctionShape, Deciding
  <2>5. Counts(h, x, {c})
    BY <2>1, <2>3, CountersAre DEF Counts, Counted, After, Due, Shape, AuctionShape, Deciding
  <2>6. \A d \in Latencies : ~Observes(req[h], x, d) /\ ~Observes(req[h], job[h], d)
    BY <2>1, <2>3 DEF Observes, Latencies
  <2>. QED  BY <1>2, <2>1, <2>2, <2>3, <2>4, <2>5, <2>6, CountingEffect
<1>. QED  BY <1>1, <1>2 DEF CountAuction

LEMMA ObserveLatencyEffect ==
  ASSUME HandlersInv, NEW h \in Handlers, ObserveLatency(h)
  PROVE  \E x : HandlerEffect(h, x)
<1>. PICK d \in Latencies :
       /\ At(h, {"auction"}, d)
       /\ ObserveHistogram(d, job[h].timing[d])
       /\ Step(h, IF d = "selection" THEN "handler" ELSE "done")
       /\ KeepRest /\ UNCHANGED <<metric, loggerVars>>
  BY DEF ObserveLatency
<1>. DEFINE at == IF d = "selection" THEN "handler" ELSE "done"
            x == [job[h] EXCEPT !.at = at]
<1>1. /\ job[h] \in Jobs /\ req[h] \in Requests /\ Shape(req[h], job[h])
      /\ job[h].at = d /\ req[h].kind = "auction" /\ Alive
  BY AtPlace
<1>2. Moved(h, x)
  BY StepMoves DEF HandlersInv, Places
<1>3. x.at = at /\ x.answer = job[h].answer /\ x.log = job[h].log
      /\ x.decision = job[h].decision /\ x.seen = job[h].seen /\ x.timing = job[h].timing
  BY <1>1 DEF Jobs
<1>. HIDE DEF x
<1>4. req[h].valid /\ (d = "selection" \/ d = "handler")
  BY <1>1 DEF Shape, AuctionShape, Deciding, Latencies
<1>5. Shape(req[h], x)
  BY <1>1, <1>3, <1>4 DEF Shape, AuctionShape, Deciding
<1>6. Counts(h, x, {})
  BY <1>1, <1>3, <1>4, CountersAre
  DEF Counts, Counted, After, Due, Shape, AuctionShape, Deciding
<1>7. /\ Observes(req[h], x, d) /\ ~Observes(req[h], job[h], d)
      /\ \A e \in Latencies \ {d} : Observes(req[h], x, e) <=> Observes(req[h], job[h], e)
  BY <1>1, <1>3, <1>4 DEF Observes, Latencies
<1>. QED
  BY <1>1, <1>2, <1>3, <1>4, <1>5, <1>6, <1>7
  DEF HandlerEffect, LogEffect, CountEffect, ObserveEffect, KeepRest

LEMMA ReceiveMutationEffect ==
  ASSUME HandlersInv, NEW h \in Handlers, ReceiveMutation(h)
  PROVE  \E x : HandlerEffect(h, x)
<1>1. /\ job[h] \in Jobs /\ req[h] \in Requests /\ Shape(req[h], job[h])
      /\ job[h].at = "received" /\ req[h].kind \in {"upsert", "delete"} /\ Alive
  <2>1. At(h, {"upsert", "delete"}, "received")
    BY DEF ReceiveMutation
  <2>. QED  BY <2>1, AtPlace
<1>2. job \in [Handlers -> Jobs] /\ KeepRest
  BY DEF ReceiveMutation, HandlersInv
<1>3. \A j, d : req[h].kind # "auction" => ~Observes(req[h], j, d)
  BY DEF Observes
<1>4. ASSUME NEW status \in {400, 401}, Finish(h, status)
      PROVE  \E x : /\ Moved(h, x) /\ x.at = "done" /\ x.answer = status /\ x.log = "none"
                    /\ x.decision = NoOutcome /\ x.seen = job[h].seen
  <2>1. status \in Nat /\ "done" \in Places /\ job \in [Handlers -> Jobs]
    BY <1>2 DEF Places
  <2>2. Answers(h, "done", status)
    BY <1>4, Zenon DEF Finish, Answers
  <2>3. PICK x : /\ Moved(h, x) /\ x.at = "done" /\ x.answer = status /\ x.log = job[h].log
                 /\ x.decision = job[h].decision /\ x.seen = job[h].seen
    BY <2>1, <2>2, AnswerMovesTo
  <2>4. job[h].log = "none" /\ job[h].decision = NoOutcome
    BY <1>1 DEF Shape
  <2>. QED  BY <2>3, <2>4
<1>5. CASE Finish(h, 401) /\ UNCHANGED <<metricsVars, loggerVars>>
  <2>1. PICK x : /\ Moved(h, x) /\ x.at = "done" /\ x.answer = 401 /\ x.log = "none"
                 /\ x.decision = NoOutcome /\ x.seen = job[h].seen
    BY <1>4, <1>5
  <2>2. Shape(req[h], x)
    BY <1>1, <2>1 DEF Shape, MutationShape
  <2>3. Counts(h, x, {})
    BY <1>1, <2>1, CountersAre, NoDecision DEF Counts, Counted, After, Due, Shape, Deciding
  <2>4. x.log = job[h].log
    BY <1>1, <2>1 DEF Shape
  <2>. QED  BY <1>1, <1>2, <1>3, <1>5, <2>1, <2>2, <2>3, <2>4, PlainEffect
<1>6. CASE /\ ~req[h].valid /\ Finish(h, 400)
           /\ Count({c \in {"badRequests"} : req[h].kind = "upsert"})
  <2>. DEFINE S == {c \in {"badRequests"} : req[h].kind = "upsert"}
  <2>1. PICK x : /\ Moved(h, x) /\ x.at = "done" /\ x.answer = 400 /\ x.log = "none"
                 /\ x.decision = NoOutcome /\ x.seen = job[h].seen
    BY <1>4, <1>6
  <2>2. Shape(req[h], x)
    BY <1>1, <1>6, <2>1 DEF Shape, MutationShape
  <2>3. Counts(h, x, S)
    BY <1>1, <1>6, <2>1, CountersAre, NoDecision DEF Counts, Counted, After, Due, Shape, Deciding
  <2>4. x.log = job[h].log
    BY <1>1, <2>1 DEF Shape
  <2>. QED  BY <1>1, <1>2, <1>3, <1>6, <2>1, <2>2, <2>3, <2>4, CountingEffect
<1>7. CASE req[h].valid /\ Step(h, "store") /\ Count({"bidMutations"})
  <2>. DEFINE x == [job[h] EXCEPT !.at = "store"]
  <2>1. Moved(h, x)
    BY <1>2, <1>7, StepMoves DEF Places
  <2>2. x.at = "store" /\ x.answer = 0 /\ x.log = job[h].log
        /\ x.decision = NoOutcome /\ x.seen = job[h].seen
    BY <1>1 DEF Jobs, Shape
  <2>. HIDE DEF x
  <2>3. Shape(req[h], x)
    BY <1>1, <1>7, <2>2 DEF Shape, MutationShape
  <2>4. Counts(h, x, {"bidMutations"})
    BY <1>1, <1>7, <2>2, CountersAre, NoDecision DEF Counts, Counted, After, Due, Shape, Deciding
  <2>. QED  BY <1>1, <1>2, <1>3, <1>7, <2>1, <2>2, <2>3, <2>4, CountingEffect
<1>. QED  BY <1>5, <1>6, <1>7 DEF ReceiveMutation

LEMMA CheckReadyEffect ==
  ASSUME HandlersInv, NEW h \in Handlers, CheckReady(h)
  PROVE  \E x : HandlerEffect(h, x)
<1>. DEFINE x == [job[h] EXCEPT !.at = "store"]
<1>1. /\ job[h] \in Jobs /\ req[h] \in Requests /\ Shape(req[h], job[h])
      /\ job[h].at = "received" /\ req[h].kind = "ready" /\ Alive
  BY AtPlace DEF CheckReady
<1>2. Moved(h, x)
  BY StepMoves DEF CheckReady, HandlersInv, Places
<1>3. x.at = "store" /\ x.answer = 0 /\ x.log = job[h].log
      /\ x.decision = NoOutcome /\ x.seen = job[h].seen
  BY <1>1 DEF Jobs, Shape
<1>4. Count({"readinessChecks"}) /\ KeepRest
  BY DEF CheckReady
<1>. HIDE DEF x
<1>5. Shape(req[h], x)
  BY <1>1, <1>3 DEF Shape, ReadyShape
<1>6. Counts(h, x, {"readinessChecks"})
  BY <1>1, <1>3, CountersAre, NoDecision DEF Counts, Counted, After, Due, Shape, Deciding
<1>7. \A d \in Latencies : ~Observes(req[h], x, d) /\ ~Observes(req[h], job[h], d)
  BY <1>1 DEF Observes
<1>. QED  BY <1>1, <1>2, <1>3, <1>4, <1>5, <1>6, <1>7, CountingEffect

(* Answers of the registry: the answer is set, and an error is still to be *)
(* counted.                                                                *)
LEMMA ReplyEffect ==
  ASSUME HandlersInv, NEW h \in Handlers, NEW K \in SUBSET {"upsert", "delete", "ready"},
         At(h, K, "store"), KeepRest, UNCHANGED <<metricsVars, loggerVars>>,
         NEW at \in {"error", "done"}, NEW answer \in {200, 204, 409, 503, 400},
         Answers(h, at, answer), at = "done" <=> answer \in {200, 204},
         req[h].kind = "ready" => answer \in {200, 503},
         req[h].kind = "upsert" => answer # 400
  PROVE  \E x : HandlerEffect(h, x)
<1>1. /\ job[h] \in Jobs /\ req[h] \in Requests /\ Shape(req[h], job[h])
      /\ job[h].at = "store" /\ req[h].kind \in {"upsert", "delete", "ready"} /\ Alive
  <2>1. /\ job[h] \in Jobs /\ req[h] \in Requests /\ Shape(req[h], job[h])
        /\ job[h].at = "store" /\ req[h].kind \in K /\ Alive
    BY DEF HandlersInv, At
  <2>2. \A k \in K : k \in {"upsert", "delete", "ready"}
    OBVIOUS
  <2>3. req[h].kind \in {"upsert", "delete", "ready"}
    BY <2>1, <2>2, Zenon
  <2>. QED  BY <2>1, <2>3, Zenon
<1>2. job \in [Handlers -> Jobs] /\ at \in Places /\ answer \in Nat
  BY DEF HandlersInv, Places
<1>3. PICK x : /\ Moved(h, x) /\ x.at = at /\ x.answer = answer /\ x.log = job[h].log
               /\ x.decision = job[h].decision /\ x.seen = job[h].seen
  BY <1>2, AnswerMovesTo
<1>4. Shape(req[h], x)
  BY <1>1, <1>3 DEF Shape, ReadyShape, MutationShape
<1>5. Counts(h, x, {})
  BY <1>1, <1>3, CountersAre, NoDecision
  DEF Counts, Counted, After, Due, Shape, ReadyShape, MutationShape, Deciding
<1>6. \A d \in Latencies : ~Observes(req[h], x, d) /\ ~Observes(req[h], job[h], d)
  BY <1>1 DEF Observes
<1>. QED  BY <1>1, <1>3, <1>4, <1>5, <1>6, PlainEffect

LEMMA StoreReplyEffect ==
  ASSUME HandlersInv, NEW h \in Handlers, StoreReply(h)
  PROVE  \E x : HandlerEffect(h, x)
<1>1. /\ At(h, {"upsert", "delete"}, "store")
      /\ KeepRest /\ UNCHANGED <<metricsVars, loggerVars>>
  BY DEF StoreReply
<1>2. req[h].kind \in {"upsert", "delete"}
  BY <1>1, AtPlace
<1>3. CASE req[h].kind = "upsert"
  <2>1. \/ Answers(h, "done", 200)
        \/ Answers(h, "error", 409)
        \/ Answers(h, "error", 503)
    BY <1>3 DEF StoreReply, Finish, Answers
  <2>. QED  BY <1>1, <1>3, <2>1, ReplyEffect
<1>4. CASE req[h].kind = "delete"
  <2>1. \/ Answers(h, "done", 204)
        \/ Answers(h, "error", 409)
        \/ Answers(h, "error", 400)
    BY <1>4 DEF StoreReply, Finish, Answers
  <2>. QED  BY <1>1, <1>4, <2>1, ReplyEffect
<1>. QED  BY <1>2, <1>3, <1>4

LEMMA PingReplyEffect ==
  ASSUME HandlersInv, NEW h \in Handlers, PingReply(h)
  PROVE  \E x : HandlerEffect(h, x)
<1>1. At(h, {"ready"}, "store") /\ KeepRest /\ UNCHANGED <<metricsVars, loggerVars>>
  BY DEF PingReply
<1>2. req[h].kind = "ready"
  BY <1>1, AtPlace
<1>3. \/ Answers(h, "done", 200)
      \/ Answers(h, "error", 503)
  BY DEF PingReply, Finish, Answers
<1>. QED  BY <1>1, <1>2, <1>3, ReplyEffect

LEMMA CountErrorEffect ==
  ASSUME HandlersInv, NEW h \in Handlers, CountError(h)
  PROVE  \E x : HandlerEffect(h, x)
<1>. DEFINE x == [job[h] EXCEPT !.at = "done"]
            c == IF req[h].kind = "ready" THEN "readinessFailures" ELSE "bidMutationErrors"
<1>1. /\ job[h] \in Jobs /\ req[h] \in Requests /\ Shape(req[h], job[h])
      /\ job[h].at = "error" /\ req[h].kind \in {"upsert", "delete", "ready"} /\ Alive
  <2>1. At(h, {"upsert", "delete", "ready"}, "error")
    BY DEF CountError
  <2>. QED  BY <2>1, AtPlace
<1>2. Moved(h, x)
  BY StepMoves DEF CountError, HandlersInv, Places
<1>3. x.at = "done" /\ x.answer = job[h].answer /\ x.log = job[h].log
      /\ x.decision = NoOutcome /\ x.seen = job[h].seen
  BY <1>1 DEF Jobs, Shape
<1>4. Count({c}) /\ KeepRest
  BY DEF CountError
<1>. HIDE DEF x
<1>5. Shape(req[h], x)
  BY <1>1, <1>3 DEF Shape, ReadyShape, MutationShape
<1>6. Counts(h, x, {c})
  BY <1>1, <1>3, CountersAre, NoDecision
  DEF Counts, Counted, After, Due, Shape, ReadyShape, MutationShape, Deciding
<1>7. \A d \in Latencies : ~Observes(req[h], x, d) /\ ~Observes(req[h], job[h], d)
  BY <1>1 DEF Observes
<1>. HIDE DEF c
<1>. QED  BY <1>1, <1>2, <1>3, <1>4, <1>5, <1>6, <1>7, CountingEffect

LEMMA ScrapeEffect ==
  ASSUME HandlersInv, metric \in [Counters -> Nat],
         histogram \in [Latencies -> [Buckets -> Nat]],
         NEW h \in Handlers, Scrape(h)
  PROVE  \E x : HandlerEffect(h, x)
<1>. DEFINE value == Loaded(Loads[Len(job[h].seen) + 1])
            seen == Append(job[h].seen, value)
            at == IF Len(seen) = Len(Loads) THEN "done" ELSE "scrape"
            answer == IF Len(seen) = Len(Loads) THEN 200 ELSE 0
            x == [job[h] EXCEPT !.seen = seen, !.at = at, !.answer = answer]
<1>1. /\ job[h] \in Jobs /\ req[h] \in Requests /\ Shape(req[h], job[h])
      /\ job[h].at = "scrape" /\ req[h].kind = "metrics" /\ Alive
  <2>1. At(h, {"metrics"}, "scrape")
    BY DEF Scrape
  <2>. QED  BY <2>1, AtPlace
<1>2. /\ job' = [job EXCEPT ![h].seen = seen, ![h].at = at, ![h].answer = answer]
      /\ KeepRest /\ UNCHANGED <<metricsVars, loggerVars>>
  BY DEF Scrape
<1>3. job[h].seen \in Seq(Nat) /\ Len(job[h].seen) < Len(Loads) /\ Len(Loads) \in Nat
  BY <1>1, LoadsTypes DEF Jobs, Shape, MetricsShape
<1>4. value \in Nat
  <2>1. ASSUME NEW n \in 1..Len(Loads)
        PROVE  Loaded(Loads[n]) \in Nat
    <3>1. CASE Loads[n].bucket = 0 /\ Loads[n].counter \in Counters
      BY <3>1 DEF Loaded
    <3>2. CASE Loads[n].bucket # 0 /\ Loads[n].latency \in Latencies /\ Loads[n].bucket \in Buckets
      <4>1. histogram[Loads[n].latency] \in [Buckets -> Nat]
        BY <3>2
      <4>. QED  BY <3>2, <4>1 DEF Loaded
    <3>. QED  BY <3>1, <3>2, LoadsTypes
  <2>2. Len(job[h].seen) + 1 \in 1..Len(Loads)
    BY <1>3
  <2>. QED  BY <2>1, <2>2
<1>. HIDE DEF value
<1>5. seen \in Seq(Nat) /\ Len(seen) = Len(job[h].seen) + 1
  BY <1>3, <1>4
<1>. HIDE DEF seen
<1>6. at \in Places /\ answer \in Nat /\ at \in {"scrape", "done"} /\ answer \in {0, 200}
      /\ (at # "done" => Len(seen) # Len(Loads))
  BY DEF Places
<1>. HIDE DEF at, answer
<1>7. Moved(h, x)
  <2>1. x \in Jobs
    BY <1>1, <1>5, <1>6 DEF Jobs
  <2>2. job' = [job EXCEPT ![h] = x]
    BY <1>2
  <2>3. job \in [Handlers -> Jobs]
    BY DEF HandlersInv
  <2>. HIDE DEF x
  <2>. QED  BY <2>1, <2>2, <2>3, PutJob
<1>8. x.at = at /\ x.answer = answer /\ x.log = job[h].log
      /\ x.decision = NoOutcome /\ x.seen = seen
  BY <1>1 DEF Jobs, Shape
<1>. HIDE DEF x
<1>9. Shape(req[h], x)
  BY <1>1, <1>3, <1>5, <1>6, <1>8 DEF Shape, MetricsShape
<1>10. Counts(h, x, {})
  BY <1>1, <1>6, <1>8, CountersAre, NoDecision DEF Counts, Counted, After, Due, Shape, Deciding
<1>11. \A d \in Latencies : ~Observes(req[h], x, d) /\ ~Observes(req[h], job[h], d)
  BY <1>1 DEF Observes
<1>. QED  BY <1>1, <1>2, <1>6, <1>7, <1>8, <1>9, <1>10, <1>11, PlainEffect

(* Every step of a handler has such an effect.                             *)
LEMMA HandlerEffects ==
  ASSUME HandlersInv, metric \in [Counters -> Nat],
         histogram \in [Latencies -> [Buckets -> Nat]], NEW h \in Handlers,
         Arrive(h) \/ HandlerStep(h) \/ StoreReply(h) \/ PingReply(h)
  PROVE  \E x : HandlerEffect(h, x)
BY ArriveEffect, RunAuctionEffect, TallyEffect, RecordDecisionEffect, CountDropEffect,
   RespondEffect, CountAuctionEffect, ObserveLatencyEffect, ReceiveMutationEffect,
   CheckReadyEffect, CountErrorEffect, ScrapeEffect, StoreReplyEffect, PingReplyEffect
DEF HandlerStep, AuctionStep

-----------------------------------------------------------------------------
(* Steps of handlers keep the invariant.                                   *)

LEMMA HandlersKept ==
  ASSUME HandlersInv, NEW h \in Handlers, NEW x, HandlerEffect(h, x)
  PROVE  HandlersInv'
<1>1. req' = req /\ Moved(h, x) /\ Shape(req[h], x)
  BY DEF HandlerEffect
<1>2. \A g \in Handlers : Shape(req'[g], job'[g])
  BY <1>1 DEF HandlersInv, Moved
<1>. QED  BY <1>1, <1>2 DEF HandlersInv, Moved

LEMMA MainKept ==
  ASSUME HandlersInv, MainInv, NEW h \in Handlers, NEW x, HandlerEffect(h, x)
  PROVE  MainInv'
<1>1. /\ main' = main /\ exitCode' = exitCode /\ gaveUp' = gaveUp
      /\ listener' = listener /\ store' = store
  BY DEF HandlerEffect, mainVars
<1>2. /\ job'[h] = x /\ \A g \in Handlers : g # h => job'[g] = job[g]
      /\ Alive /\ job[h].at # "done" /\ x.at # "waiting"
      /\ job[h].at = "waiting" => listener = "accepting"
  BY DEF HandlerEffect, Moved
<1>3. closed' = closed
  BY DEF HandlerEffect, LogEffect, loggerVars, Send, Drop
(* The handler was accepted while main serves, or is active.               *)
<1>4. listener # "none" /\ (main \in Late \/ exitCode = 0 => gaveUp)
  BY <1>2 DEF MainInv, Alive, Late
<1>5. x.log = "panic" => gaveUp
  <2>1. x.log = "panic" => job[h].log = "panic" \/ closed
    BY DEF HandlerEffect, LogEffect
  <2>2. closed => main = "drain"
    BY <1>2 DEF MainInv, Alive
  <2>. QED  BY <1>4, <2>1, <2>2 DEF MainInv, Late
<1>6. \A g \in Handlers : job'[g].log = "panic" => gaveUp'
  BY <1>1, <1>2, <1>5 DEF MainInv
<1>7. main' \in Late \/ exitCode' = 0 =>
        gaveUp' \/ \A g \in Handlers : job'[g].at \in {"waiting", "done"}
  BY <1>1, <1>4
<1>8. listener' = "none" => \A g \in Handlers : job'[g].at = "waiting"
  BY <1>1, <1>4
<1>. QED  BY <1>1, <1>3, <1>6, <1>7, <1>8 DEF MainInv

(* A handler that joins a set of handlers makes it one larger.             *)
LEMMA OneMore ==
  ASSUME NEW A \in SUBSET Handlers, NEW B \in SUBSET Handlers, NEW h \in Handlers,
         h \notin A, B = A \cup {h}
  PROVE  Cardinality(A) \in Nat /\ Cardinality(B) = Cardinality(A) + 1
<1>1. IsFiniteSet(A)
  BY ServerAssumption, FS_Subset
<1>. QED  BY <1>1, FS_AddElement, FS_CardinalityType

LEMMA CountKept ==
  ASSUME HandlersInv, CountInv, NEW h \in Handlers, NEW x, HandlerEffect(h, x)
  PROVE  CountInv'
<1>1. /\ job'[h] = x /\ \A g \in Handlers : g # h => job'[g] = job[g]
      /\ req' = req
  BY DEF HandlerEffect, Moved
<1>2. ASSUME NEW c \in Counters
      PROVE  /\ metric'[c] \in Nat
             /\ metric'[c] = Cardinality({g \in Handlers : c \in Counted(req'[g], job'[g])})
  <2>. DEFINE A == {g \in Handlers : c \in Counted(req[g], job[g])}
              B == {g \in Handlers : c \in Counted(req'[g], job'[g])}
  <2>1. metric[c] \in Nat /\ metric[c] = Cardinality(A)
    BY DEF CountInv
  <2>2. \/ metric'[c] = metric[c] /\ (h \in B <=> h \in A)
        \/ metric'[c] = metric[c] + 1 /\ h \in B /\ h \notin A
    <3>1. CASE UNCHANGED metric /\ Counts(h, x, {})
      BY <1>1, <3>1 DEF Counts
    <3>2. ASSUME NEW S, Bump(S), Counts(h, x, S)
          PROVE  \/ metric'[c] = metric[c] /\ (h \in B <=> h \in A)
                 \/ metric'[c] = metric[c] + 1 /\ h \in B /\ h \notin A
      <4>1. /\ h \in B <=> h \in A \/ c \in S
            /\ c \in S => h \notin A
        BY <1>1, <3>2 DEF Counts
      <4>2. metric'[c] = metric[c] + IF c \in S THEN 1 ELSE 0
        BY <3>2 DEF Bump
      <4>3. CASE c \in S
        BY <4>1, <4>2, <4>3
      <4>4. CASE c \notin S
        BY <2>1, <4>1, <4>2, <4>4
      <4>. QED  BY <4>3, <4>4
    <3>. QED  BY <3>1, <3>2 DEF HandlerEffect, CountEffect
  <2>3. \A g \in Handlers : g # h => (g \in B <=> g \in A)
    BY <1>1
  <2>4. A \subseteq Handlers /\ B \subseteq Handlers
    OBVIOUS
  <2>. HIDE DEF A, B
  <2>5. CASE metric'[c] = metric[c] /\ (h \in B <=> h \in A)
    <3>1. B = A
      BY <2>3, <2>4, <2>5
    <3>. QED  BY <2>1, <2>5, <3>1 DEF B
  <2>6. CASE metric'[c] = metric[c] + 1 /\ h \in B /\ h \notin A
    <3>1. B = A \cup {h}
      BY <2>3, <2>4, <2>6
    <3>2. Cardinality(B) = Cardinality(A) + 1
      BY <2>4, <2>6, <3>1, OneMore
    <3>. QED  BY <2>1, <2>6, <3>2 DEF B
  <2>. QED  BY <2>2, <2>5, <2>6
<1>3. metric' \in [Counters -> Nat]
  <2>1. CASE UNCHANGED metric
    BY <2>1 DEF CountInv
  <2>2. ASSUME NEW S, Bump(S)
        PROVE  metric' \in [Counters -> Nat]
    BY <1>2, <2>2 DEF Bump
  <2>. QED  BY <2>1, <2>2 DEF HandlerEffect, CountEffect
<1>4. dropped' = Cardinality({g \in Handlers : job'[g].log = "dropped"})
  <2>. DEFINE A == {g \in Handlers : job[g].log = "dropped"}
              B == {g \in Handlers : job'[g].log = "dropped"}
  <2>1. dropped = Cardinality(A) /\ A \subseteq Handlers /\ B \subseteq Handlers
    BY DEF CountInv
  <2>2. \A g \in Handlers : g # h => (g \in B <=> g \in A)
    BY <1>1
  <2>3. \/ dropped' = dropped /\ (h \in B <=> h \in A)
        \/ dropped' = dropped + 1 /\ h \in B /\ h \notin A
    BY <1>1 DEF HandlerEffect, LogEffect, loggerVars, Send, Drop
  <2>. HIDE DEF A, B
  <2>4. CASE dropped' = dropped /\ (h \in B <=> h \in A)
    <3>1. B = A
      BY <2>1, <2>2, <2>4
    <3>. QED  BY <2>1, <2>4, <3>1 DEF B
  <2>5. CASE dropped' = dropped + 1 /\ h \in B /\ h \notin A
    <3>1. B = A \cup {h}
      BY <2>1, <2>2, <2>5
    <3>. QED  BY <2>1, <2>5, <3>1, OneMore DEF B
  <2>. QED  BY <2>3, <2>4, <2>5
<1>. QED  BY <1>2, <1>3, <1>4 DEF CountInv

LEMMA HistogramKept ==
  ASSUME HandlersInv, HistogramInv, NEW h \in Handlers, NEW x, HandlerEffect(h, x)
  PROVE  HistogramInv'
<1>1. /\ job'[h] = x /\ \A g \in Handlers : g # h => job'[g] = job[g]
      /\ req' = req
  BY DEF HandlerEffect, Moved
<1>2. ASSUME NEW d \in Latencies, NEW i \in Buckets
      PROVE  /\ histogram'[d][i] \in Nat
             /\ histogram'[d][i] =
                  Cardinality({g \in {f \in Handlers : Observes(req'[f], job'[f], d)} :
                                 InBucket(i, job'[g].timing[d])})
  <2>. DEFINE A == {g \in {f \in Handlers : Observes(req[f], job[f], d)} :
                      InBucket(i, job[g].timing[d])}
              B == {g \in {f \in Handlers : Observes(req'[f], job'[f], d)} :
                      InBucket(i, job'[g].timing[d])}
  <2>1. histogram[d][i] \in Nat /\ histogram[d][i] = Cardinality(A)
    <3>1. histogram[d] \in [Buckets -> Nat]
      BY DEF HistogramInv
    <3>. QED  BY <3>1 DEF HistogramInv, Observed
  <2>2. \A g \in Handlers : g # h => (g \in B <=> g \in A)
    BY <1>1
  <2>3. A \subseteq Handlers /\ B \subseteq Handlers
    OBVIOUS
  <2>4. \/ histogram'[d][i] = histogram[d][i] /\ (h \in B <=> h \in A)
        \/ histogram'[d][i] = histogram[d][i] + 1 /\ h \in B /\ h \notin A
    <3>1. CASE /\ UNCHANGED histogram
               /\ Observes(req[h], x, d) <=> Observes(req[h], job[h], d)
               /\ Observes(req[h], x, d) => x.timing = job[h].timing
      BY <1>1, <3>1
    <3>2. ASSUME NEW e \in Latencies,
                 ObserveHistogram(e, job[h].timing[e]), x.timing = job[h].timing,
                 Observes(req[h], x, e), ~Observes(req[h], job[h], e),
                 \A f \in Latencies \ {e} : Observes(req[h], x, f) <=> Observes(req[h], job[h], f)
          PROVE  \/ histogram'[d][i] = histogram[d][i] /\ (h \in B <=> h \in A)
                 \/ histogram'[d][i] = histogram[d][i] + 1 /\ h \in B /\ h \notin A
      <4>1. CASE e # d
        <5>1. histogram'[d] = histogram[d]
          BY <3>2, <4>1 DEF ObserveHistogram, HistogramInv
        <5>2. Observes(req[h], x, d) <=> Observes(req[h], job[h], d)
          BY <3>2, <4>1
        <5>. QED  BY <1>1, <3>2, <5>1, <5>2
      <4>2. CASE e = d
        <5>1. histogram'[d][i] = histogram[d][i]
                + IF InBucket(i, job[h].timing[d]) THEN 1 ELSE 0
          BY <3>2, <4>2 DEF ObserveHistogram, HistogramInv
        <5>2. h \notin A
          BY <3>2, <4>2
        <5>3. h \in B <=> InBucket(i, job[h].timing[d])
          BY <1>1, <3>2, <4>2
        <5>. QED  BY <2>1, <5>1, <5>2, <5>3
      <4>. QED  BY <4>1, <4>2
    <3>. QED  BY <3>1, <3>2 DEF HandlerEffect, ObserveEffect
  <2>. HIDE DEF A, B
  <2>5. CASE histogram'[d][i] = histogram[d][i] /\ (h \in B <=> h \in A)
    <3>1. B = A
      BY <2>2, <2>3, <2>5
    <3>. QED  BY <2>1, <2>5, <3>1 DEF B
  <2>6. CASE histogram'[d][i] = histogram[d][i] + 1 /\ h \in B /\ h \notin A
    <3>1. B = A \cup {h}
      BY <2>2, <2>3, <2>6
    <3>2. Cardinality(B) = Cardinality(A) + 1
      BY <2>3, <2>6, <3>1, OneMore
    <3>. QED  BY <2>1, <2>6, <3>2 DEF B
  <2>. QED  BY <2>4, <2>5, <2>6
<1>3. histogram' \in [Latencies -> [Buckets -> Nat]]
  <2>1. CASE UNCHANGED histogram
    BY <2>1 DEF HistogramInv
  <2>2. ASSUME NEW e \in Latencies, ObserveHistogram(e, job[h].timing[e])
        PROVE  histogram' \in [Latencies -> [Buckets -> Nat]]
    <3>1. \A i \in Buckets : histogram[e][i] \in Nat
      BY DEF HistogramInv
    <3>2. [i \in Buckets |-> histogram[e][i] + IF InBucket(i, job[h].timing[e]) THEN 1 ELSE 0]
            \in [Buckets -> Nat]
      BY <3>1
    <3>. QED  BY <2>2, <3>2 DEF ObserveHistogram, HistogramInv
  <2>. QED  BY <2>1, <2>2 DEF HandlerEffect, ObserveEffect
<1>. QED  BY <1>2, <1>3 DEF HistogramInv, Observed

(* A step that neither accepts an entry nor moves one.                     *)
LEMMA LogUntouched ==
  ASSUME LogInv, Sent' = Sent, UNCHANGED <<queue, writing, written, runner>>,
         server'.buffer = server.buffer, closed => closed',
         main' \in Early => main \in Early, exitCode' = 0 => exitCode = 0
  PROVE  LogInv'
<1>1. Queued' = Queued
  BY DEF Queued
<1>. QED  BY <1>1 DEF LogInv

LEMMA LogKept ==
  ASSUME HandlersInv, MainInv, LogInv, NEW h \in Handlers, NEW x, HandlerEffect(h, x)
  PROVE  LogInv'
<1>1. /\ job'[h] = x /\ \A g \in Handlers : g # h => job'[g] = job[g]
      /\ Alive
  BY DEF HandlerEffect, Moved
<1>2. server' = server /\ main' = main /\ exitCode' = exitCode
  BY DEF HandlerEffect, mainVars
<1>3. CASE /\ x.log = "sent" <=> job[h].log = "sent"
           /\ UNCHANGED <<queue, writing, written, runner, closed>>
  <2>1. Sent' = Sent
    BY <1>1, <1>3 DEF Sent
  <2>. QED  BY <1>2, <1>3, <2>1, LogUntouched
<1>4. CASE /\ x.log = "sent" /\ job[h].log = "none" /\ runner # "none"
           /\ Room(server.buffer) /\ Send(h)
  <2>1. Sent' = Sent \cup {h} /\ h \notin Sent
    BY <1>1, <1>4 DEF Sent
  <2>2. /\ queue \in Seq(Handlers) /\ Len(queue) \in Nat /\ Len(queue) < server.buffer
        /\ ~closed /\ server.buffer \in Nat
    BY <1>4 DEF Room, LogInv
  <2>3. UNCHANGED <<closed, runner, writing, written>> /\ queue' = Append(queue, h)
    BY <1>4 DEF Send
  <2>4. runner = "running"
    BY <1>4, <2>2 DEF LogInv
  <2>5. /\ queue' \in Seq(Handlers) /\ Len(queue') = Len(queue) + 1
        /\ DOMAIN queue = 1..Len(queue) /\ DOMAIN queue' = 1..(Len(queue) + 1)
        /\ \A i \in 1..Len(queue) : queue'[i] = queue[i]
        /\ queue'[Len(queue) + 1] = h
    BY <2>2, <2>3
  (* The entry is new to the log. *)
  <2>6. /\ h # writing /\ h \notin written
        /\ \A i \in 1..Len(queue) : queue[i] # h
    <3>1. h # NoEntry
      BY ServerAssumption
    <3>2. h \notin Queued \cup ({writing} \ {NoEntry}) \cup written
      BY <2>1 DEF LogInv
    <3>3. h \notin Queued
      BY <3>2
    <3>. QED  BY <2>5, <3>1, <3>2, <3>3 DEF Queued
  <2>7. Queued' = Queued \cup {h}
    <3>1. \A e : e \in Queued' <=> \E i \in 1..(Len(queue) + 1) : e = queue'[i]
      BY <2>5 DEF Queued
    <3>2. \A e : e \in Queued <=> \E i \in 1..Len(queue) : e = queue[i]
      BY <2>5 DEF Queued
    <3>3. \A i \in 1..(Len(queue) + 1) : i \in 1..Len(queue) \/ i = Len(queue) + 1
      BY <2>2
    <3>4. \A i \in 1..Len(queue) : i \in 1..(Len(queue) + 1)
      BY <2>2
    <3>5. Len(queue) + 1 \in 1..(Len(queue) + 1)
      BY <2>2
    <3>6. \A e : e \in Queued' <=> e \in Queued \/ e = h
      BY <2>5, <3>1, <3>2, <3>3, <3>4, <3>5
    <3>. QED  BY <3>6
  <2>8. Cardinality(Sent') = Cardinality(Sent) + 1 /\ Cardinality(Sent) \in Nat
    <3>1. Sent \subseteq Handlers /\ Sent' \subseteq Handlers
      BY DEF Sent
    <3>. QED  BY <2>1, <3>1, OneMore
  <2>9. Sent' = Queued' \cup ({writing'} \ {NoEntry}) \cup written'
    <3>1. Sent = Queued \cup ({writing} \ {NoEntry}) \cup written
      BY DEF LogInv
    <3>. QED  BY <2>1, <2>3, <2>7, <3>1
  <2>10. Cardinality(Sent') = Len(queue') + Cardinality({writing'} \ {NoEntry})
                                          + Cardinality(written')
    <3>. DEFINE w == Cardinality({writing} \ {NoEntry})
                n == Cardinality(written)
    <3>1. Cardinality(Sent) = Len(queue) + w + n
      BY DEF LogInv
    <3>2. w \in Nat /\ n \in Nat
      <4>1. IsFiniteSet({writing} \ {NoEntry})
        BY FS_Singleton, FS_Subset
      <4>2. IsFiniteSet(written)
        BY ServerAssumption, FS_Subset DEF LogInv
      <4>. QED  BY <4>1, <4>2, FS_CardinalityType
    <3>3. Cardinality({writing'} \ {NoEntry}) = w /\ Cardinality(written') = n
      BY <2>3
    <3>. HIDE DEF w, n
    <3>. QED  BY <2>2, <2>5, <2>8, <3>1, <3>2, <3>3
  <2>11. \A i, k \in DOMAIN queue' : queue'[i] = queue'[k] => i = k
    <3>1. \A i, k \in 1..Len(queue) : queue[i] = queue[k] => i = k
      BY <2>5 DEF LogInv
    <3>. QED  BY <2>2, <2>5, <2>6, <3>1
  <2>12. \A i \in DOMAIN queue' : queue'[i] # writing' /\ queue'[i] \notin written'
    <3>1. \A i \in 1..Len(queue) : queue[i] # writing /\ queue[i] \notin written
      BY <2>5 DEF LogInv
    <3>. QED  BY <2>2, <2>3, <2>5, <2>6, <3>1
  <2>13. exitCode' # 0
    BY <1>1, <1>2 DEF MainInv, Alive
  <2>. QED
    BY <1>2, <2>2, <2>3, <2>4, <2>5, <2>9, <2>10, <2>11, <2>12, <2>13 DEF LogInv
<1>. QED  BY <1>3, <1>4 DEF HandlerEffect, LogEffect, loggerVars, Drop

-----------------------------------------------------------------------------
(* The goroutine of the decision log moves entries, and loses none.        *)

LEMMA OneOrNone ==
  ASSUME NEW e
  PROVE  /\ e # NoEntry => Cardinality({e} \ {NoEntry}) = 1
         /\ Cardinality({NoEntry} \ {NoEntry}) = 0
<1>1. e # NoEntry => {e} \ {NoEntry} = {e}
  OBVIOUS
<1>2. {NoEntry} \ {NoEntry} = {}
  OBVIOUS
<1>. QED  BY <1>1, <1>2, FS_Singleton, FS_EmptySet

LEMMA RunKeepsLog ==
  ASSUME HandlersInv, MainInv, LogInv, LogStep
  PROVE  LogInv'
<1>1. /\ job' = job /\ server' = server /\ main' = main /\ exitCode' = exitCode
      /\ main # "exited" /\ exitCode = -1
  BY DEF LogStep, mainVars, handlerVars, Alive, MainInv
<1>2. Sent' = Sent
  BY <1>1 DEF Sent
<1>3. CASE Receive
  <2>1. /\ runner = "running" /\ writing = NoEntry /\ queue # <<>>
        /\ writing' = Head(queue) /\ queue' = Tail(queue)
        /\ UNCHANGED <<closed, runner, written>>
    BY <1>3 DEF Receive
  <2>2. queue \in Seq(Handlers) /\ Len(queue) \in Nat /\ DOMAIN queue = 1..Len(queue)
    BY DEF LogInv
  <2>3. /\ queue' \in Seq(Handlers) /\ Len(queue') = Len(queue) - 1 /\ Len(queue) > 0
        /\ DOMAIN queue' = 1..(Len(queue) - 1)
        /\ \A i \in 1..(Len(queue) - 1) : queue'[i] = queue[i + 1]
        /\ writing' = queue[1] /\ queue[1] \in Handlers
    BY <2>1, <2>2
  <2>4. \A i, k \in 1..Len(queue) : queue[i] = queue[k] => i = k
    BY <2>2 DEF LogInv
  <2>5. \A i \in 1..Len(queue) : queue[i] \notin written
    BY <2>2 DEF LogInv
  <2>6. \A i, k \in DOMAIN queue' : queue'[i] = queue'[k] => i = k
    BY <2>2, <2>3, <2>4
  <2>7. \A i \in DOMAIN queue' : queue'[i] # writing' /\ queue'[i] \notin written'
    BY <2>1, <2>2, <2>3, <2>4, <2>5
  <2>8. writing' # NoEntry /\ writing' \notin written'
    BY <2>1, <2>2, <2>3, <2>5, ServerAssumption
  <2>9. Queued = Queued' \cup {writing'}
    <3>1. \A e : e \in Queued' <=> \E i \in 1..(Len(queue) - 1) : e = queue'[i]
      BY <2>3 DEF Queued
    <3>2. \A e : e \in Queued <=> \E i \in 1..Len(queue) : e = queue[i]
      BY <2>2 DEF Queued
    <3>3. \A i \in 1..Len(queue) : i = 1 \/ (i - 1 \in 1..(Len(queue) - 1) /\ (i - 1) + 1 = i)
      BY <2>2
    <3>4. \A i \in 1..(Len(queue) - 1) : i + 1 \in 1..Len(queue)
      BY <2>2
    <3>5. 1 \in 1..Len(queue)
      BY <2>2, <2>3
    <3>6. ASSUME NEW e \in Queued  PROVE e \in Queued' \/ e = writing'
      <4>1. PICK i \in 1..Len(queue) : e = queue[i]
        BY <3>2, <3>6
      <4>2. CASE i = 1
        BY <2>3, <4>1, <4>2
      <4>3. CASE i # 1
        <5>1. i - 1 \in 1..(Len(queue) - 1) /\ (i - 1) + 1 = i
          BY <3>3, <4>3
        <5>2. queue'[i - 1] = queue[i]
          BY <2>3, <5>1
        <5>. QED  BY <3>1, <4>1, <5>1, <5>2
      <4>. QED  BY <4>2, <4>3
    <3>7. \A e \in Queued' : e \in Queued
      BY <2>3, <3>1, <3>2, <3>4
    <3>8. writing' \in Queued
      BY <2>3, <3>2, <3>5
    <3>. QED  BY <3>6, <3>7, <3>8
  <2>10. Sent' = Queued' \cup ({writing'} \ {NoEntry}) \cup written'
    <3>1. Sent = Queued \cup ({writing} \ {NoEntry}) \cup written
      BY DEF LogInv
    <3>2. {writing} \ {NoEntry} = {} /\ {writing'} \ {NoEntry} = {writing'}
      BY <2>1, <2>8
    <3>3. written' = written
      BY <2>1
    <3>. QED  BY <1>2, <2>9, <3>1, <3>2, <3>3
  <2>11. Cardinality(Sent') = Len(queue') + Cardinality({writing'} \ {NoEntry})
                                          + Cardinality(written')
    <3>1. Cardinality(Sent) = Len(queue) + Cardinality({writing} \ {NoEntry})
                                         + Cardinality(written)
      BY DEF LogInv
    <3>2. Cardinality({writing} \ {NoEntry}) = 0 /\ Cardinality({writing'} \ {NoEntry}) = 1
      BY <2>1, <2>8, OneOrNone
    <3>3. Cardinality(written) \in Nat /\ written' = written
      <4>1. IsFiniteSet(written)
        BY ServerAssumption, FS_Subset DEF LogInv
      <4>. QED  BY <2>1, <4>1, FS_CardinalityType
    <3>. QED  BY <1>2, <2>2, <2>3, <3>1, <3>2, <3>3
  <2>. QED
    BY <1>1, <2>1, <2>2, <2>3, <2>6, <2>7, <2>8, <2>10, <2>11 DEF LogInv
<1>4. CASE Write
  <2>1. /\ writing # NoEntry /\ written' = written \cup {writing} /\ writing' = NoEntry
        /\ UNCHANGED <<queue, closed, runner>>
    BY <1>4 DEF Write
  <2>2. writing \in Handlers /\ writing \notin written /\ runner = "running"
    BY <2>1 DEF LogInv
  <2>3. Queued' = Queued
    BY <2>1 DEF Queued
  <2>4. Sent' = Queued' \cup ({writing'} \ {NoEntry}) \cup written'
    <3>1. Sent = Queued \cup ({writing} \ {NoEntry}) \cup written
      BY DEF LogInv
    <3>. QED  BY <1>2, <2>1, <2>3, <3>1
  <2>5. Cardinality(Sent') = Len(queue') + Cardinality({writing'} \ {NoEntry})
                                         + Cardinality(written')
    <3>1. Cardinality(Sent) = Len(queue) + Cardinality({writing} \ {NoEntry})
                                         + Cardinality(written)
      BY DEF LogInv
    <3>2. Cardinality({writing} \ {NoEntry}) = 1 /\ Cardinality({writing'} \ {NoEntry}) = 0
      BY <2>1, OneOrNone
    <3>3. Cardinality(written') = Cardinality(written) + 1 /\ Cardinality(written) \in Nat
      <4>1. written \subseteq Handlers /\ written' \subseteq Handlers
        BY <2>1, <2>2 DEF LogInv
      <4>. QED  BY <2>1, <2>2, <4>1, OneMore
    <3>4. Len(queue') = Len(queue) /\ Len(queue) \in Nat
      BY <2>1 DEF LogInv
    <3>. QED  BY <1>2, <3>1, <3>2, <3>3, <3>4
  <2>6. \A i \in DOMAIN queue' : queue'[i] # writing' /\ queue'[i] \notin written'
    <3>1. \A i \in DOMAIN queue : queue[i] \in Handlers /\ queue[i] # writing
                                  /\ queue[i] \notin written
      BY DEF LogInv
    <3>. QED  BY <2>1, <3>1, ServerAssumption
  <2>7. writing' \notin written' /\ written' \subseteq Handlers
    BY <2>1, <2>2, ServerAssumption DEF LogInv
  (* Before main serves, no entry was sent. *)
  <2>8. main \notin Early
    <3>1. writing \in Sent
      BY <2>1 DEF LogInv
    <3>2. main \in Early => \A h \in Handlers : job[h].at = "waiting"
      BY DEF MainInv
    <3>3. \A h \in Handlers : job[h].at = "waiting" => job[h].log = "none"
      BY DEF HandlersInv, Shape
    <3>. QED  BY <2>2, <3>1, <3>2, <3>3 DEF Sent
  <2>. QED  BY <1>1, <2>1, <2>2, <2>4, <2>5, <2>6, <2>7, <2>8 DEF LogInv
<1>5. CASE RunEnds
  <2>1. /\ writing = NoEntry /\ queue = <<>> /\ closed /\ runner' = "done"
        /\ UNCHANGED <<queue, closed, writing, written>>
    BY <1>5 DEF RunEnds
  <2>2. Queued' = Queued
    BY <2>1 DEF Queued
  <2>3. main \notin Early
    BY <2>1 DEF MainInv, Early
  <2>. QED  BY <1>1, <1>2, <2>1, <2>2, <2>3 DEF LogInv
<1>. QED  BY <1>3, <1>4, <1>5 DEF LogStep, Run

-----------------------------------------------------------------------------
(* main                                                                    *)

LEMMA HandlersIdle ==
  ASSUME HandlersInv, CountInv, HistogramInv, UNCHANGED handlerVars, dropped' = dropped
  PROVE  HandlersInv' /\ CountInv' /\ HistogramInv'
<1>1. req' = req /\ job' = job /\ metric' = metric /\ histogram' = histogram
  BY DEF handlerVars, metricsVars
<1>2. HandlersInv'
  BY <1>1 DEF HandlersInv
<1>3. CountInv'
  BY <1>1 DEF CountInv
<1>4. HistogramInv'
  BY <1>1 DEF HistogramInv, Observed
<1>. QED  BY <1>2, <1>3, <1>4

(* Startup and shutdown keep their order.                                  *)
LEMMA StartupKeepsOrder ==
  ASSUME HandlersInv, MainInv, Startup
  PROVE  MainInv'
<1>1. /\ job' = job /\ gaveUp' = gaveUp /\ store' = store /\ closed' = closed
      /\ main \in Early
  BY DEF Startup, ReadConfig, Ping, Warm, BuildServer, BuildEngine, Listen, Early,
         handlerVars, loggerVars, NewDecisionLogger
<1>2. /\ \/ main' \in Early /\ exitCode' = exitCode /\ listener' = listener
         \/ main' = "serve" /\ exitCode' = exitCode /\ listener' = "starting"
         \/ main' = "exited" /\ exitCode' \in {1, 2} /\ listener' = listener
  BY DEF Startup, ReadConfig, Ping, Warm, BuildServer, BuildEngine, Listen, Early, Goto, Exit
<1>3. /\ exitCode = -1 /\ listener = "none" /\ store = "open" /\ ~closed /\ ~gaveUp
      /\ \A h \in Handlers : job[h].at = "waiting" /\ job[h].log # "panic"
  BY <1>1 DEF MainInv, Early, Late
<1>. QED  BY <1>1, <1>2, <1>3 DEF MainInv, Early, Late

LEMMA ShutdownKeepsOrder ==
  ASSUME HandlersInv, MainInv, Shutdown
  PROVE  MainInv'
<1>1. job' = job
  BY DEF Shutdown, BeginShutdown, EndShutdown, CloseStore, CloseLog, Return, handlerVars
<1>2. CASE BeginShutdown
  BY <1>1, <1>2 DEF BeginShutdown, MainInv, Goto, Early, Late, loggerVars
<1>3. CASE EndShutdown
  <2>1. /\ main = "shutdown" /\ main' = "store" /\ exitCode' = exitCode
        /\ gaveUp' = (Active # {}) /\ listener' = listener /\ store' = store
        /\ closed' = closed
    BY <1>3 DEF EndShutdown, Goto, loggerVars
  <2>2. gaveUp' \/ \A h \in Handlers : job'[h].at \in {"waiting", "done"}
    BY <1>1, <2>1 DEF Active
  <2>3. /\ ~gaveUp /\ exitCode = -1 /\ ~closed /\ store = "open"
        /\ listener \notin {"starting", "accepting"}
    BY <2>1 DEF MainInv, Early, Late
  <2>4. \A h \in Handlers : job'[h].log # "panic"
    BY <1>1, <2>3 DEF MainInv
  <2>5. gaveUp' \in BOOLEAN
    BY <2>1
  <2>. QED  BY <1>1, <2>1, <2>2, <2>3, <2>4, <2>5 DEF MainInv, Early, Late
<1>4. CASE CloseStore
  BY <1>1, <1>4 DEF CloseStore, MainInv, Goto, Early, Late, loggerVars
<1>5. CASE CloseLog
  <2>1. closed' \in BOOLEAN
    BY <1>5 DEF CloseLog, CloseQueue
  <2>. QED  BY <1>1, <1>5, <2>1 DEF CloseLog, MainInv, Goto, Early, Late
<1>6. CASE Return
  BY <1>1, <1>6 DEF Return, MainInv, Exit, Early, Late, loggerVars
<1>. QED  BY <1>2, <1>3, <1>4, <1>5, <1>6 DEF Shutdown

LEMMA SignalsKeepOrder ==
  ASSUME HandlersInv, MainInv, Signal \/ Accept \/ ListenFails \/ LogStep
  PROVE  MainInv'
<1>1. /\ job' = job /\ main' = main /\ exitCode' = exitCode /\ gaveUp' = gaveUp
      /\ store' = store /\ closed' = closed
  BY DEF Signal, Accept, ListenFails, LogStep, Run, Receive, Write, RunEnds,
         handlerVars, loggerVars, mainVars
<1>2. \/ listener' = listener
      \/ listener \in {"starting", "accepting"} /\ listener' \in {"accepting", "failed"}
  BY DEF Signal, Accept, ListenFails, LogStep, mainVars
<1>. QED  BY <1>1, <1>2 DEF MainInv

-----------------------------------------------------------------------------
(* The configuration.  Reading the environment leaves no number below its  *)
(* least value, whatever the environment is.                               *)

LEMMA ParsedValues ==
  ASSUME NEW raw, NEW least \in Int, NEW default \in Int, default >= least
  PROVE  Parsed(raw, least, default) \in Int /\ Parsed(raw, least, default) >= least
BY DEF Parsed

(* The numbers of the configuration.                                       *)
Positive == {"CacheRefresh", "MaxSnapshotAge", "DecisionLogBuffer", "DSPTimeout", "CacheTTL",
             "FailureTTL", "MaxFanout", "MaxConcurrentRefreshes", "MaxKeys",
             "DSPMaxConcurrent", "DSPFailureThreshold", "DSPCircuitOpenFor"}

LEMMA ConfigValues ==
  ASSUME NEW env
  PROVE  /\ \A f \in Positive : ConfigFromEnv(env)[f] \in Int /\ ConfigFromEnv(env)[f] >= 1
         /\ ConfigFromEnv(env).Increment \in Int
<1>1. /\ Second \in Int /\ Minute \in Int /\ 30 * Second \in Int /\ 2 * Second \in Int
      /\ 5 * Second \in Int
      /\ Minute >= 1 /\ 30 * Second >= 1 /\ 2 * Second >= 1 /\ 5 * Second >= 1
  BY DEF Second, Minute
<1>. DEFINE c == ConfigFromEnv(env)
            AtLeastOne(v) == v \in Int /\ v >= 1
<1>2. \A raw : /\ AtLeastOne(Parsed(raw, 1, 30 * Second)) /\ AtLeastOne(Parsed(raw, 1, Minute))
               /\ AtLeastOne(Parsed(raw, 1, 2 * Second)) /\ AtLeastOne(Parsed(raw, 1, 5 * Second))
  BY <1>1, ParsedValues
<1>3. \A raw : \A default \in {4096, 60, 250, 3, 128, 10000, 32} :
        AtLeastOne(Parsed(raw, 1, default))
  BY ParsedValues
<1>4. AtLeastOne(c.CacheRefresh)
  BY <1>2 DEF ConfigFromEnv
<1>5. AtLeastOne(c.MaxSnapshotAge)
  BY <1>2 DEF ConfigFromEnv
<1>6. AtLeastOne(c.CacheTTL)
  BY <1>2 DEF ConfigFromEnv
<1>7. AtLeastOne(c.DSPCircuitOpenFor)
  BY <1>2 DEF ConfigFromEnv
<1>8. AtLeastOne(c.DecisionLogBuffer)
  BY <1>3 DEF ConfigFromEnv
<1>9. AtLeastOne(c.DSPTimeout)
  BY <1>3 DEF ConfigFromEnv
<1>10. AtLeastOne(c.FailureTTL)
  BY <1>3 DEF ConfigFromEnv
<1>11. AtLeastOne(c.MaxFanout)
  BY <1>3 DEF ConfigFromEnv
<1>12. AtLeastOne(c.MaxConcurrentRefreshes)
  BY <1>3 DEF ConfigFromEnv
<1>13. AtLeastOne(c.MaxKeys)
  BY <1>3 DEF ConfigFromEnv
<1>14. AtLeastOne(c.DSPMaxConcurrent)
  BY <1>3 DEF ConfigFromEnv
<1>15. AtLeastOne(c.DSPFailureThreshold)
  BY <1>3 DEF ConfigFromEnv
<1>16. c.Increment \in Int
  <2>1. \A raw : Parsed(raw, 0, 1) \in Int
    BY ParsedValues
  <2>. QED  BY <2>1 DEF ConfigFromEnv
<1>. HIDE DEF c
<1>17. \A f \in Positive : c[f] \in Int /\ c[f] >= 1
  BY <1>4, <1>5, <1>6, <1>7, <1>8, <1>9, <1>10, <1>11, <1>12, <1>13, <1>14, <1>15 DEF Positive
<1>. QED  BY <1>16, <1>17 DEF c

LEMMA ReadConfigKept ==
  ASSUME ConfigInv, ReadConfig
  PROVE  ConfigInv'
<1>1. server' = server /\ main' \in {"ping", "exited"}
  BY DEF ReadConfig, Goto, Exit
<1>2. main' = "ping" => \E env \in Envs : config' = ConfigFromEnv(env) /\ Validate(config')
  BY DEF ReadConfig, Goto, Exit
<1>. QED  BY <1>1, <1>2 DEF ConfigInv, ConfigInForce, Early

LEMMA BuildServerKept ==
  ASSUME ConfigInv, BuildServer
  PROVE  ConfigInv' /\ server'.buffer \in Nat
<1>1. PICK env \in Envs : config = ConfigFromEnv(env) /\ Validate(config)
  BY DEF BuildServer, ConfigInv, Early
<1>2. /\ main' = "engine" /\ config' = config
  BY DEF BuildServer, Goto
<1>3. /\ \A f \in Positive : config[f] \in Int /\ config[f] >= 1
      /\ config.Increment \in Int
  BY <1>1, ConfigValues
<1>. DEFINE p == [RefreshEvery |-> config.CacheRefresh, MaxSnapshotAge |-> config.MaxSnapshotAge,
                  StaleAction |-> config.StaleSnapshotAction]
            q == [PricingModel |-> config.PricingModel, Increment |-> config.Increment]
<1>4. NewCachePolicy(p) = p
  <2>1. config.CacheRefresh > 0 /\ config.MaxSnapshotAge > 0
    BY <1>3 DEF Positive
  <2>2. config.StaleSnapshotAction \in {"serve_stale", "no_bid"}
    BY <1>1 DEF Validate
  <2>. QED  BY <2>1, <2>2 DEF NewCachePolicy
<1>5. NewAuctionPolicy(q) = q
  <2>1. PolicyOK(q)
    BY <1>1 DEF Validate, PolicyOK
  <2>. QED  BY <2>1 DEF NewAuctionPolicy
<1>6. /\ LogBuffer(config) \in Nat
      /\ config.DecisionLogging => LogBuffer(config) = config.DecisionLogBuffer
  <2>1. config.DecisionLogBuffer \in Int /\ config.DecisionLogBuffer >= 1
    BY <1>3 DEF Positive
  <2>. QED  BY <2>1 DEF LogBuffer
<1>7. built' = [cache |-> p, auction |-> q, engine |-> NoConfig, bidder |-> NoConfig]
  BY <1>4, <1>5 DEF BuildServer
<1>8. server' = [AdminToken |-> config.AdminToken # "", buffer |-> LogBuffer(config),
                 engine |-> FALSE, rejectStale |-> built'.cache.StaleAction = "no_bid"]
  BY DEF BuildServer
<1>9. server'.buffer = LogBuffer(config)
      /\ DOMAIN server' = {"AdminToken", "buffer", "engine", "rejectStale"}
  BY <1>8
<1>10. built'.cache = p /\ built'.auction = q /\ built'.engine = NoConfig /\ built'.bidder = NoConfig
  BY <1>7
<1>11. ConfigInForce'
  BY <1>2, <1>6, <1>9, <1>10 DEF ConfigInForce
<1>. HIDE DEF p, q
<1>12. built' = [cache |-> built'.cache, auction |-> built'.auction,
                 engine |-> NoConfig, bidder |-> NoConfig]
  BY <1>7, <1>10
<1>. QED  BY <1>1, <1>2, <1>6, <1>9, <1>11, <1>12 DEF ConfigInv

LEMMA BuildEngineKept ==
  ASSUME ConfigInv, BuildEngine
  PROVE  ConfigInv' /\ server'.buffer = server.buffer
<1>1. PICK env \in Envs : config = ConfigFromEnv(env) /\ Validate(config)
  BY DEF BuildEngine, ConfigInv, Early
<1>2. /\ main = "engine" /\ config' = config /\ main' \in {"listen", "exited"}
  BY DEF BuildEngine, Goto, Exit
<1>3. \A f \in Positive : config[f] \in Int /\ config[f] >= 1
  BY <1>1, ConfigValues
<1>4. ConfigInForce
  BY DEF ConfigInv
<1>5. CASE UNCHANGED <<built, server>>
  BY <1>1, <1>2, <1>4, <1>5 DEF ConfigInv, ConfigInForce
<1>6. CASE /\ built' = [built EXCEPT !.engine = EngineConfig(config),
                                     !.bidder = BidderLimits(config)]
           /\ server' = [server EXCEPT !.engine = TRUE]
  <2>1. /\ built'.cache = built.cache /\ built'.auction = built.auction
        /\ built'.engine = EngineConfig(config) /\ built'.bidder = BidderLimits(config)
    BY <1>2, <1>6 DEF ConfigInv
  <2>2. /\ server'.buffer = server.buffer
        /\ DOMAIN server' = {"AdminToken", "buffer", "engine", "rejectStale"}
    BY <1>6 DEF ConfigInv
  <2>3. \A f \in Positive : \A default : OrDefault(config[f], default) = config[f]
    BY <1>3 DEF OrDefault
  <2>4. BidderLimits(config) = [Timeout |-> config.DSPTimeout,
                                MaxConcurrent |-> config.DSPMaxConcurrent,
                                Threshold |-> config.DSPFailureThreshold,
                                OpenFor |-> config.DSPCircuitOpenFor]
    BY <2>3 DEF BidderLimits, Positive
  <2>5. EngineConfig(config) = [MaxFanout |-> config.MaxFanout,
                                MaxConcurrentRefreshes |-> config.MaxConcurrentRefreshes,
                                MaxKeys |-> config.MaxKeys, CacheTTL |-> config.CacheTTL,
                                FailureTTL |-> config.FailureTTL]
    BY <2>3 DEF EngineConfig, Positive
  <2>6. \A f \in DOMAIN EngineConfig(config) :
          EngineConfig(config)[f] = config[f] /\ config[f] > 0
    BY <1>3, <2>5 DEF Positive
  <2>7. ConfigInForce'
    BY <1>2, <1>4, <2>1, <2>2, <2>4, <2>6 DEF ConfigInForce
  <2>. QED  BY <1>1, <1>2, <2>2, <2>7 DEF ConfigInv
<1>. QED  BY <1>5, <1>6 DEF BuildEngine

(* Other steps do not touch the configuration.                             *)
LEMMA ConfigUntouched ==
  ASSUME ConfigInv, server' = server,
         \/ main' = main /\ UNCHANGED <<config, built>>
         \/ main \in Early \ {"start"} /\ main' \in {"warm", "server"} /\ config' = config
         \/ main' \notin Early
  PROVE  ConfigInv'
BY DEF ConfigInv, ConfigInForce, Early

LEMMA StartupKeepsConfig ==
  ASSUME ConfigInv, Startup
  PROVE  ConfigInv'
<1>1. CASE ReadConfig
  BY <1>1, ReadConfigKept
<1>2. CASE Ping \/ Warm
  <2>1. server' = server /\ config' = config /\ main \in Early \ {"start"}
        /\ main' \in {"warm", "server", "exited"}
    BY <1>2 DEF Ping, Warm, Goto, Exit, Early
  <2>. QED  BY <2>1, ConfigUntouched DEF Early
<1>3. CASE BuildServer
  BY <1>3, BuildServerKept
<1>4. CASE BuildEngine
  BY <1>4, BuildEngineKept
<1>5. CASE Listen
  BY <1>5, ConfigUntouched DEF Listen, Goto, Early
<1>. QED  BY <1>1, <1>2, <1>3, <1>4, <1>5 DEF Startup

(* The decision log while main starts: there is nothing in it yet.         *)
LEMMA StartupKeepsLog ==
  ASSUME HandlersInv, MainInv, LogInv, ConfigInv, Startup
  PROVE  LogInv' /\ dropped' = dropped
<1>1. /\ job' = job /\ main \in Early /\ exitCode = -1
      /\ UNCHANGED <<queue, writing, written, closed, dropped>>
  BY DEF Startup, ReadConfig, Ping, Warm, BuildServer, BuildEngine, Listen, Early,
         handlerVars, loggerVars, NewDecisionLogger, MainInv
<1>2. exitCode' # 0
  <2>1. exitCode' = exitCode \/ exitCode' \in {1, 2}
    BY DEF Startup, ReadConfig, Ping, Warm, BuildServer, BuildEngine, Listen, Goto, Exit
  <2>. QED  BY <1>1, <2>1
<1>3. Sent = {} /\ Sent' = {}
  <2>1. \A h \in Handlers : job[h].log = "none"
    BY <1>1 DEF MainInv, HandlersInv, Shape
  <2>. QED  BY <1>1, <2>1 DEF Sent
<1>4. CASE BuildServer
  <2>1. server'.buffer \in Nat
    BY <1>4, BuildServerKept
  <2>2. runner' \in {"none", "running"} /\ server'.buffer = server'.buffer
    BY <1>4 DEF BuildServer, NewDecisionLogger
  <2>3. Queued \cup ({writing} \ {NoEntry}) \cup written = {}
    BY <1>3 DEF LogInv
  <2>4. writing = NoEntry /\ written = {} /\ Queued = {}
    BY <2>3
  <2>5. queue = <<>>
    <3>1. queue \in Seq(Handlers)
      BY DEF LogInv
    <3>2. queue # <<>> => 1 \in DOMAIN queue
      BY <3>1
    <3>. QED  BY <2>4, <3>2 DEF Queued
  <2>6. Queued' = Queued
    BY <1>1 DEF Queued
  <2>7. Len(queue') <= server'.buffer
    BY <1>1, <2>1, <2>5
  <2>. QED  BY <1>1, <1>2, <1>3, <2>1, <2>2, <2>4, <2>5, <2>6, <2>7 DEF LogInv
<1>5. CASE ReadConfig \/ Ping \/ Warm \/ BuildEngine \/ Listen
  <2>1. runner' = runner
    BY <1>5 DEF ReadConfig, Ping, Warm, BuildEngine, Listen, loggerVars
  <2>2. server'.buffer = server.buffer
    BY <1>5, BuildEngineKept DEF ReadConfig, Ping, Warm, Listen
  <2>. QED  BY <1>1, <1>2, <1>3, <2>1, <2>2, LogUntouched
<1>. QED  BY <1>1, <1>4, <1>5 DEF Startup

LEMMA ShutdownKeepsLog ==
  ASSUME HandlersInv, MainInv, LogInv, Shutdown
  PROVE  LogInv' /\ dropped' = dropped
<1>1. /\ job' = job /\ server' = server /\ main \notin Early /\ main' \notin Early
      /\ UNCHANGED <<queue, writing, written, runner, dropped>>
  BY DEF Shutdown, BeginShutdown, EndShutdown, CloseStore, CloseLog, Return, CloseQueue,
         handlerVars, loggerVars, Goto, Exit, Early
<1>2. Sent' = Sent
  BY <1>1 DEF Sent
<1>3. closed => closed'
  <2>1. CASE CloseLog
    <3>1. ~closed
      BY <2>1 DEF CloseLog, MainInv
    <3>. QED  BY <3>1
  <2>2. CASE BeginShutdown \/ EndShutdown \/ CloseStore \/ Return
    BY <2>2 DEF BeginShutdown, EndShutdown, CloseStore, Return, loggerVars
  <2>. QED  BY <2>1, <2>2 DEF Shutdown
<1>4. CASE exitCode' = exitCode
  BY <1>1, <1>2, <1>3, <1>4, LogUntouched
<1>5. CASE Return
  <2>1. runner # "running" /\ Queued' = Queued
    BY <1>1, <1>5 DEF Return, CloseReturns, Queued
  <2>. QED  BY <1>1, <1>2, <1>3, <2>1 DEF LogInv
<1>. QED  BY <1>4, <1>5 DEF Shutdown, BeginShutdown, EndShutdown, CloseStore, CloseLog, Goto

LEMMA SignalsKeepLog ==
  ASSUME LogInv, Signal \/ Accept \/ ListenFails
  PROVE  LogInv' /\ dropped' = dropped
<1>1. /\ job' = job /\ server' = server /\ main' = main /\ exitCode' = exitCode
      /\ UNCHANGED <<queue, writing, written, runner, closed, dropped>>
  BY DEF Signal, Accept, ListenFails, handlerVars, loggerVars
<1>2. Sent' = Sent
  BY <1>1 DEF Sent
<1>. QED  BY <1>1, <1>2, LogUntouched

-----------------------------------------------------------------------------
(* The invariant holds at first and is kept by every step.                 *)

LEMMA InitInv ==
  ASSUME Init
  PROVE  ServerInv
<1>1. IdleJob \in Jobs
  <2>1. NoOutcome \in Outcomes
    BY DEF NoOutcome, Outcomes, Reasons
  <2>2. [selection |-> 0, handler |-> 0] \in Timings
    BY DEF Timings
  <2>. QED  BY <2>1, <2>2 DEF IdleJob, Jobs, Places
<1>2. /\ IdleJob.at = "waiting" /\ IdleJob.answer = 0 /\ IdleJob.log = "none"
      /\ IdleJob.decision = NoOutcome /\ IdleJob.seen = <<>>
  BY DEF IdleJob
<1>3. /\ job \in [Handlers -> Jobs] /\ \A h \in Handlers : job[h] = IdleJob
      /\ req \in [Handlers -> Requests]
  BY <1>1, ServerAssumption DEF Init
<1>4. HandlersInv
  <2>1. \A h \in Handlers : Shape(req[h], IdleJob)
    <3>1. Len(IdleJob.seen) = 0 /\ Len(Loads) \in Nat /\ Len(Loads) > 0
      BY <1>2, LoadsTypes
    <3>. QED
      BY <1>2, <1>3, <3>1 DEF Shape, AuctionShape, MutationShape, ReadyShape, MetricsShape, Deciding
  <2>. QED  BY <1>3, <2>1 DEF HandlersInv
<1>5. MainInv
  BY <1>2, <1>3 DEF Init, LoggerInit, MainInv, Early, Late
<1>6. LogInv
  <2>1. Sent = {}
    BY <1>2, <1>3 DEF Sent
  <2>2. /\ queue = <<>> /\ written = {} /\ writing = NoEntry /\ runner = "none"
        /\ server.buffer = 0 /\ exitCode = -1 /\ main = "start"
    BY DEF Init, LoggerInit, NoServer
  <2>3. Queued = {} /\ queue \in Seq(Handlers) /\ Len(queue) = 0 /\ DOMAIN queue = {}
    BY <2>2 DEF Queued
  <2>4. Cardinality(Sent) = 0 /\ Cardinality(written) = 0
        /\ Cardinality({writing} \ {NoEntry}) = 0
    BY <2>1, <2>2, FS_EmptySet, OneOrNone
  <2>. QED  BY <2>1, <2>2, <2>3, <2>4 DEF LogInv
<1>7. CountInv
  <2>1. /\ metric = [c \in Counters |-> 0] /\ dropped = 0
    BY DEF Init, MetricsInit, LoggerInit
  <2>2. \A c \in Counters : {h \in Handlers : c \in Counted(req[h], job[h])} = {}
    BY <1>2, <1>3, CountersAre DEF Counted, After, Deciding
  <2>3. {h \in Handlers : job[h].log = "dropped"} = {}
    BY <1>2, <1>3
  <2>. QED  BY <2>1, <2>2, <2>3, FS_EmptySet DEF CountInv
<1>8. HistogramInv
  <2>1. histogram = [d \in Latencies |-> [i \in Buckets |-> 0]]
    BY DEF Init, MetricsInit
  <2>2. \A d \in Latencies : \A i \in Buckets :
          {h \in Observed(d) : InBucket(i, job[h].timing[d])} = {}
    BY <1>2, <1>3 DEF Observed, Observes
  <2>. QED  BY <2>1, <2>2, FS_EmptySet DEF HistogramInv
<1>9. ConfigInv
  BY DEF Init, ConfigInv, ConfigInForce, NoServer, Early
<1>. QED  BY <1>4, <1>5, <1>6, <1>7, <1>8, <1>9 DEF ServerInv

LEMMA NextInv ==
  ASSUME ServerInv, [Next]_vars
  PROVE  ServerInv'
<1>. USE DEF ServerInv
<1>1. CASE Startup
  <2>1. UNCHANGED handlerVars
    BY <1>1 DEF Startup, ReadConfig, Ping, Warm, BuildServer, BuildEngine, Listen
  <2>. QED  BY <1>1, <2>1, HandlersIdle, StartupKeepsOrder, StartupKeepsLog, StartupKeepsConfig
<1>2. CASE Shutdown
  <2>1. UNCHANGED handlerVars
    BY <1>2 DEF Shutdown, BeginShutdown, EndShutdown, CloseStore, CloseLog, Return
  <2>2. server' = server /\ main' \notin Early
    BY <1>2 DEF Shutdown, BeginShutdown, EndShutdown, CloseStore, CloseLog, Return, Goto, Exit, Early
  <2>. QED  BY <1>2, <2>1, <2>2, HandlersIdle, ShutdownKeepsOrder, ShutdownKeepsLog, ConfigUntouched
<1>3. CASE Signal \/ Accept \/ ListenFails
  <2>1. UNCHANGED handlerVars /\ server' = server /\ main' = main /\ UNCHANGED <<config, built>>
    BY <1>3 DEF Signal, Accept, ListenFails
  <2>. QED  BY <1>3, <2>1, HandlersIdle, SignalsKeepOrder, SignalsKeepLog, ConfigUntouched
<1>4. CASE LogStep
  <2>1. /\ UNCHANGED handlerVars /\ server' = server /\ main' = main /\ UNCHANGED <<config, built>>
        /\ dropped' = dropped
    BY <1>4 DEF LogStep, mainVars, Run, Receive, Write, RunEnds
  <2>. QED  BY <1>4, <2>1, HandlersIdle, SignalsKeepOrder, RunKeepsLog, ConfigUntouched
<1>5. ASSUME NEW h \in Handlers, Arrive(h) \/ HandlerStep(h) \/ StoreReply(h) \/ PingReply(h)
      PROVE  ServerInv'
  <2>1. PICK x : HandlerEffect(h, x)
    BY <1>5, HandlerEffects DEF CountInv, HistogramInv
  <2>2. server' = server /\ main' = main /\ UNCHANGED <<config, built>>
    BY <2>1 DEF HandlerEffect, mainVars
  <2>. QED
    BY <2>1, <2>2, HandlersKept, MainKept, LogKept, CountKept, HistogramKept, ConfigUntouched
<1>6. CASE UNCHANGED vars
  <2>1. /\ UNCHANGED handlerVars /\ UNCHANGED mainVars /\ UNCHANGED loggerVars
    BY <1>6 DEF vars
  <2>2. /\ server' = server /\ main' = main /\ UNCHANGED <<config, built>> /\ exitCode' = exitCode
        /\ UNCHANGED <<queue, writing, written, runner, closed, dropped>> /\ job' = job
    BY <2>1 DEF handlerVars, mainVars, loggerVars
  <2>3. MainInv'
    BY <2>1, <2>2 DEF MainInv, mainVars
  <2>4. LogInv'
    <3>1. Sent' = Sent
      BY <2>2 DEF Sent
    <3>. QED  BY <2>2, <3>1, LogUntouched
  <2>. QED  BY <2>1, <2>2, <2>3, <2>4, HandlersIdle, ConfigUntouched
<1>. QED  BY <1>1, <1>2, <1>3, <1>4, <1>5, <1>6 DEF Next

-----------------------------------------------------------------------------
(***************************************************************************)
(* The inductive invariant holds throughout: the handlers are where their  *)
(* requests allow, startup and shutdown are in order, every entry of the   *)
(* decision log is in one place, and every counter is the number of        *)
(* handlers that have reached it.                                          *)
(***************************************************************************)
THEOREM ServerSafety == Spec => []ServerInv
<1>1. Init => ServerInv
  BY InitInv
<1>2. ServerInv /\ [Next]_vars => ServerInv'
  BY NextInv
<1>. QED  BY <1>1, <1>2, PTL DEF Spec

(* No counter and no bucket exceeds the number of requests, the decision   *)
(* log never holds more than its buffer, and a scrape never loads more     *)
(* values than Metrics.Handler prints.                                     *)
THEOREM ServerTypeOK == Spec => []TypeOK
<1>1. ServerInv => TypeOK
  <2>. SUFFICES ASSUME ServerInv  PROVE TypeOK
    OBVIOUS
  <2>. USE DEF ServerInv
  <2>1. \A A \in SUBSET Handlers : Cardinality(A) \in 0..Cardinality(Handlers)
    <3>. SUFFICES ASSUME NEW A \in SUBSET Handlers
                  PROVE  Cardinality(A) \in 0..Cardinality(Handlers)
      OBVIOUS
    <3>1. IsFiniteSet(Handlers)
      BY ServerAssumption
    <3>2. IsFiniteSet(A) /\ Cardinality(A) <= Cardinality(Handlers)
      BY <3>1, FS_Subset
    <3>. QED  BY <3>1, <3>2, FS_CardinalityType
  <2>2. metric \in [Counters -> 0..Cardinality(Handlers)]
    <3>1. ASSUME NEW c \in Counters  PROVE metric[c] \in 0..Cardinality(Handlers)
      <4>1. {h \in Handlers : c \in Counted(req[h], job[h])} \in SUBSET Handlers
        OBVIOUS
      <4>. QED  BY <2>1, <4>1 DEF CountInv
    <3>. QED  BY <3>1 DEF CountInv
  <2>3. histogram \in [Latencies -> [Buckets -> 0..Cardinality(Handlers)]]
    <3>1. ASSUME NEW d \in Latencies, NEW i \in Buckets
          PROVE  histogram[d][i] \in 0..Cardinality(Handlers)
      <4>1. {h \in Observed(d) : InBucket(i, job[h].timing[d])} \in SUBSET Handlers
        BY DEF Observed
      <4>. QED  BY <2>1, <4>1 DEF HistogramInv
    <3>2. ASSUME NEW d \in Latencies
          PROVE  histogram[d] \in [Buckets -> 0..Cardinality(Handlers)]
      <4>1. histogram[d] \in [Buckets -> Nat]
        BY DEF HistogramInv
      <4>. QED  BY <3>1, <4>1
    <3>. QED  BY <3>2 DEF HistogramInv
  <2>4. \A h \in Handlers : Len(job[h].seen) <= Len(Loads)
    BY DEF HandlersInv, Shape
  <2>5. Len(queue) <= server.buffer /\ runner \in {"none", "running", "done"}
    BY DEF LogInv
  <2>. QED  BY <2>2, <2>3, <2>4, <2>5 DEF TypeOK, MainInv, Early, Late
<1>. QED  BY <1>1, ServerSafety, PTL

(* Neither the registry client nor the decision log is closed under a      *)
(* running handler, and Record does not panic, unless Shutdown ran out of  *)
(* time: for any number of requests and any timing of signals.             *)
THEOREM ShutdownIsGraceful == Spec => []GraceRespected
<1>1. ServerInv => GraceRespected
  <2>. SUFFICES ASSUME MainInv, store = "closed" \/ closed, Active # {}  PROVE gaveUp
    BY DEF GraceRespected, ServerInv, MainInv
  <2>1. main \in Late \/ main = "exited"
    BY DEF MainInv, Late
  <2>2. ~\A h \in Handlers : job[h].at \in {"waiting", "done"}
    BY DEF Active
  <2>3. main \in Late \/ exitCode = 0
    BY <2>1, <2>2 DEF MainInv
  <2>. QED  BY <2>2, <2>3 DEF MainInv
<1>. QED  BY <1>1, ServerSafety, PTL

(* Every entry that Record accepted is in the queue, being written or      *)
(* written, exactly once, and is written when main returns.                *)
THEOREM AcceptedEntriesAreLogged == Spec => []AcceptedIsLogged
<1>1. ServerInv => AcceptedIsLogged
  <2>. SUFFICES ASSUME LogInv, exitCode = 0  PROVE Sent = written
    BY DEF AcceptedIsLogged, ServerInv, LogInv
  <2>1. queue = <<>> /\ writing = NoEntry
    BY DEF LogInv
  <2>2. Queued = {}
    BY <2>1 DEF Queued
  <2>. QED  BY <2>1, <2>2 DEF LogInv
<1>. QED  BY <1>1, ServerSafety, PTL

(* When no handler runs, every counter is the number of requests that are  *)
(* due in it, and the metric of dropped entries agrees with the log.       *)
THEOREM RequestsAreCounted == Spec => []EveryRequestCounted
<1>1. ServerInv => EveryRequestCounted
  <2>. SUFFICES ASSUME HandlersInv, CountInv, Active = {}
                PROVE  /\ \A c \in Counters :
                            metric[c] = Cardinality({h \in Finished : c \in Due(req[h], job[h])})
                       /\ metric["decisionLogDropped"] = dropped
    BY DEF EveryRequestCounted, ServerInv
  <2>1. \A h \in Handlers : job[h].at \in {"waiting", "done"}
    BY DEF Active
  <2>2. ASSUME NEW c \in Counters
        PROVE  {h \in Handlers : c \in Counted(req[h], job[h])}
                 = {h \in Finished : c \in Due(req[h], job[h])}
    <3>1. "done" \in After(c) /\ "waiting" \notin After(c)
      BY DEF After, Deciding
    <3>2. \A h \in Handlers : c \in Counted(req[h], job[h])
                                <=> job[h].at = "done" /\ c \in Due(req[h], job[h])
      BY <2>1, <3>1 DEF Counted
    <3>. QED  BY <3>2 DEF Finished
  <2>3. {h \in Handlers : "decisionLogDropped" \in Counted(req[h], job[h])}
          = {h \in Handlers : job[h].log = "dropped"}
    <3>1. \A h \in Handlers : "decisionLogDropped" \in Due(req[h], job[h])
                                <=> job[h].log = "dropped"
      BY CountersAre DEF Due
    <3>2. \A h \in Handlers : job[h].log = "dropped" => job[h].at = "done"
      BY <2>1 DEF HandlersInv, Shape
    <3>3. "done" \in After("decisionLogDropped")
      BY DEF After
    <3>4. \A h \in Handlers : "decisionLogDropped" \in Counted(req[h], job[h])
                                <=> job[h].log = "dropped"
      BY <3>1, <3>2, <3>3 DEF Counted
    <3>. QED  BY <3>4
  <2>4. "decisionLogDropped" \in Counters
    BY CountersAre
  <2>5. metric["decisionLogDropped"] = dropped
    BY <2>3, <2>4 DEF CountInv
  <2>. QED  BY <2>2, <2>5 DEF CountInv
<1>. QED  BY <1>1, ServerSafety, PTL

(* No constructor replaces a value of a validated configuration, whatever  *)
(* the environment was.                                                    *)
THEOREM ConfigurationIsInForce == Spec => []ConfigInForce
<1>1. ServerInv => ConfigInForce
  BY DEF ServerInv, ConfigInv
<1>. QED  BY <1>1, ServerSafety, PTL
=============================================================================
