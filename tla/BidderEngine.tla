---------------------------- MODULE BidderEngine ----------------------------
(***************************************************************************)
(* Background refreshes of DSP bids (BidderEngine and DynamicBidCache of   *)
(* internal/ads/dynamic_bidding.go).                                       *)
(*                                                                         *)
(* An auction calls Trigger: unless its cache key is fresh or a refresh of *)
(* the key is under way, it takes a refresh slot and starts a goroutine.   *)
(* The refresh offers the request to the bidders in order, one goroutine   *)
(* per call, under a limit per bidder, a circuit breaker per bidder and a  *)
(* limit per refresh, waits for all of them, and puts the bids it got into *)
(* a cache with a bounded number of keys.                                  *)
(*                                                                         *)
(* Clocks are abstracted: an entry may expire and an open circuit may      *)
(* elapse at any moment.                                                   *)
(***************************************************************************)
EXTENDS CircuitBreaker, FiniteSets, Sequences

CONSTANTS
  CacheKeys,      \* cache keys: placement, country, device and floor
  PlacementOf,    \* PlacementOf[k]: the placement of the key
  Bidders,        \* the configured bidders, in order
  Answers,        \* lists of bids a bidder may answer with, as sets
  Auctions,       \* auction handlers that call Trigger
  MaxFanout,      \* calls of one refresh
  MaxConcurrent,  \* concurrent calls of one bidder
  MaxRefreshes,   \* concurrent refreshes
  MaxKeys,        \* keys in the cache
  Missing         \* no entry in the cache

(* A bid as a DSP sends it: its placement, a priority, a valid rest or not.*)
RawBids == [placement : {PlacementOf[k] : k \in CacheKeys}, priority : Nat,
            valid : BOOLEAN]

BidderIDs == {Bidders[i] : i \in DOMAIN Bidders}
DynamicBids == [bidder : BidderIDs, placement : {PlacementOf[k] : k \in CacheKeys},
                priority : Nat]
CacheEntries == [bids : SUBSET DynamicBids, fresh : BOOLEAN]

ASSUME EngineAssumption ==
  /\ Bidders \in Seq(BidderIDs)
  /\ Len(Bidders) > 0
  /\ \A i, j \in DOMAIN Bidders : Bidders[i] = Bidders[j] => i = j
  /\ Answers \subseteq SUBSET RawBids
  /\ {MaxFanout, MaxConcurrent, MaxRefreshes, MaxKeys} \subseteq Nat \ {0}
  /\ Missing \notin CacheEntries

VARIABLES
  caller,        \* caller[a]: where auction a is inside Trigger
  inflight,      \* keys that are marked as being refreshed
  refreshSlots,  \* occupied refresh slots
  job,           \* job[k]: the goroutine that refreshes key k
  call,          \* call[k][b]: its call of bidder b
  ending,        \* goroutines that still have to give their slot back
  sem,           \* sem[b]: occupied places of bidder b
  breaker,       \* breaker[b]: the circuit breaker of bidder b
  entries,       \* entries[k]: the cached bids of key k
  count,         \* the number of entries the cache believes to have
  done           \* the context of the engine has ended

triggerVars == <<caller, inflight, refreshSlots>>
cacheVars == <<entries, count>>
vars == <<caller, inflight, refreshSlots, job, call, ending, sem, breaker,
          entries, count, done>>

-----------------------------------------------------------------------------
NoCall == [at |-> "none", ok |-> FALSE, bids |-> {}]
NoJob == [at |-> "idle", next |-> 1]

(* Slip: bids for other placements are kept.                               *)
SanitizeAnyPlacement(k, b, bids) ==
  {[bidder |-> b, placement |-> raw.placement, priority |-> 0] :
     raw \in {r \in bids : r.valid}}

(* sanitizeDynamicBids: the priority is cleared before validation.         *)
Sanitize(k, b, bids) ==
  {[bidder |-> b, placement |-> raw.placement, priority |-> 0] :
     raw \in {r \in bids : r.placement = PlacementOf[k] /\ r.valid}}

Fresh(k) == entries[k] # Missing /\ entries[k].fresh

Init ==
  /\ caller = [a \in Auctions |-> [at |-> "idle"]]
  /\ inflight = {}
  /\ refreshSlots = 0
  /\ job = [k \in CacheKeys |-> NoJob]
  /\ call = [k \in CacheKeys |-> [b \in BidderIDs |-> NoCall]]
  /\ ending = 0
  /\ sem = [b \in BidderIDs |-> 0]
  /\ breaker = [b \in BidderIDs |-> NewCircuitBreaker]
  /\ entries = [k \in CacheKeys |-> Missing]
  /\ count = 0
  /\ done = FALSE

-----------------------------------------------------------------------------
(* Trigger                                                                 *)

(* Slip: the context is not consulted.                                     *)
CheckAlways(a, k) ==
  /\ caller[a].at = "idle"
  /\ ~Fresh(k)
  /\ caller' = [caller EXCEPT ![a] = [at |-> "checked", key |-> k]]
  /\ UNCHANGED <<inflight, refreshSlots, job, call, ending, sem, breaker,
                 cacheVars, done>>

(* The context has not ended and Get finds no fresh entry.                 *)
Check(a, k) ==
  /\ caller[a].at = "idle"
  /\ ~done
  /\ ~Fresh(k)
  /\ caller' = [caller EXCEPT ![a] = [at |-> "checked", key |-> k]]
  /\ UNCHANGED <<inflight, refreshSlots, job, call, ending, sem, breaker,
                 cacheVars, done>>

(* LoadOrStore on inflight.                                                *)
Mark(a) ==
  /\ caller[a].at = "checked"
  /\ IF caller[a].key \in inflight
       THEN /\ caller' = [caller EXCEPT ![a] = [at |-> "idle"]]
            /\ UNCHANGED inflight
       ELSE /\ caller' = [caller EXCEPT ![a].at = "marked"]
            /\ inflight' = inflight \cup {caller[a].key}
  /\ UNCHANGED <<refreshSlots, job, call, ending, sem, breaker, cacheVars, done>>

(* Slip: without a free slot the mark stays.                               *)
TakeKeepsMark(a) ==
  /\ caller[a].at = "marked"
  /\ caller' = [caller EXCEPT ![a] = [at |-> "idle"]]
  /\ IF refreshSlots < MaxRefreshes
       THEN /\ refreshSlots' = refreshSlots + 1
            /\ job' = [job EXCEPT ![caller[a].key] = [at |-> "scan", next |-> 1]]
       ELSE UNCHANGED <<refreshSlots, job>>
  /\ UNCHANGED <<inflight, call, ending, sem, breaker, cacheVars, done>>

(* Slip: the goroutine starts although no slot was free.                   *)
TakeIgnoresLimit(a) ==
  /\ caller[a].at = "marked"
  /\ caller' = [caller EXCEPT ![a] = [at |-> "idle"]]
  /\ refreshSlots' = IF refreshSlots < MaxRefreshes THEN refreshSlots + 1 ELSE refreshSlots
  /\ job' = [job EXCEPT ![caller[a].key] = [at |-> "scan", next |-> 1]]
  /\ UNCHANGED <<inflight, call, ending, sem, breaker, cacheVars, done>>

(* A free slot starts the goroutine, otherwise the mark is given back.     *)
Take(a) ==
  LET k == caller[a].key IN
  /\ caller[a].at = "marked"
  /\ caller' = [caller EXCEPT ![a] = [at |-> "idle"]]
  /\ IF refreshSlots < MaxRefreshes
       THEN /\ refreshSlots' = refreshSlots + 1
            /\ job' = [job EXCEPT ![k] = [at |-> "scan", next |-> 1]]
            /\ UNCHANGED inflight
       ELSE /\ inflight' = inflight \ {k}
            /\ UNCHANGED <<refreshSlots, job>>
  /\ UNCHANGED <<call, ending, sem, breaker, cacheVars, done>>

-----------------------------------------------------------------------------
(* refresh: the loop over the bidders                                      *)

Called(k) == {b \in BidderIDs : call[k][b].at # "none"}
Started(k) == Cardinality(Called(k))

Scanning(k) ==
  /\ job[k].at = "scan"
  /\ job[k].next <= Len(Bidders)
  /\ Started(k) # MaxFanout

(* Slip: the breaker is asked before the place of the bidder is taken.     *)
AcquireAfterAllow(k) ==
  LET b == Bidders[job[k].next]
      allowed == Allows(breaker[b])
      free == sem[b] < MaxConcurrent
  IN
  /\ Scanning(k)
  /\ breaker' = [breaker EXCEPT ![b] = IF allowed THEN Allow(@) ELSE @]
  /\ job' = [job EXCEPT ![k].next = @ + 1]
  /\ IF allowed /\ free
       THEN /\ sem' = [sem EXCEPT ![b] = @ + 1]
            /\ call' = [call EXCEPT ![k][b].at = "call"]
       ELSE UNCHANGED <<sem, call>>
  /\ UNCHANGED <<triggerVars, ending, cacheVars, done>>

(* Slip: one place too many.                                               *)
AcquireOneMore(k) ==
  LET b == Bidders[job[k].next] IN
  /\ Scanning(k)
  /\ IF sem[b] <= MaxConcurrent
       THEN /\ sem' = [sem EXCEPT ![b] = @ + 1]
            /\ job' = [job EXCEPT ![k].at = "held"]
       ELSE /\ job' = [job EXCEPT ![k].next = @ + 1]
            /\ UNCHANGED sem
  /\ UNCHANGED <<triggerVars, call, ending, breaker, cacheVars, done>>

(* A place of the next bidder, or the bidder is skipped.                   *)
Acquire(k) ==
  LET b == Bidders[job[k].next] IN
  /\ Scanning(k)
  /\ IF sem[b] < MaxConcurrent
       THEN /\ sem' = [sem EXCEPT ![b] = @ + 1]
            /\ job' = [job EXCEPT ![k].at = "held"]
       ELSE /\ job' = [job EXCEPT ![k].next = @ + 1]
            /\ UNCHANGED sem
  /\ UNCHANGED <<triggerVars, call, ending, breaker, cacheVars, done>>

(* Slip: the place is not given back when the circuit is open.             *)
AdmitKeepsPlace(k) ==
  LET b == Bidders[job[k].next] IN
  /\ job[k].at = "held"
  /\ job' = [job EXCEPT ![k] = [at |-> "scan", next |-> job[k].next + 1]]
  /\ IF Allows(breaker[b])
       THEN /\ breaker' = [breaker EXCEPT ![b] = Allow(@)]
            /\ call' = [call EXCEPT ![k][b].at = "call"]
       ELSE UNCHANGED <<breaker, call>>
  /\ UNCHANGED <<triggerVars, ending, sem, cacheVars, done>>

(* The breaker admits the call, or the place is given back.                *)
Admit(k) ==
  LET b == Bidders[job[k].next] IN
  /\ job[k].at = "held"
  /\ job' = [job EXCEPT ![k] = [at |-> "scan", next |-> job[k].next + 1]]
  /\ IF Allows(breaker[b])
       THEN /\ breaker' = [breaker EXCEPT ![b] = Allow(@)]
            /\ call' = [call EXCEPT ![k][b].at = "call"]
            /\ UNCHANGED sem
       ELSE /\ sem' = [sem EXCEPT ![b] = @ - 1]
            /\ UNCHANGED <<breaker, call>>
  /\ UNCHANGED <<triggerVars, ending, cacheVars, done>>

-----------------------------------------------------------------------------
(* The goroutine of one call                                               *)

(* The adapter returns bids or an error, by its deadline at the latest.    *)
Return(k, b) ==
  /\ call[k][b].at = "call"
  /\ \/ \E answer \in Answers :
          call' = [call EXCEPT ![k][b] =
                     [at |-> "report", ok |-> TRUE, bids |-> Sanitize(k, b, answer)]]
     \/ call' = [call EXCEPT ![k][b].at = "report"]
  /\ UNCHANGED <<triggerVars, job, ending, sem, breaker, cacheVars, done>>

(* The breaker learns the outcome, the result goes to the channel.         *)
Report(k, b) ==
  /\ call[k][b].at = "report"
  /\ breaker' = [breaker EXCEPT ![b] = IF call[k][b].ok THEN Success(@) ELSE Failure(@)]
  /\ call' = [call EXCEPT ![k][b].at = "leave"]
  /\ UNCHANGED <<triggerVars, job, ending, sem, cacheVars, done>>

(* The deferred calls: the place is given back, the worker is done.        *)
Leave(k, b) ==
  /\ call[k][b].at = "leave"
  /\ sem' = [sem EXCEPT ![b] = @ - 1]
  /\ call' = [call EXCEPT ![k][b].at = "done"]
  /\ UNCHANGED <<triggerVars, job, ending, breaker, cacheVars, done>>

-----------------------------------------------------------------------------
(* DynamicBidCache.Put and the end of a refresh                            *)

Stored == {k \in CacheKeys : entries[k] # Missing}
Expired == {k \in Stored : ~entries[k].fresh}

(* Slip: room is made by dropping any entries.                             *)
PurgeAny == {V \in SUBSET Stored : Cardinality(V) = count - MaxKeys + 1}

(* What the sweep over a full cache may delete: expired entries, in any    *)
(* order, until there is room.                                             *)
Purge ==
  LET room == count - MaxKeys + 1
      enough == IF Cardinality(Expired) < room THEN Cardinality(Expired) ELSE room
  IN  {V \in SUBSET Expired : Cardinality(V) = enough}

Without(V) == [k \in CacheKeys |-> IF k \in V THEN Missing ELSE entries[k]]

(* Slip: the sweep forgets to count down.                                  *)
PutMiscounts(k, entry) ==
  IF k \in Stored
    THEN /\ entries' = [entries EXCEPT ![k] = entry]
         /\ UNCHANGED count
    ELSE \E V \in (IF count >= MaxKeys THEN Purge ELSE {{}}) :
           IF count - Cardinality(V) >= MaxKeys
             THEN entries' = Without(V) /\ count' = count
             ELSE entries' = [Without(V) EXCEPT ![k] = entry] /\ count' = count + 1

Put(k, entry) ==
  IF k \in Stored
    THEN /\ entries' = [entries EXCEPT ![k] = entry]
         /\ UNCHANGED count
    ELSE \E V \in (IF count >= MaxKeys THEN Purge ELSE {{}}) :
           LET left == count - Cardinality(V) IN
           IF left >= MaxKeys
             THEN entries' = Without(V) /\ count' = left
             ELSE entries' = [Without(V) EXCEPT ![k] = entry] /\ count' = left + 1

(* All workers are done; what they got is cached, also if it is nothing.   *)
(* Its time to live depends on success, but entries expire at any moment.  *)
Finish(k) ==
  /\ job[k].at = "scan" /\ ~Scanning(k)
  /\ \A b \in BidderIDs : call[k][b].at \in {"none", "done"}
  /\ Put(k, [bids |-> UNION {call[k][b].bids : b \in BidderIDs},
             fresh |-> TRUE])
  /\ job' = [job EXCEPT ![k].at = "unmark"]
  /\ call' = [call EXCEPT ![k] = [b \in BidderIDs |-> NoCall]]
  /\ UNCHANGED <<triggerVars, ending, sem, breaker, done>>

(* The deferred calls of the goroutine, in their order.                    *)
Unmark(k) ==
  /\ job[k].at = "unmark"
  /\ inflight' = inflight \ {k}
  /\ job' = [job EXCEPT ![k] = NoJob]
  /\ ending' = ending + 1
  /\ UNCHANGED <<caller, refreshSlots, call, sem, breaker, cacheVars, done>>

FreeSlot ==
  /\ ending > 0
  /\ ending' = ending - 1
  /\ refreshSlots' = refreshSlots - 1
  /\ UNCHANGED <<caller, inflight, job, call, sem, breaker, cacheVars, done>>

-----------------------------------------------------------------------------
(* Time passes, and the process shuts down.                                *)

Expire(k) ==
  /\ Fresh(k)
  /\ entries' = [entries EXCEPT ![k].fresh = FALSE]
  /\ UNCHANGED <<triggerVars, job, call, ending, sem, breaker, count, done>>

Elapse(b) ==
  /\ breaker[b].gate = "open"
  /\ breaker' = [breaker EXCEPT ![b].gate = "elapsed"]
  /\ UNCHANGED <<triggerVars, job, call, ending, sem, cacheVars, done>>

Cancel ==
  /\ ~done
  /\ done' = TRUE
  /\ UNCHANGED <<triggerVars, job, call, ending, sem, breaker, cacheVars>>

-----------------------------------------------------------------------------
JobStep(k) == Acquire(k) \/ Admit(k) \/ Finish(k) \/ Unmark(k)
CallStep(k, b) == Return(k, b) \/ Report(k, b) \/ Leave(k, b)

Next ==
  \/ \E a \in Auctions : Mark(a) \/ Take(a) \/ \E k \in CacheKeys : Check(a, k)
  \/ \E k \in CacheKeys : JobStep(k) \/ Expire(k) \/ \E b \in BidderIDs : CallStep(k, b)
  \/ \E b \in BidderIDs : Elapse(b)
  \/ FreeSlot \/ Cancel

Spec == Init /\ [][Next]_vars

(***************************************************************************)
(* Goroutines run, calls end by their deadline and time passes.            *)
(***************************************************************************)
Fairness ==
  /\ \A a \in Auctions : WF_vars(Mark(a) \/ Take(a))
  /\ \A k \in CacheKeys :
       /\ WF_vars(JobStep(k)) /\ WF_vars(Expire(k))
       /\ \A b \in BidderIDs : WF_vars(CallStep(k, b))
  /\ \A b \in BidderIDs : WF_vars(Elapse(b))
  /\ WF_vars(FreeSlot)

FairSpec == Spec /\ Fairness

(***************************************************************************)
(* Auctions keep coming for every key that is not fresh.  Nothing in the   *)
(* code makes them come: only CircuitRetried assumes it.                   *)
(***************************************************************************)
Traffic == \A k \in CacheKeys : SF_vars(\E a \in Auctions : Check(a, k))

-----------------------------------------------------------------------------
TypeOK ==
  /\ caller \in [Auctions -> [at : {"idle"}]
                               \cup [at : {"checked", "marked"}, key : CacheKeys]]
  /\ inflight \subseteq CacheKeys
  /\ refreshSlots \in 0..MaxRefreshes
  /\ job \in [CacheKeys -> [at : {"idle", "scan", "held", "unmark"},
                            next : 1..(Len(Bidders) + 1)]]
  /\ call \in [CacheKeys -> [BidderIDs ->
       [at : {"none", "call", "report", "leave", "done"}, ok : BOOLEAN,
        bids : SUBSET DynamicBids]]]
  /\ ending \in Nat
  /\ sem \in [BidderIDs -> 0..MaxConcurrent]
  /\ breaker \in [BidderIDs -> Breakers]
  /\ entries \in [CacheKeys -> CacheEntries \cup {Missing}]
  /\ count \in Nat
  /\ done \in BOOLEAN

(***************************************************************************)
(* A key is refreshed by one goroutine at a time: its inflight mark has    *)
(* exactly one owner, the auction that set it or the goroutine it started, *)
(* also when Trigger hands the mark over, finds no slot and gives it back, *)
(* or races with the end of the refresh before.                            *)
(***************************************************************************)
Owners(k) ==
  {a \in Auctions : caller[a].at = "marked" /\ caller[a].key = k}
    \cup (IF job[k].at = "idle" THEN {} ELSE {"job"})

SingleFlight ==
  \A k \in CacheKeys : Cardinality(Owners(k)) = IF k \in inflight THEN 1 ELSE 0

Busy == {k \in CacheKeys : job[k].at # "idle"}

(***************************************************************************)
(* No refresh slot leaks and none is counted twice, although a goroutine   *)
(* gives its mark back before its slot: MaxConcurrentRefreshes bounds the  *)
(* goroutines that exist.                                                  *)
(***************************************************************************)
SlotsAccounted ==
  /\ refreshSlots = Cardinality(Busy) + ending
  /\ refreshSlots <= MaxRefreshes

(* Key k occupies a place of bidder b.                                     *)
Occupies(k, b) ==
  \/ call[k][b].at \in {"call", "report", "leave"}
  \/ job[k].at = "held" /\ Bidders[job[k].next] = b
Occupants(b) == {k \in CacheKeys : Occupies(k, b)}

(***************************************************************************)
(* Every place of a bidder that is taken has a call behind it, and a       *)
(* refresh never makes more than MaxFanout calls: skipped bidders and open *)
(* circuits give their places back.                                        *)
(***************************************************************************)
CallsBounded ==
  /\ \A b \in BidderIDs : sem[b] = Cardinality(Occupants(b))
  /\ \A k \in CacheKeys : Started(k) <= MaxFanout

(***************************************************************************)
(* A circuit that waits for its probe has a call under way that will tell  *)
(* the outcome: a busy or skipped bidder does not latch the half-open      *)
(* state (TestBusyBidderDoesNotLatchHalfOpenCircuit, for all schedules).   *)
(***************************************************************************)
ProbeHeld ==
  \A b \in BidderIDs : breaker[b].probeInFlight =>
    \E k \in CacheKeys : call[k][b].at \in {"call", "report"}

(***************************************************************************)
(* The counter of the cache is the number of its keys, which never exceeds *)
(* MaxKeys, through replacements, sweeps and refused keys.                 *)
(***************************************************************************)
CacheBounded == count = Cardinality(Stored) /\ count <= MaxKeys

(***************************************************************************)
(* What auctions find under a key are bids for its placement in the open   *)
(* market, never the answer to another request.                            *)
(***************************************************************************)
CachedBidsBelong ==
  \A k \in Stored : \A bid \in entries[k].bids :
    bid.placement = PlacementOf[k] /\ bid.priority = 0

(***************************************************************************)
(* Put makes room for a key only at the expense of entries that expired: a *)
(* fresh result is never dropped for another key.                          *)
(***************************************************************************)
FreshNotEvicted ==
  [][\A k \in CacheKeys : Fresh(k) => entries'[k] # Missing]_vars

(***************************************************************************)
(* A fresh cache entry prevents another refresh (docs/architecture.md):    *)
(* when a goroutine starts, the entry of its key is not fresh.             *)
(***************************************************************************)
FreshPreventsRefresh ==
  [][\A k \in CacheKeys :
       job[k].at = "idle" /\ job'[k].at # "idle" => ~Fresh(k)]_vars

(***************************************************************************)
(* Every mark is given back, so that a later auction can refresh the key.  *)
(***************************************************************************)
MarksReturned == \A k \in CacheKeys : []<>(k \notin inflight)

Quiet == inflight = {} /\ refreshSlots = 0 /\ \A b \in BidderIDs : sem[b] = 0

(***************************************************************************)
(* After the shutdown signal the engine runs dry: refreshes that are under *)
(* way end, and no auction starts another one.                             *)
(***************************************************************************)
DrainsAfterCancel == done ~> []Quiet

(***************************************************************************)
(* While auctions keep coming, a circuit whose time has elapsed is tried   *)
(* again: its bidder is called and the circuit closes or opens anew.       *)
(***************************************************************************)
CircuitRetried ==
  Traffic =>
    \A b \in BidderIDs : breaker[b].gate = "elapsed" ~>
                           (breaker[b].gate # "elapsed" \/ done)
=============================================================================
