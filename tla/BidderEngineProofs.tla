------------------------- MODULE BidderEngineProofs -------------------------
(***************************************************************************)
(* The DSP engine keeps account of its marks, slots, places, probes and    *)
(* cache keys for any number of auctions, keys and bidders, and for any    *)
(* limits.  The set of cache keys need not be finite.                      *)
(***************************************************************************)
EXTENDS BidderEngine, FiniteSetTheorems, TLAPS

(* The mark of a key has one owner: the auction that set it, or the        *)
(* goroutine that was started.                                             *)
Marked(a, k) == caller[a].at = "marked" /\ caller[a].key = k

MarksOwned ==
  /\ \A a \in Auctions, k \in CacheKeys : Marked(a, k) =>
       /\ k \in inflight
       /\ job[k].at = "idle"
       /\ \A a2 \in Auctions : Marked(a2, k) => a2 = a
  /\ \A k \in CacheKeys : job[k].at # "idle" => k \in inflight
  /\ \A k \in inflight : job[k].at # "idle" \/ \E a \in Auctions : Marked(a, k)

SlotsInv == IsFiniteSet(Busy) /\ SlotsAccounted

(* Bidders that the loop has not come to have not been called; outside the *)
(* loop there are no calls.                                                *)
CallsInOrder ==
  \A k \in CacheKeys :
    /\ job[k].at \in {"idle", "unmark"} =>
         \A b \in BidderIDs : call[k][b].at = "none"
    /\ \A i \in DOMAIN Bidders : i >= job[k].next => call[k][Bidders[i]].at = "none"
    /\ job[k].at = "held" => job[k].next \in DOMAIN Bidders

PlacesInv ==
  \A b \in BidderIDs : IsFiniteSet(Occupants(b)) /\ sem[b] = Cardinality(Occupants(b))

FanoutInv ==
  \A k \in CacheKeys :
    /\ Started(k) <= MaxFanout
    /\ job[k].at = "held" => Started(k) < MaxFanout

StoredInv == IsFiniteSet(Stored) /\ CacheBounded

(* What calls have brought belongs to their key, and so does what is       *)
(* cached.                                                                 *)
Belongs(bids, k) == \A bid \in bids : bid.placement = PlacementOf[k] /\ bid.priority = 0
AnswersBelong == \A k \in CacheKeys, b \in BidderIDs : Belongs(call[k][b].bids, k)

EngineInv ==
  /\ TypeOK
  /\ MarksOwned
  /\ SlotsInv
  /\ CallsInOrder
  /\ PlacesInv
  /\ FanoutInv
  /\ ProbeHeld
  /\ StoredInv
  /\ AnswersBelong
  /\ CachedBidsBelong

-----------------------------------------------------------------------------
LEMMA Limits ==
  /\ MaxFanout \in Nat /\ MaxConcurrent \in Nat /\ MaxRefreshes \in Nat /\ MaxKeys \in Nat
  /\ MaxFanout > 0 /\ MaxConcurrent > 0 /\ MaxRefreshes > 0 /\ MaxKeys > 0
  /\ Threshold \in Nat /\ Threshold > 0
  /\ Len(Bidders) \in Nat /\ DOMAIN Bidders = 1..Len(Bidders)
  /\ \A i \in DOMAIN Bidders : Bidders[i] \in BidderIDs
BY EngineAssumption, ThresholdAssumption DEF BidderIDs

LEMMA BiddersFinite == IsFiniteSet(BidderIDs)
<1>. DEFINE f == [i \in 1..Len(Bidders) |-> Bidders[i]]
<1>1. IsFiniteSet(1..Len(Bidders))
  BY FS_Interval, Limits
<1>2. f \in Surjection(1..Len(Bidders), BidderIDs)
  BY Limits DEF Surjection, BidderIDs
<1>. QED  BY <1>1, <1>2, FS_Surjection

(* The calls of a refresh are counted by a number.                         *)
LEMMA StartedType ==
  ASSUME NEW k \in CacheKeys
  PROVE  IsFiniteSet(Called(k)) /\ Started(k) \in Nat
<1>1. IsFiniteSet(Called(k))
  BY BiddersFinite, FS_Subset DEF Called
<1>. QED  BY <1>1, FS_CardinalityType DEF Started

(* The bidder that the loop of key k has come to.                          *)
LEMMA NextBidder ==
  ASSUME TypeOK, NEW k \in CacheKeys, job[k].next <= Len(Bidders)
  PROVE  /\ job[k].next \in DOMAIN Bidders
         /\ Bidders[job[k].next] \in BidderIDs
BY Limits DEF TypeOK

(* An auction inside Trigger has a key.                                    *)
LEMMA CallerType ==
  ASSUME TypeOK, NEW a \in Auctions
  PROVE  /\ caller[a].at \in {"idle", "checked", "marked"}
         /\ caller[a].at # "idle" =>
              /\ caller[a].key \in CacheKeys
              /\ [caller[a] EXCEPT !.at = "marked"] =
                   [at |-> "marked", key |-> caller[a].key]
BY DEF TypeOK

-----------------------------------------------------------------------------
LEMMA EngineInvInit == Init => EngineInv
<1>. SUFFICES ASSUME Init PROVE EngineInv
  OBVIOUS
<1>1. TypeOK
  <2>1. NewCircuitBreaker \in Breakers
    BY Limits DEF NewCircuitBreaker, Breakers
  <2>2. caller \in [Auctions -> [at : {"idle"}]
                                  \cup [at : {"checked", "marked"}, key : CacheKeys]]
    BY DEF Init
  <2>3. call \in [CacheKeys -> [BidderIDs ->
          [at : {"none", "call", "report", "leave", "done"}, ok : BOOLEAN,
           bids : SUBSET DynamicBids]]]
    BY DEF Init, NoCall
  <2>4. job \in [CacheKeys -> [at : {"idle", "scan", "held", "unmark"},
                               next : 1..(Len(Bidders) + 1)]]
    BY Limits DEF Init, NoJob
  <2>5. sem \in [BidderIDs -> 0..MaxConcurrent] /\ refreshSlots \in 0..MaxRefreshes
    BY Limits DEF Init
  <2>6. inflight \subseteq CacheKeys /\ ending \in Nat /\ count \in Nat /\ done \in BOOLEAN
        /\ entries \in [CacheKeys -> CacheEntries \cup {Missing}]
    BY DEF Init
  <2>7. breaker \in [BidderIDs -> Breakers]
    BY <2>1 DEF Init
  <2>. QED  BY <2>2, <2>3, <2>4, <2>5, <2>6, <2>7 DEF TypeOK
<1>2. MarksOwned
  BY DEF Init, MarksOwned, Marked, NoJob
<1>3. SlotsInv
  <2>1. Busy = {}
    BY DEF Init, Busy, NoJob
  <2>. QED  BY <2>1, FS_EmptySet, Limits DEF Init, SlotsInv, SlotsAccounted
<1>4. CallsInOrder
  BY Limits DEF Init, CallsInOrder, NoJob, NoCall
<1>5. PlacesInv
  <2>1. \A b \in BidderIDs : Occupants(b) = {}
    BY DEF Init, Occupants, Occupies, NoJob, NoCall
  <2>. QED  BY <2>1, FS_EmptySet DEF Init, PlacesInv
<1>6. FanoutInv
  <2>1. \A k \in CacheKeys : Called(k) = {}
    BY DEF Init, NoCall, Called
  <2>2. \A k \in CacheKeys : Started(k) = 0
    BY <2>1, FS_EmptySet DEF Started
  <2>. QED  BY <2>2, Limits DEF FanoutInv
<1>7. ProbeHeld
  BY DEF Init, ProbeHeld, NewCircuitBreaker
<1>8. StoredInv
  <2>1. Stored = {}
    BY DEF Init, Stored
  <2>. QED  BY <2>1, FS_EmptySet, Limits DEF Init, StoredInv, CacheBounded
<1>9. AnswersBelong /\ CachedBidsBelong
  BY DEF Init, AnswersBelong, CachedBidsBelong, Belongs, Stored, NoCall
<1>. QED  BY <1>1, <1>2, <1>3, <1>4, <1>5, <1>6, <1>7, <1>8, <1>9 DEF EngineInv

-----------------------------------------------------------------------------
(* Every mark keeps exactly one owner.                                     *)
LEMMA MarksStep == EngineInv /\ [Next]_vars => MarksOwned'
<1>. SUFFICES ASSUME EngineInv, [Next]_vars PROVE MarksOwned'
  OBVIOUS
<1>. USE DEF MarksOwned
<1>0. TypeOK /\ MarksOwned
  BY DEF EngineInv
<1>1. ASSUME NEW a \in Auctions, NEW k \in CacheKeys, Check(a, k) PROVE MarksOwned'
  <2>1. caller' = [caller EXCEPT ![a] = [at |-> "checked", key |-> k]]
        /\ DOMAIN caller = Auctions /\ UNCHANGED <<inflight, job>>
    BY <1>0, <1>1 DEF Check, TypeOK
  <2>2. \A c \in Auctions, q \in CacheKeys : Marked(c, q)' => c # a /\ Marked(c, q)
    BY <2>1 DEF Marked
  <2>3. \A c \in Auctions, q \in CacheKeys : Marked(c, q) => Marked(c, q)'
    BY <2>1, <1>1 DEF Check, Marked
  <2>. QED  BY <1>0, <2>1, <2>2, <2>3 DEF TypeOK
<1>2. ASSUME NEW a \in Auctions, Mark(a) PROVE MarksOwned'
  <2>. DEFINE k == caller[a].key
  <2>1. /\ DOMAIN caller = Auctions /\ UNCHANGED job
        /\ caller[a].at = "checked" /\ k \in CacheKeys
    BY <1>0, <1>2, CallerType DEF Mark, TypeOK
  <2>2. CASE k \in inflight
    <3>1. caller' = [caller EXCEPT ![a] = [at |-> "idle"]] /\ UNCHANGED inflight
      BY <1>2, <2>2 DEF Mark
    <3>2. \A c \in Auctions, q \in CacheKeys : Marked(c, q)' <=> Marked(c, q)
      BY <2>1, <3>1 DEF Marked
    <3>. QED  BY <1>0, <2>1, <3>1, <3>2 DEF TypeOK
  <2>3. CASE k \notin inflight
    <3>1. /\ caller' = [caller EXCEPT ![a] = [at |-> "marked", key |-> k]]
          /\ inflight' = inflight \cup {k}
      BY <1>0, <1>2, <2>1, <2>3, CallerType DEF Mark
    <3>2. \A c \in Auctions, q \in CacheKeys :
            Marked(c, q)' <=> Marked(c, q) \/ (c = a /\ q = k)
      BY <2>1, <3>1 DEF Marked
    <3>3. job[k].at = "idle" /\ \A c \in Auctions : ~Marked(c, k)
      BY <1>0, <2>1, <2>3
    <3>. QED  BY <1>0, <2>1, <3>1, <3>2, <3>3 DEF TypeOK
  <2>. QED  BY <2>2, <2>3
<1>3. ASSUME NEW a \in Auctions, Take(a) PROVE MarksOwned'
  <2>. DEFINE k == caller[a].key
  <2>1. /\ DOMAIN caller = Auctions /\ DOMAIN job = CacheKeys
        /\ Marked(a, k) /\ k \in CacheKeys
        /\ caller' = [caller EXCEPT ![a] = [at |-> "idle"]]
    BY <1>0, <1>3, CallerType DEF Take, TypeOK, Marked
  <2>2. \A c \in Auctions, q \in CacheKeys :
          Marked(c, q)' <=> Marked(c, q) /\ q # k
    BY <1>0, <2>1 DEF Marked
  <2>3. CASE refreshSlots < MaxRefreshes
    <3>1. job' = [job EXCEPT ![k] = [at |-> "scan", next |-> 1]] /\ UNCHANGED inflight
      BY <1>3, <2>3 DEF Take
    <3>2. \A q \in CacheKeys : job'[q].at # "idle" <=> job[q].at # "idle" \/ q = k
      BY <2>1, <3>1
    <3>. QED  BY <1>0, <2>1, <2>2, <3>1, <3>2 DEF TypeOK
  <2>4. CASE ~(refreshSlots < MaxRefreshes)
    <3>1. inflight' = inflight \ {k} /\ UNCHANGED job
      BY <1>3, <2>4 DEF Take
    <3>. QED  BY <1>0, <2>1, <2>2, <3>1 DEF TypeOK
  <2>. QED  BY <2>3, <2>4
<1>4. ASSUME NEW k \in CacheKeys, Acquire(k) \/ Admit(k) \/ Finish(k) PROVE MarksOwned'
  <2>1. UNCHANGED <<caller, inflight>>
    BY <1>4 DEF Acquire, Admit, Finish, triggerVars
  <2>2. job[k].at # "idle" /\ job'[k].at # "idle"
        /\ \A q \in CacheKeys : q # k => job'[q] = job[q]
    BY <1>0, <1>4 DEF Acquire, Admit, Finish, Scanning, TypeOK
  <2>3. \A q \in CacheKeys : job'[q].at = "idle" <=> job[q].at = "idle"
    BY <2>2
  <2>. QED  BY <1>0, <2>1, <2>3 DEF TypeOK, Marked
<1>5. ASSUME NEW k \in CacheKeys, Unmark(k) PROVE MarksOwned'
  BY <1>0, <1>5 DEF Unmark, TypeOK, NoJob, Marked
<1>6. CASE UNCHANGED <<caller, inflight, job>>
  BY <1>0, <1>6 DEF Marked
<1>7. ASSUME NEW k \in CacheKeys, Expire(k) \/ \E b \in BidderIDs : CallStep(k, b)
      PROVE  UNCHANGED <<caller, inflight, job>>
  BY <1>7 DEF Expire, CallStep, Return, Report, Leave, triggerVars
<1>8. ASSUME FreeSlot \/ Cancel \/ \E b \in BidderIDs : Elapse(b)
      PROVE  UNCHANGED <<caller, inflight, job>>
  BY <1>8 DEF FreeSlot, Cancel, Elapse, triggerVars
<1>. QED
  BY <1>1, <1>2, <1>3, <1>4, <1>5, <1>6, <1>7, <1>8 DEF Next, JobStep, vars

-----------------------------------------------------------------------------
(* A refresh slot is occupied by a busy key or by a goroutine that ends.   *)
LEMMA SlotsStep == EngineInv /\ [Next]_vars => SlotsInv'
<1>. SUFFICES ASSUME EngineInv, [Next]_vars PROVE SlotsInv'
  OBVIOUS
<1>. USE DEF SlotsInv, SlotsAccounted
<1>0. TypeOK /\ MarksOwned /\ SlotsInv
  BY DEF EngineInv
<1>a. Cardinality(Busy) \in Nat /\ ending \in Nat /\ refreshSlots \in Nat
      /\ MaxRefreshes \in Nat
  BY <1>0, FS_CardinalityType, Limits DEF TypeOK
<1>1. CASE UNCHANGED <<Busy, refreshSlots, ending>>
  BY <1>0, <1>1
<1>2. ASSUME NEW a \in Auctions, Take(a) PROVE SlotsInv'
  <2>. DEFINE k == caller[a].key
  <2>1. k \in CacheKeys /\ Marked(a, k) /\ UNCHANGED ending
    BY <1>0, <1>2, CallerType DEF Take, Marked
  <2>2. CASE refreshSlots < MaxRefreshes
    <3>1. job' = [job EXCEPT ![k] = [at |-> "scan", next |-> 1]]
          /\ refreshSlots' = refreshSlots + 1
      BY <1>2, <2>2 DEF Take
    <3>2. Busy' = Busy \cup {k} /\ k \notin Busy
      BY <1>0, <2>1, <3>1 DEF Busy, MarksOwned, TypeOK
    <3>3. IsFiniteSet(Busy') /\ Cardinality(Busy') = Cardinality(Busy) + 1
      BY <1>0, <3>2, FS_AddElement
    <3>. QED  BY <1>0, <1>a, <2>1, <2>2, <3>1, <3>3
  <2>3. CASE ~(refreshSlots < MaxRefreshes)
    BY <1>1, <1>2, <2>3 DEF Take, Busy
  <2>. QED  BY <2>2, <2>3
<1>3. ASSUME NEW k \in CacheKeys, Unmark(k) PROVE SlotsInv'
  <2>1. Busy' = Busy \ {k} /\ k \in Busy /\ ending' = ending + 1 /\ UNCHANGED refreshSlots
    BY <1>0, <1>3 DEF Unmark, Busy, TypeOK, NoJob
  <2>2. IsFiniteSet(Busy') /\ Cardinality(Busy') = Cardinality(Busy) - 1
    BY <1>0, <2>1, FS_RemoveElement
  <2>. QED  BY <1>0, <1>a, <2>1, <2>2
<1>4. CASE FreeSlot
  <2>1. UNCHANGED Busy /\ ending' = ending - 1 /\ refreshSlots' = refreshSlots - 1
    BY <1>4 DEF FreeSlot, Busy
  <2>. QED  BY <1>0, <1>a, <2>1
<1>5. ASSUME NEW k \in CacheKeys, Acquire(k) \/ Admit(k) \/ Finish(k)
      PROVE  UNCHANGED <<Busy, refreshSlots, ending>>
  <2>1. UNCHANGED <<refreshSlots, ending>>
    BY <1>5 DEF Acquire, Admit, Finish, triggerVars
  <2>2. job[k].at # "idle" /\ job'[k].at # "idle"
        /\ \A q \in CacheKeys : q # k => job'[q] = job[q]
    BY <1>0, <1>5 DEF Acquire, Admit, Finish, Scanning, TypeOK
  <2>3. \A q \in CacheKeys : job'[q].at = "idle" <=> job[q].at = "idle"
    BY <2>2
  <2>. QED  BY <2>1, <2>3 DEF Busy
<1>6. ASSUME NEW a \in Auctions, Mark(a) \/ \E k \in CacheKeys : Check(a, k)
      PROVE  UNCHANGED <<Busy, refreshSlots, ending>>
  BY <1>6 DEF Mark, Check, Busy
<1>7. ASSUME NEW k \in CacheKeys, Expire(k) \/ \E b \in BidderIDs : CallStep(k, b)
      PROVE  UNCHANGED <<Busy, refreshSlots, ending>>
  BY <1>7 DEF Expire, CallStep, Return, Report, Leave, triggerVars, Busy
<1>8. ASSUME Cancel \/ (\E b \in BidderIDs : Elapse(b)) \/ UNCHANGED vars
      PROVE  UNCHANGED <<Busy, refreshSlots, ending>>
  BY <1>8 DEF Cancel, Elapse, triggerVars, Busy, vars
<1>. QED
  BY <1>1, <1>2, <1>3, <1>4, <1>5, <1>6, <1>7, <1>8 DEF Next, JobStep

-----------------------------------------------------------------------------
(* How the goroutine of one call changes the state.                        *)
LEMMA CallStepEffect ==
  ASSUME TypeOK, NEW k \in CacheKeys, NEW b \in BidderIDs, CallStep(k, b)
  PROVE  /\ UNCHANGED <<caller, inflight, refreshSlots, job, ending, entries, count, done>>
         /\ call[k][b].at \in {"call", "report", "leave"}
         /\ call'[k][b].at \in {"report", "leave", "done"}
         /\ call[k][b].at = "leave" <=> call'[k][b].at = "done"
         /\ \A q \in CacheKeys, c \in BidderIDs :
              q # k \/ c # b => call'[q][c] = call[q][c]
<1>1. CASE Return(k, b)
  BY <1>1 DEF Return, TypeOK, triggerVars, cacheVars
<1>2. CASE Report(k, b)
  BY <1>2 DEF Report, TypeOK, triggerVars, cacheVars
<1>3. CASE Leave(k, b)
  BY <1>3 DEF Leave, TypeOK, triggerVars, cacheVars
<1>. QED  BY <1>1, <1>2, <1>3 DEF CallStep

(* How a refresh decides on the bidder whose place it holds.               *)
LEMMA AdmitEffect ==
  ASSUME TypeOK, CallsInOrder, NEW k \in CacheKeys, Admit(k),
         NEW b, b = Bidders[job[k].next]
  PROVE  /\ job[k].at = "held" /\ job[k].next \in DOMAIN Bidders
         /\ b \in BidderIDs /\ call[k][b].at = "none"
         /\ job'[k] = [at |-> "scan", next |-> job[k].next + 1]
         /\ \A q \in CacheKeys : q # k => job'[q] = job[q]
         /\ \A q \in CacheKeys, c \in BidderIDs :
              q # k \/ c # b => call'[q][c] = call[q][c]
         /\ \/ /\ call'[k][b].at = "call" /\ call'[k][b].bids = call[k][b].bids
               /\ UNCHANGED sem
            \/ UNCHANGED <<call, breaker>> /\ sem' = [sem EXCEPT ![b] = @ - 1]
<1>1. job[k].at = "held" /\ job[k].next \in DOMAIN Bidders
  BY DEF Admit, CallsInOrder
<1>2. b \in BidderIDs
  BY <1>1, Limits
<1>3. call[k][b].at = "none"
  BY <1>1, Limits DEF CallsInOrder, TypeOK
<1>4. /\ job'[k] = [at |-> "scan", next |-> job[k].next + 1]
      /\ \A q \in CacheKeys : q # k => job'[q] = job[q]
  BY DEF Admit, TypeOK
<1>5. CASE Allows(breaker[b])
  <2>1. call' = [call EXCEPT ![k][b].at = "call"] /\ UNCHANGED sem
    BY <1>5 DEF Admit
  <2>2. /\ call'[k][b].at = "call" /\ call'[k][b].bids = call[k][b].bids
        /\ \A q \in CacheKeys, c \in BidderIDs :
             q # k \/ c # b => call'[q][c] = call[q][c]
    BY <1>2, <2>1 DEF TypeOK
  <2>. QED  BY <1>1, <1>2, <1>3, <1>4, <2>1, <2>2
<1>6. CASE ~Allows(breaker[b])
  <2>1. UNCHANGED <<call, breaker>> /\ sem' = [sem EXCEPT ![b] = @ - 1]
    BY <1>6 DEF Admit
  <2>. QED  BY <1>1, <1>2, <1>3, <1>4, <2>1
<1>. QED  BY <1>5, <1>6

(* How a refresh takes the place of a bidder, or skips the bidder.         *)
LEMMA AcquireEffect ==
  ASSUME TypeOK, NEW k \in CacheKeys, Acquire(k), NEW b, b = Bidders[job[k].next]
  PROVE  /\ job[k].at = "scan" /\ job[k].next \in DOMAIN Bidders
         /\ b \in BidderIDs /\ Started(k) # MaxFanout
         /\ UNCHANGED <<call, breaker>>
         /\ \A q \in CacheKeys : q # k => job'[q] = job[q]
         /\ \/ /\ sem[b] < MaxConcurrent /\ sem' = [sem EXCEPT ![b] = @ + 1]
               /\ job'[k] = [at |-> "held", next |-> job[k].next]
            \/ /\ UNCHANGED sem
               /\ job'[k] = [at |-> "scan", next |-> job[k].next + 1]
<1>1. job[k].at = "scan" /\ job[k].next \in DOMAIN Bidders /\ b \in BidderIDs
      /\ Started(k) # MaxFanout
  BY NextBidder DEF Acquire, Scanning
<1>2. UNCHANGED <<call, breaker>>
  BY DEF Acquire
<1>3. CASE sem[b] < MaxConcurrent
  <2>1. job' = [job EXCEPT ![k].at = "held"] /\ sem' = [sem EXCEPT ![b] = @ + 1]
    BY <1>3 DEF Acquire
  <2>2. job'[k] = [at |-> "held", next |-> job[k].next]
        /\ \A q \in CacheKeys : q # k => job'[q] = job[q]
    BY <2>1 DEF TypeOK
  <2>. QED  BY <1>1, <1>2, <1>3, <2>1, <2>2
<1>4. CASE ~(sem[b] < MaxConcurrent)
  <2>1. job' = [job EXCEPT ![k].next = @ + 1] /\ UNCHANGED sem
    BY <1>4 DEF Acquire
  <2>2. job'[k] = [at |-> "scan", next |-> job[k].next + 1]
        /\ \A q \in CacheKeys : q # k => job'[q] = job[q]
    BY <1>1, <2>1 DEF TypeOK
  <2>. QED  BY <1>1, <1>2, <2>1, <2>2
<1>. QED  BY <1>3, <1>4

(* How a refresh ends: all its calls are over and forgotten.               *)
LEMMA FinishEffect ==
  ASSUME TypeOK, NEW k \in CacheKeys, Finish(k)
  PROVE  /\ job[k].at = "scan" /\ UNCHANGED <<sem, breaker>>
         /\ job'[k] = [at |-> "unmark", next |-> job[k].next]
         /\ \A q \in CacheKeys : q # k => job'[q] = job[q]
         /\ \A b \in BidderIDs : call[k][b].at \in {"none", "done"} /\ call'[k][b] = NoCall
         /\ \A q \in CacheKeys, c \in BidderIDs : q # k => call'[q][c] = call[q][c]
<1>1. /\ job[k].at = "scan" /\ job' = [job EXCEPT ![k].at = "unmark"]
      /\ UNCHANGED <<sem, breaker>>
      /\ \A b \in BidderIDs : call[k][b].at \in {"none", "done"}
      /\ call' = [call EXCEPT ![k] = [b \in BidderIDs |-> NoCall]]
  BY DEF Finish
<1>2. job'[k] = [at |-> "unmark", next |-> job[k].next]
      /\ \A q \in CacheKeys : q # k => job'[q] = job[q]
  BY <1>1 DEF TypeOK
<1>3. /\ \A b \in BidderIDs : call'[k][b] = NoCall
      /\ \A q \in CacheKeys, c \in BidderIDs : q # k => call'[q][c] = call[q][c]
  BY <1>1 DEF TypeOK
<1>. QED  BY <1>1, <1>2, <1>3

(* How the start and the end of a goroutine change its job.                *)
LEMMA TakeEffect ==
  ASSUME TypeOK, MarksOwned, NEW a \in Auctions, Take(a), NEW k, k = caller[a].key
  PROVE  /\ k \in CacheKeys /\ job[k].at = "idle" /\ Marked(a, k)
         /\ UNCHANGED <<call, sem, breaker>>
         /\ \A q \in CacheKeys : q # k => job'[q] = job[q]
         /\ \/ UNCHANGED job
            \/ job'[k] = [at |-> "scan", next |-> 1]
<1>1. k \in CacheKeys /\ Marked(a, k)
  BY CallerType DEF Take, Marked
<1>2. job[k].at = "idle" /\ UNCHANGED <<call, sem, breaker>>
  BY <1>1 DEF MarksOwned, Take
<1>3. UNCHANGED job \/ job' = [job EXCEPT ![k] = [at |-> "scan", next |-> 1]]
  BY DEF Take
<1>. QED  BY <1>1, <1>2, <1>3 DEF TypeOK

LEMMA UnmarkEffect ==
  ASSUME TypeOK, NEW k \in CacheKeys, Unmark(k)
  PROVE  /\ job[k].at = "unmark" /\ job'[k] = NoJob
         /\ UNCHANGED <<call, sem, breaker>>
         /\ \A q \in CacheKeys : q # k => job'[q] = job[q]
BY DEF Unmark, TypeOK

(* The steps that leave the loops and the calls alone.                     *)
AsideStep ==
  \/ \E a \in Auctions : Mark(a) \/ \E k \in CacheKeys : Check(a, k)
  \/ \E k \in CacheKeys : Expire(k)
  \/ FreeSlot \/ Cancel \/ UNCHANGED vars

LEMMA AsideEffect == AsideStep => UNCHANGED <<job, call, sem, breaker>>
BY DEF AsideStep, Mark, Check, Expire, FreeSlot, Cancel, vars

-----------------------------------------------------------------------------
(* The loop over the bidders only goes forward.                            *)
LEMMA CallsStep == EngineInv /\ [Next]_vars => CallsInOrder'
<1>. SUFFICES ASSUME EngineInv, [Next]_vars PROVE CallsInOrder'
  OBVIOUS
<1>0. TypeOK /\ CallsInOrder /\ MarksOwned
  BY DEF EngineInv
<1>. DEFINE C(q) == /\ job[q].at \in {"idle", "unmark"} =>
                         \A b \in BidderIDs : call[q][b].at = "none"
                    /\ \A i \in DOMAIN Bidders :
                         i >= job[q].next => call[q][Bidders[i]].at = "none"
                    /\ job[q].at = "held" => job[q].next \in DOMAIN Bidders
<1>a. (\A q \in CacheKeys : C(q)) /\ ((\A q \in CacheKeys : C(q)') => CallsInOrder')
  BY <1>0 DEF CallsInOrder
<1>b. \A q \in CacheKeys : job'[q] = job[q]
        /\ (\A c \in BidderIDs : call'[q][c] = call[q][c]) => C(q)'
  BY <1>a, Limits
<1>1. ASSUME NEW a \in Auctions, Take(a) PROVE CallsInOrder'
  <2>. PICK k : k = caller[a].key
    OBVIOUS
  <2>1. /\ k \in CacheKeys /\ job[k].at = "idle" /\ UNCHANGED call
        /\ \A q \in CacheKeys : q # k => job'[q] = job[q]
        /\ UNCHANGED job \/ job'[k] = [at |-> "scan", next |-> 1]
    BY <1>0, <1>1, TakeEffect
  <2>2. C(k)'
    <3>1. \A b \in BidderIDs : call'[k][b].at = "none"
      BY <1>a, <2>1
    <3>. QED  BY <3>1, <1>a, <2>1, Limits
  <2>. QED  BY <1>a, <1>b, <2>1, <2>2
<1>2. ASSUME NEW k \in CacheKeys, Acquire(k) PROVE CallsInOrder'
  <2>. PICK b : b = Bidders[job[k].next]
    OBVIOUS
  <2>1. /\ job[k].next \in DOMAIN Bidders /\ UNCHANGED call
        /\ \A q \in CacheKeys : q # k => job'[q] = job[q]
        /\ \/ job'[k] = [at |-> "held", next |-> job[k].next]
           \/ job'[k] = [at |-> "scan", next |-> job[k].next + 1]
    BY <1>0, <1>2, AcquireEffect
  <2>2. C(k)'
    BY <1>a, <2>1, Limits
  <2>. QED  BY <1>a, <1>b, <2>1, <2>2
<1>3. ASSUME NEW k \in CacheKeys, Admit(k) PROVE CallsInOrder'
  <2>. PICK b : b = Bidders[job[k].next]
    OBVIOUS
  <2>1. /\ job[k].next \in DOMAIN Bidders
        /\ job'[k] = [at |-> "scan", next |-> job[k].next + 1]
        /\ \A q \in CacheKeys : q # k => job'[q] = job[q]
        /\ \A q \in CacheKeys, c \in BidderIDs :
             q # k \/ c # b => call'[q][c] = call[q][c]
    BY <1>0, <1>3, AdmitEffect
  <2>2. \A i \in DOMAIN Bidders : i >= job[k].next + 1 =>
          Bidders[i] # b /\ Bidders[i] \in BidderIDs /\ i >= job[k].next
    BY <2>1, Limits, EngineAssumption
  <2>3. C(k)'
    BY <1>a, <2>1, <2>2, Limits
  <2>. QED  BY <1>a, <1>b, <2>1, <2>3
<1>4. ASSUME NEW k \in CacheKeys, Finish(k) PROVE CallsInOrder'
  <2>1. /\ job'[k] = [at |-> "unmark", next |-> job[k].next]
        /\ \A q \in CacheKeys : q # k => job'[q] = job[q]
        /\ \A b \in BidderIDs : call'[k][b] = NoCall
        /\ \A q \in CacheKeys, c \in BidderIDs : q # k => call'[q][c] = call[q][c]
    BY <1>0, <1>4, FinishEffect
  <2>2. C(k)'
    BY <2>1, Limits DEF NoCall
  <2>. QED  BY <1>a, <1>b, <2>1, <2>2
<1>5. ASSUME NEW k \in CacheKeys, Unmark(k) PROVE CallsInOrder'
  <2>1. /\ job[k].at = "unmark" /\ job'[k] = NoJob /\ UNCHANGED call
        /\ \A q \in CacheKeys : q # k => job'[q] = job[q]
    BY <1>0, <1>5, UnmarkEffect
  <2>2. C(k)'
    BY <1>a, <2>1, Limits DEF NoJob
  <2>. QED  BY <1>a, <1>b, <2>1, <2>2
<1>6. ASSUME NEW k \in CacheKeys, NEW b \in BidderIDs, CallStep(k, b) PROVE CallsInOrder'
  <2>1. /\ UNCHANGED job /\ call[k][b].at # "none"
        /\ \A q \in CacheKeys, c \in BidderIDs :
             q # k \/ c # b => call'[q][c] = call[q][c]
    BY <1>0, <1>6, CallStepEffect
  <2>2. C(k)'
    BY <1>a, <2>1, Limits
  <2>. QED  BY <1>a, <1>b, <2>1, <2>2
<1>7. CASE AsideStep \/ \E b \in BidderIDs : Elapse(b)
  <2>1. UNCHANGED <<job, call>>
    BY <1>7, AsideEffect DEF Elapse
  <2>. QED  BY <1>0, <2>1 DEF CallsInOrder
<1>. QED
  BY <1>1, <1>2, <1>3, <1>4, <1>5, <1>6, <1>7 DEF Next, JobStep, AsideStep

-----------------------------------------------------------------------------
(* One refresh takes a place of bidder b, gives one back, or neither.      *)
LEMMA PlaceTaken ==
  ASSUME TypeOK, PlacesInv, NEW k \in CacheKeys, NEW b \in BidderIDs,
         sem' = [sem EXCEPT ![b] = @ + 1], ~Occupies(k, b), Occupies(k, b)',
         \A q \in CacheKeys, c \in BidderIDs :
           q # k \/ c # b => (Occupies(q, c)' <=> Occupies(q, c))
  PROVE  PlacesInv'
<1>1. Occupants(b)' = Occupants(b) \cup {k} /\ k \notin Occupants(b)
      /\ \A c \in BidderIDs : c # b => Occupants(c)' = Occupants(c)
  BY DEF Occupants
<1>2. IsFiniteSet(Occupants(b)') /\ Cardinality(Occupants(b)') = Cardinality(Occupants(b)) + 1
  BY <1>1, FS_AddElement DEF PlacesInv
<1>3. sem'[b] = sem[b] + 1 /\ \A c \in BidderIDs : c # b => sem'[c] = sem[c]
  BY DEF TypeOK
<1>. QED  BY <1>1, <1>2, <1>3 DEF PlacesInv

LEMMA PlaceLeft ==
  ASSUME TypeOK, PlacesInv, NEW k \in CacheKeys, NEW b \in BidderIDs,
         sem' = [sem EXCEPT ![b] = @ - 1], Occupies(k, b), ~Occupies(k, b)',
         \A q \in CacheKeys, c \in BidderIDs :
           q # k \/ c # b => (Occupies(q, c)' <=> Occupies(q, c))
  PROVE  PlacesInv'
<1>1. Occupants(b)' = Occupants(b) \ {k} /\ k \in Occupants(b)
      /\ \A c \in BidderIDs : c # b => Occupants(c)' = Occupants(c)
  BY DEF Occupants
<1>2. IsFiniteSet(Occupants(b)') /\ Cardinality(Occupants(b)') = Cardinality(Occupants(b)) - 1
  BY <1>1, FS_RemoveElement DEF PlacesInv
<1>3. sem'[b] = sem[b] - 1 /\ \A c \in BidderIDs : c # b => sem'[c] = sem[c]
  BY DEF TypeOK
<1>. QED  BY <1>1, <1>2, <1>3 DEF PlacesInv

LEMMA PlacesKept ==
  ASSUME PlacesInv, UNCHANGED sem,
         \A q \in CacheKeys, c \in BidderIDs : Occupies(q, c)' <=> Occupies(q, c)
  PROVE  PlacesInv'
<1>1. \A c \in BidderIDs : Occupants(c)' = Occupants(c)
  BY DEF Occupants
<1>. QED  BY <1>1 DEF PlacesInv

(* Every place of a bidder that is taken has a refresh behind it.          *)
LEMMA PlacesStep == EngineInv /\ [Next]_vars => PlacesInv'
<1>. SUFFICES ASSUME EngineInv, [Next]_vars PROVE PlacesInv'
  OBVIOUS
<1>0. TypeOK /\ CallsInOrder /\ MarksOwned /\ PlacesInv
  BY DEF EngineInv
<1>1. ASSUME NEW a \in Auctions, Take(a) PROVE PlacesInv'
  <2>. PICK k : k = caller[a].key
    OBVIOUS
  <2>1. /\ k \in CacheKeys /\ job[k].at = "idle" /\ UNCHANGED <<call, sem>>
        /\ \A q \in CacheKeys : q # k => job'[q] = job[q]
        /\ UNCHANGED job \/ job'[k] = [at |-> "scan", next |-> 1]
    BY <1>0, <1>1, TakeEffect
  <2>2. \A q \in CacheKeys, c \in BidderIDs : Occupies(q, c)' <=> Occupies(q, c)
    BY <2>1 DEF Occupies
  <2>. QED  BY <1>0, <2>1, <2>2, PlacesKept
<1>2. ASSUME NEW k \in CacheKeys, Acquire(k) PROVE PlacesInv'
  <2>. PICK b : b = Bidders[job[k].next]
    OBVIOUS
  <2>1. /\ job[k].at = "scan" /\ job[k].next \in DOMAIN Bidders /\ b \in BidderIDs
        /\ UNCHANGED call
        /\ \A q \in CacheKeys : q # k => job'[q] = job[q]
        /\ \/ /\ sem' = [sem EXCEPT ![b] = @ + 1]
              /\ job'[k] = [at |-> "held", next |-> job[k].next]
           \/ UNCHANGED sem /\ job'[k] = [at |-> "scan", next |-> job[k].next + 1]
    BY <1>0, <1>2, AcquireEffect
  <2>2. call[k][b].at = "none"
    BY <1>0, <2>1, Limits DEF CallsInOrder
  <2>3. CASE /\ sem' = [sem EXCEPT ![b] = @ + 1]
             /\ job'[k] = [at |-> "held", next |-> job[k].next]
    <3>1. ~Occupies(k, b) /\ Occupies(k, b)'
      BY <2>1, <2>2, <2>3 DEF Occupies
    <3>2. \A q \in CacheKeys, c \in BidderIDs :
            q # k \/ c # b => (Occupies(q, c)' <=> Occupies(q, c))
      BY <2>1, <2>3 DEF Occupies
    <3>. QED  BY <1>0, <2>1, <2>3, <3>1, <3>2, PlaceTaken
  <2>4. CASE UNCHANGED sem /\ job'[k] = [at |-> "scan", next |-> job[k].next + 1]
    <3>1. \A q \in CacheKeys, c \in BidderIDs : Occupies(q, c)' <=> Occupies(q, c)
      BY <2>1, <2>4 DEF Occupies
    <3>. QED  BY <1>0, <2>4, <3>1, PlacesKept
  <2>. QED  BY <2>1, <2>3, <2>4
<1>3. ASSUME NEW k \in CacheKeys, Admit(k) PROVE PlacesInv'
  <2>. PICK b : b = Bidders[job[k].next]
    OBVIOUS
  <2>1. /\ job[k].at = "held" /\ b \in BidderIDs /\ call[k][b].at = "none"
        /\ job'[k] = [at |-> "scan", next |-> job[k].next + 1]
        /\ \A q \in CacheKeys : q # k => job'[q] = job[q]
        /\ \A q \in CacheKeys, c \in BidderIDs :
             q # k \/ c # b => call'[q][c] = call[q][c]
        /\ \/ call'[k][b].at = "call" /\ UNCHANGED sem
           \/ UNCHANGED <<call, breaker>> /\ sem' = [sem EXCEPT ![b] = @ - 1]
    BY <1>0, <1>3, AdmitEffect
  <2>2. \A q \in CacheKeys, c \in BidderIDs :
          q # k \/ c # b => (Occupies(q, c)' <=> Occupies(q, c))
    BY <2>1 DEF Occupies
  <2>3. Occupies(k, b)
    BY <2>1 DEF Occupies
  <2>4. CASE call'[k][b].at = "call" /\ UNCHANGED sem
    <3>1. Occupies(k, b)'
      BY <2>4 DEF Occupies
    <3>. QED  BY <1>0, <2>2, <2>3, <2>4, <3>1, PlacesKept
  <2>5. CASE UNCHANGED <<call, breaker>> /\ sem' = [sem EXCEPT ![b] = @ - 1]
    <3>1. ~Occupies(k, b)'
      BY <2>1, <2>5 DEF Occupies
    <3>. QED  BY <1>0, <2>1, <2>2, <2>3, <2>5, <3>1, PlaceLeft
  <2>. QED  BY <2>1, <2>4, <2>5
<1>4. ASSUME NEW k \in CacheKeys, Finish(k) PROVE PlacesInv'
  <2>1. /\ job[k].at = "scan" /\ UNCHANGED sem
        /\ job'[k] = [at |-> "unmark", next |-> job[k].next]
        /\ \A q \in CacheKeys : q # k => job'[q] = job[q]
        /\ \A b \in BidderIDs : call[k][b].at \in {"none", "done"} /\ call'[k][b] = NoCall
        /\ \A q \in CacheKeys, c \in BidderIDs : q # k => call'[q][c] = call[q][c]
    BY <1>0, <1>4, FinishEffect
  <2>2. \A q \in CacheKeys, c \in BidderIDs : Occupies(q, c)' <=> Occupies(q, c)
    BY <2>1 DEF NoCall, Occupies
  <2>. QED  BY <1>0, <2>1, <2>2, PlacesKept
<1>5. ASSUME NEW k \in CacheKeys, Unmark(k) PROVE PlacesInv'
  <2>1. /\ job[k].at = "unmark" /\ job'[k] = NoJob /\ UNCHANGED <<call, sem>>
        /\ \A q \in CacheKeys : q # k => job'[q] = job[q]
    BY <1>0, <1>5, UnmarkEffect
  <2>2. \A q \in CacheKeys, c \in BidderIDs : Occupies(q, c)' <=> Occupies(q, c)
    BY <2>1 DEF NoJob, Occupies
  <2>. QED  BY <1>0, <2>1, <2>2, PlacesKept
<1>6. ASSUME NEW k \in CacheKeys, NEW b \in BidderIDs, CallStep(k, b) PROVE PlacesInv'
  <2>1. /\ UNCHANGED job
        /\ call[k][b].at \in {"call", "report", "leave"}
        /\ call'[k][b].at \in {"report", "leave", "done"}
        /\ call[k][b].at = "leave" <=> call'[k][b].at = "done"
        /\ \A q \in CacheKeys, c \in BidderIDs :
             q # k \/ c # b => call'[q][c] = call[q][c]
    BY <1>0, <1>6, CallStepEffect
  <2>2. \A q \in CacheKeys, c \in BidderIDs :
          q # k \/ c # b => (Occupies(q, c)' <=> Occupies(q, c))
    BY <2>1 DEF Occupies
  <2>3. Occupies(k, b)
    BY <2>1 DEF Occupies
  <2>4. CASE Leave(k, b)
    <3>1. sem' = [sem EXCEPT ![b] = @ - 1] /\ call'[k][b].at = "done"
      BY <2>1, <2>4 DEF Leave
    <3>2. ~(job[k].at = "held" /\ Bidders[job[k].next] = b)
      BY <1>0, <2>1, Limits DEF CallsInOrder
    <3>3. ~Occupies(k, b)'
      BY <2>1, <3>1, <3>2 DEF Occupies
    <3>. QED  BY <1>0, <2>2, <2>3, <3>1, <3>3, PlaceLeft
  <2>5. CASE Return(k, b) \/ Report(k, b)
    <3>1. UNCHANGED sem /\ call[k][b].at # "leave"
      BY <2>5 DEF Return, Report
    <3>2. Occupies(k, b)'
      BY <2>1, <3>1 DEF Occupies
    <3>. QED  BY <1>0, <2>2, <2>3, <3>1, <3>2, PlacesKept
  <2>. QED  BY <1>6, <2>4, <2>5 DEF CallStep
<1>7. CASE AsideStep \/ \E b \in BidderIDs : Elapse(b)
  <2>1. UNCHANGED <<job, call, sem>>
    BY <1>7, AsideEffect DEF Elapse
  <2>. QED  BY <1>0, <2>1, PlacesKept DEF Occupies
<1>. QED
  BY <1>1, <1>2, <1>3, <1>4, <1>5, <1>6, <1>7 DEF Next, JobStep, AsideStep

-----------------------------------------------------------------------------
(* A refresh that holds a place may still make a call.                     *)
LEMMA FanoutStep == EngineInv /\ [Next]_vars => FanoutInv'
<1>. SUFFICES ASSUME EngineInv, [Next]_vars PROVE FanoutInv'
  OBVIOUS
<1>0. TypeOK /\ CallsInOrder /\ MarksOwned /\ FanoutInv
  BY DEF EngineInv
<1>. DEFINE F(q) == /\ Started(q) <= MaxFanout
                    /\ job[q].at = "held" => Started(q) < MaxFanout
<1>a. (\A q \in CacheKeys : F(q)) /\ ((\A q \in CacheKeys : F(q)') => FanoutInv')
  BY <1>0 DEF FanoutInv
<1>b. \A q \in CacheKeys :
        (\A c \in BidderIDs : call'[q][c].at = "none" <=> call[q][c].at = "none")
        => Started(q)' = Started(q)
  BY DEF Called, Started
<1>c. \A q \in CacheKeys : Started(q) \in Nat /\ MaxFanout \in Nat
  BY StartedType, Limits
<1>1. ASSUME NEW a \in Auctions, Take(a) PROVE FanoutInv'
  <2>. PICK k : k = caller[a].key
    OBVIOUS
  <2>1. /\ k \in CacheKeys /\ UNCHANGED call
        /\ \A q \in CacheKeys : q # k => job'[q] = job[q]
        /\ UNCHANGED job \/ job'[k] = [at |-> "scan", next |-> 1]
    BY <1>0, <1>1, TakeEffect
  <2>2. \A q \in CacheKeys : Started(q)' = Started(q)
    BY <1>b, <2>1
  <2>. QED  BY <1>a, <2>1, <2>2
<1>2. ASSUME NEW k \in CacheKeys, Acquire(k) PROVE FanoutInv'
  <2>1. /\ UNCHANGED call /\ Started(k) # MaxFanout
        /\ \A q \in CacheKeys : q # k => job'[q] = job[q]
    BY <1>0, <1>2, AcquireEffect
  <2>2. \A q \in CacheKeys : Started(q)' = Started(q)
    BY <1>b, <2>1
  <2>3. Started(k) < MaxFanout
    BY <1>a, <1>c, <2>1
  <2>. QED  BY <1>a, <2>1, <2>2, <2>3
<1>3. ASSUME NEW k \in CacheKeys, Admit(k) PROVE FanoutInv'
  <2>. PICK b : b = Bidders[job[k].next]
    OBVIOUS
  <2>1. /\ job[k].at = "held" /\ b \in BidderIDs /\ call[k][b].at = "none"
        /\ job'[k] = [at |-> "scan", next |-> job[k].next + 1]
        /\ \A q \in CacheKeys : q # k => job'[q] = job[q]
        /\ \A q \in CacheKeys, c \in BidderIDs :
             q # k \/ c # b => call'[q][c] = call[q][c]
        /\ call'[k][b].at = "call" \/ UNCHANGED call
    BY <1>0, <1>3, AdmitEffect
  <2>2. \A q \in CacheKeys : q # k => Started(q)' = Started(q)
    BY <1>b, <2>1
  <2>3. Started(k) < MaxFanout
    BY <1>a, <2>1
  <2>4. Started(k)' = Started(k) \/ Started(k)' = Started(k) + 1
    <3>1. CASE UNCHANGED call
      BY <1>b, <3>1
    <3>2. CASE call'[k][b].at = "call"
      <4>1. Called(k)' = Called(k) \cup {b} /\ b \notin Called(k)
        BY <2>1, <3>2 DEF Called
      <4>2. Cardinality(Called(k)') = Cardinality(Called(k)) + 1
        BY <4>1, StartedType, FS_AddElement
      <4>. QED  BY <4>2 DEF Started
    <3>. QED  BY <2>1, <3>1, <3>2
  <2>5. F(k)'
    BY <1>c, <2>1, <2>3, <2>4
  <2>6. \A q \in CacheKeys : q # k => F(q)'
    BY <1>a, <2>1, <2>2
  <2>. QED  BY <1>a, <2>5, <2>6
<1>4. ASSUME NEW k \in CacheKeys, Finish(k) PROVE FanoutInv'
  <2>1. /\ job'[k] = [at |-> "unmark", next |-> job[k].next]
        /\ \A q \in CacheKeys : q # k => job'[q] = job[q]
        /\ \A b \in BidderIDs : call'[k][b] = NoCall
        /\ \A q \in CacheKeys, c \in BidderIDs : q # k => call'[q][c] = call[q][c]
    BY <1>0, <1>4, FinishEffect
  <2>2. \A q \in CacheKeys : q # k => Started(q)' = Started(q)
    BY <1>b, <2>1
  <2>3. Called(k)' = {}
    BY <2>1 DEF Called, NoCall
  <2>4. Started(k)' = 0
    BY <2>3, FS_EmptySet DEF Started
  <2>5. F(k)'
    BY <2>1, <2>4, Limits
  <2>. QED  BY <1>a, <2>1, <2>2, <2>5
<1>5. ASSUME NEW k \in CacheKeys, Unmark(k) PROVE FanoutInv'
  <2>1. /\ job'[k] = NoJob /\ UNCHANGED call
        /\ \A q \in CacheKeys : q # k => job'[q] = job[q]
    BY <1>0, <1>5, UnmarkEffect
  <2>2. \A q \in CacheKeys : Started(q)' = Started(q)
    BY <1>b, <2>1
  <2>. QED  BY <1>a, <2>1, <2>2 DEF NoJob
<1>6. ASSUME NEW k \in CacheKeys, NEW b \in BidderIDs, CallStep(k, b) PROVE FanoutInv'
  <2>1. /\ UNCHANGED job /\ call[k][b].at # "none" /\ call'[k][b].at # "none"
        /\ \A q \in CacheKeys, c \in BidderIDs :
             q # k \/ c # b => call'[q][c] = call[q][c]
    BY <1>0, <1>6, CallStepEffect
  <2>2. \A q \in CacheKeys : Started(q)' = Started(q)
    BY <1>b, <2>1
  <2>. QED  BY <1>a, <2>1, <2>2
<1>7. CASE AsideStep \/ \E b \in BidderIDs : Elapse(b)
  <2>1. UNCHANGED <<job, call>>
    BY <1>7, AsideEffect DEF Elapse
  <2>2. \A q \in CacheKeys : Started(q)' = Started(q)
    BY <1>b, <2>1
  <2>. QED  BY <1>a, <2>1, <2>2
<1>. QED
  BY <1>1, <1>2, <1>3, <1>4, <1>5, <1>6, <1>7 DEF Next, JobStep, AsideStep

-----------------------------------------------------------------------------
(* Who takes the probe of a circuit starts a call, and only the report of  *)
(* a call ends the probe.                                                  *)
LEMMA ProbeStep == EngineInv /\ [Next]_vars => ProbeHeld'
<1>. SUFFICES ASSUME EngineInv, [Next]_vars PROVE ProbeHeld'
  OBVIOUS
<1>0. TypeOK /\ CallsInOrder /\ MarksOwned /\ ProbeHeld
  BY DEF EngineInv
<1>. DEFINE Probing(q, c) == call[q][c].at \in {"call", "report"}
<1>a. ASSUME \A c \in BidderIDs :
               \/ ~breaker'[c].probeInFlight
               \/ \E q \in CacheKeys : Probing(q, c)'
               \/ /\ breaker'[c].probeInFlight = breaker[c].probeInFlight
                  /\ \A q \in CacheKeys : Probing(q, c) => Probing(q, c)'
      PROVE  ProbeHeld'
  BY <1>0, <1>a DEF ProbeHeld
<1>1. CASE UNCHANGED <<call, breaker>>
  BY <1>0, <1>1 DEF ProbeHeld
<1>2. ASSUME NEW k \in CacheKeys, Admit(k) PROVE ProbeHeld'
  <2>. PICK b : b = Bidders[job[k].next]
    OBVIOUS
  <2>1. /\ job[k].at = "held" /\ b \in BidderIDs /\ call[k][b].at = "none"
        /\ job'[k] = [at |-> "scan", next |-> job[k].next + 1]
        /\ \A q \in CacheKeys : q # k => job'[q] = job[q]
        /\ \A q \in CacheKeys, c \in BidderIDs :
             q # k \/ c # b => call'[q][c] = call[q][c]
        /\ \/ call'[k][b].at = "call" /\ UNCHANGED sem
           \/ UNCHANGED <<call, breaker>> /\ sem' = [sem EXCEPT ![b] = @ - 1]
    BY <1>0, <1>2, AdmitEffect
  <2>2. call'[k][b].at = "call" \/ UNCHANGED <<call, breaker>>
    BY <2>1
  <2>4. \A c \in BidderIDs : c # b => breaker'[c] = breaker[c]
    BY <1>0, <1>2 DEF Admit, TypeOK
  <2>3. CASE call'[k][b].at = "call"
    <3>1. Probing(k, b)'
      BY <2>3
    <3>2. \A c \in BidderIDs : c # b => \A q \in CacheKeys : Probing(q, c) => Probing(q, c)'
      BY <2>1
    <3>. QED  BY <1>a, <2>4, <3>1, <3>2
  <2>. QED  BY <1>1, <2>2, <2>3
<1>3. ASSUME NEW k \in CacheKeys, Finish(k) PROVE ProbeHeld'
  <2>1. /\ UNCHANGED breaker
        /\ \A b \in BidderIDs : call[k][b].at \in {"none", "done"}
        /\ \A q \in CacheKeys, c \in BidderIDs : q # k => call'[q][c] = call[q][c]
    BY <1>0, <1>3, FinishEffect
  <2>2. \A q \in CacheKeys, c \in BidderIDs : Probing(q, c) => Probing(q, c)'
    BY <2>1
  <2>. QED  BY <1>a, <2>1, <2>2
<1>4. ASSUME NEW k \in CacheKeys, NEW b \in BidderIDs, CallStep(k, b) PROVE ProbeHeld'
  <2>1. /\ call[k][b].at = "leave" <=> call'[k][b].at = "done"
        /\ call'[k][b].at \in {"report", "leave", "done"}
        /\ \A q \in CacheKeys, c \in BidderIDs :
             q # k \/ c # b => call'[q][c] = call[q][c]
    BY <1>0, <1>4, CallStepEffect
  <2>2. \A q \in CacheKeys, c \in BidderIDs :
          q # k \/ c # b => (Probing(q, c) => Probing(q, c)')
    BY <2>1
  <2>3. CASE Return(k, b)
    <3>1. UNCHANGED breaker /\ call'[k][b].at = "report"
      BY <1>0, <2>3 DEF Return, TypeOK
    <3>. QED  BY <1>a, <2>2, <3>1
  <2>4. CASE Report(k, b)
    <3>1. breaker'[b].probeInFlight = FALSE
          /\ \A c \in BidderIDs : c # b => breaker'[c] = breaker[c]
      BY <1>0, <2>4 DEF Report, TypeOK, Success, Failure, NewCircuitBreaker
    <3>. QED  BY <1>a, <2>2, <3>1
  <2>5. CASE Leave(k, b)
    <3>1. UNCHANGED breaker /\ call[k][b].at = "leave"
      BY <2>5 DEF Leave
    <3>2. ~Probing(k, b)
      BY <3>1
    <3>. QED  BY <1>a, <2>2, <3>1, <3>2
  <2>. QED  BY <1>4, <2>3, <2>4, <2>5 DEF CallStep
<1>5. ASSUME NEW b \in BidderIDs, Elapse(b) PROVE ProbeHeld'
  <2>1. UNCHANGED call
        /\ \A c \in BidderIDs : breaker'[c].probeInFlight = breaker[c].probeInFlight
    BY <1>0, <1>5 DEF Elapse, TypeOK, Breakers
  <2>. QED  BY <1>a, <2>1
<1>6. ASSUME NEW a \in Auctions, Take(a) PROVE UNCHANGED <<call, breaker>>
  BY <1>6 DEF Take
<1>7. ASSUME NEW k \in CacheKeys, Acquire(k) \/ Unmark(k) PROVE UNCHANGED <<call, breaker>>
  BY <1>7 DEF Acquire, Unmark
<1>8. CASE AsideStep
  BY <1>1, <1>8, AsideEffect
<1>. QED
  BY <1>1, <1>2, <1>3, <1>4, <1>5, <1>6, <1>7, <1>8 DEF Next, JobStep, AsideStep

-----------------------------------------------------------------------------
(* Put: the cache keeps its count and its bound, only the new entry comes, *)
(* and only expired entries go.                                            *)
LEMMA PutEffect ==
  ASSUME TypeOK, StoredInv, NEW k \in CacheKeys, NEW entry \in CacheEntries, Put(k, entry)
  PROVE  /\ StoredInv' /\ count' \in Nat
         /\ entries' \in [CacheKeys -> CacheEntries \cup {Missing}]
         /\ \A q \in CacheKeys :
              \/ entries'[q] \in {entries[q], Missing}
              \/ q = k /\ entries'[q] = entry
         /\ \A q \in CacheKeys : Fresh(q) => entries'[q] # Missing
<1>0. /\ entry # Missing /\ entries \in [CacheKeys -> CacheEntries \cup {Missing}]
      /\ IsFiniteSet(Stored) /\ count = Cardinality(Stored) /\ count <= MaxKeys
      /\ count \in Nat /\ MaxKeys \in Nat
  BY EngineAssumption, Limits DEF TypeOK, StoredInv, CacheBounded
<1>1. CASE k \in Stored
  <2>1. entries' = [entries EXCEPT ![k] = entry] /\ UNCHANGED count
    BY <1>1 DEF Put
  <2>2. Stored' = Stored
    BY <1>0, <1>1, <2>1 DEF Stored
  <2>. QED  BY <1>0, <2>1, <2>2 DEF StoredInv, CacheBounded, Fresh
<1>2. CASE k \notin Stored
  <2>1. PICK V \in (IF count >= MaxKeys THEN Purge ELSE {{}}) :
          LET left == count - Cardinality(V) IN
          IF left >= MaxKeys
            THEN entries' = Without(V) /\ count' = left
            ELSE entries' = [Without(V) EXCEPT ![k] = entry] /\ count' = left + 1
    BY <1>2 DEF Put
  <2>. DEFINE left == count - Cardinality(V)
  <2>2. V \subseteq Expired /\ V \subseteq Stored /\ k \notin V
    BY <1>2, <2>1 DEF Purge, Expired
  <2>3. IsFiniteSet(Stored \ V) /\ Cardinality(Stored \ V) = left
    <3>1. Stored \cap V = V
      BY <2>2
    <3>. QED  BY <1>0, <3>1, FS_Difference
  <2>4. left \in Nat /\ left <= count
    <3>1. IsFiniteSet(V)
      BY <1>0, <2>2, FS_Subset
    <3>2. Cardinality(V) \in Nat /\ Cardinality(Stored \ V) \in Nat
      BY <2>3, <3>1, FS_CardinalityType
    <3>. QED  BY <1>0, <2>3, <3>2
  <2>5. /\ Without(V) \in [CacheKeys -> CacheEntries \cup {Missing}]
        /\ \A q \in CacheKeys : Without(V)[q] = IF q \in V THEN Missing ELSE entries[q]
    BY <1>0 DEF Without
  <2>6. \A q \in CacheKeys : Fresh(q) => q \notin V /\ entries[q] # Missing
    BY <2>2 DEF Expired, Fresh
  <2>7. CASE left >= MaxKeys
    <3>1. entries' = Without(V) /\ count' = left
      BY <2>1, <2>7
    <3>2. Stored' = Stored \ V
      BY <2>5, <3>1 DEF Stored
    <3>. QED  BY <1>0, <2>3, <2>4, <2>5, <2>6, <3>1, <3>2 DEF StoredInv, CacheBounded
  <2>8. CASE ~(left >= MaxKeys)
    <3>1. entries' = [Without(V) EXCEPT ![k] = entry] /\ count' = left + 1
      BY <2>1, <2>8
    <3>2. Stored' = (Stored \ V) \cup {k} /\ k \notin Stored \ V
      BY <1>0, <1>2, <2>5, <3>1 DEF Stored
    <3>3. IsFiniteSet(Stored') /\ Cardinality(Stored') = left + 1
      BY <2>3, <3>2, FS_AddElement
    <3>4. StoredInv' /\ count' \in Nat
      BY <1>0, <2>4, <2>8, <3>1, <3>3 DEF StoredInv, CacheBounded
    <3>. QED  BY <1>0, <2>5, <2>6, <3>1, <3>4
  <2>. QED  BY <2>7, <2>8
<1>. QED  BY <1>1, <1>2

(* The cache through every step.                                           *)
LEMMA CacheStep ==
  ASSUME EngineInv, [Next]_vars
  PROVE  /\ StoredInv' /\ CachedBidsBelong' /\ count' \in Nat
         /\ entries' \in [CacheKeys -> CacheEntries \cup {Missing}]
         /\ \A k \in CacheKeys : Fresh(k) => entries'[k] # Missing
<1>0. TypeOK /\ StoredInv /\ CachedBidsBelong /\ AnswersBelong
  BY DEF EngineInv
<1>. DEFINE P == /\ StoredInv' /\ CachedBidsBelong' /\ count' \in Nat
                 /\ entries' \in [CacheKeys -> CacheEntries \cup {Missing}]
                 /\ \A k \in CacheKeys : Fresh(k) => entries'[k] # Missing
<1>1. CASE UNCHANGED <<entries, count>>
  <2>1. StoredInv' /\ CachedBidsBelong'
    BY <1>0, <1>1 DEF StoredInv, CacheBounded, Stored, CachedBidsBelong
  <2>. QED  BY <1>0, <1>1, <2>1 DEF TypeOK, Fresh
<1>2. ASSUME NEW k \in CacheKeys, Finish(k) PROVE P
  <2>. DEFINE bids == UNION {call[k][b].bids : b \in BidderIDs}
              entry == [bids |-> bids, fresh |-> TRUE]
  <2>1. bids \in SUBSET DynamicBids
    BY <1>0 DEF TypeOK
  <2>2. Belongs(bids, k)
    BY <1>0 DEF AnswersBelong, Belongs
  <2>3. entry \in CacheEntries /\ Put(k, entry)
    BY <1>2, <2>1 DEF CacheEntries, Finish
  <2>. HIDE DEF bids
  <2>4. PICK e \in CacheEntries : Put(k, e) /\ e.bids = bids
    BY <2>3
  <2>5. /\ StoredInv' /\ count' \in Nat
        /\ entries' \in [CacheKeys -> CacheEntries \cup {Missing}]
        /\ \A q \in CacheKeys :
             \/ entries'[q] \in {entries[q], Missing}
             \/ q = k /\ entries'[q] = e
        /\ \A q \in CacheKeys : Fresh(q) => entries'[q] # Missing
    BY <1>0, <2>4, PutEffect
  <2>6. CachedBidsBelong'
    BY <1>0, <2>2, <2>4, <2>5 DEF CachedBidsBelong, Stored, Belongs
  <2>. QED  BY <2>5, <2>6
<1>3. ASSUME NEW k \in CacheKeys, Expire(k) PROVE P
  <2>1. /\ k \in Stored /\ entries[k] \in CacheEntries
        /\ entries' = [entries EXCEPT ![k].fresh = FALSE] /\ UNCHANGED count
    BY <1>0, <1>3 DEF Expire, Fresh, Stored, TypeOK
  <2>2. PICK e \in CacheEntries : e.bids = entries[k].bids
                                  /\ entries' = [entries EXCEPT ![k] = e]
    BY <2>1 DEF CacheEntries
  <2>3. entries' \in [CacheKeys -> CacheEntries \cup {Missing}] /\ e # Missing
    BY <1>0, <2>2, EngineAssumption DEF TypeOK
  <2>4. Stored' = Stored
    BY <1>0, <2>1, <2>2, <2>3 DEF Stored, TypeOK
  <2>5. \A q \in Stored : entries'[q].bids = entries[q].bids
    BY <1>0, <2>2 DEF TypeOK, Stored
  <2>6. StoredInv' /\ CachedBidsBelong'
    BY <1>0, <2>1, <2>4, <2>5 DEF StoredInv, CacheBounded, CachedBidsBelong
  <2>7. \A q \in CacheKeys : Fresh(q) => entries'[q] # Missing
    BY <2>4 DEF Stored, Fresh
  <2>. QED  BY <1>0, <2>1, <2>3, <2>6, <2>7 DEF TypeOK
<1>4. ASSUME NEW k \in CacheKeys, Acquire(k) \/ Admit(k) \/ Unmark(k)
      PROVE  UNCHANGED <<entries, count>>
  BY <1>4 DEF Acquire, Admit, Unmark, cacheVars
<1>5. ASSUME NEW k \in CacheKeys, NEW b \in BidderIDs, CallStep(k, b)
      PROVE  UNCHANGED <<entries, count>>
  BY <1>5 DEF CallStep, Return, Report, Leave, cacheVars
<1>6. ASSUME NEW a \in Auctions, Mark(a) \/ Take(a) \/ \E k \in CacheKeys : Check(a, k)
      PROVE  UNCHANGED <<entries, count>>
  BY <1>6 DEF Mark, Take, Check, cacheVars
<1>7. ASSUME FreeSlot \/ Cancel \/ (\E b \in BidderIDs : Elapse(b)) \/ UNCHANGED vars
      PROVE  UNCHANGED <<entries, count>>
  BY <1>7 DEF FreeSlot, Cancel, Elapse, cacheVars, vars
<1>. QED
  BY <1>1, <1>2, <1>3, <1>4, <1>5, <1>6, <1>7 DEF Next, JobStep

(* What a call brings has passed sanitizeDynamicBids.                      *)
LEMMA AnswersStep == EngineInv /\ [Next]_vars => AnswersBelong'
<1>. SUFFICES ASSUME EngineInv, [Next]_vars PROVE AnswersBelong'
  OBVIOUS
<1>0. TypeOK /\ CallsInOrder /\ AnswersBelong
  BY DEF EngineInv
<1>a. ASSUME \A q \in CacheKeys, c \in BidderIDs :
               call'[q][c].bids = call[q][c].bids \/ Belongs(call'[q][c].bids, q)
      PROVE  AnswersBelong'
  BY <1>0, <1>a DEF AnswersBelong
<1>1. CASE UNCHANGED call
  BY <1>a, <1>1
<1>2. ASSUME NEW k \in CacheKeys, Admit(k) PROVE AnswersBelong'
  <2>. PICK b : b = Bidders[job[k].next]
    OBVIOUS
  <2>1. /\ job[k].at = "held" /\ b \in BidderIDs
        /\ job'[k] = [at |-> "scan", next |-> job[k].next + 1]
        /\ \A q \in CacheKeys, c \in BidderIDs :
             q # k \/ c # b => call'[q][c] = call[q][c]
        /\ call'[k][b].bids = call[k][b].bids \/ UNCHANGED call
    BY <1>0, <1>2, AdmitEffect
  <2>. QED  BY <1>a, <2>1
<1>3. ASSUME NEW k \in CacheKeys, Finish(k) PROVE AnswersBelong'
  <2>1. /\ \A b \in BidderIDs : call'[k][b] = NoCall
        /\ \A q \in CacheKeys, c \in BidderIDs : q # k => call'[q][c] = call[q][c]
    BY <1>0, <1>3, FinishEffect
  <2>2. \A b \in BidderIDs : Belongs(call'[k][b].bids, k)
    BY <2>1 DEF Belongs, NoCall
  <2>. QED  BY <1>a, <2>1, <2>2
<1>4. ASSUME NEW k \in CacheKeys, NEW b \in BidderIDs, CallStep(k, b) PROVE AnswersBelong'
  <2>1. \A q \in CacheKeys, c \in BidderIDs :
          q # k \/ c # b => call'[q][c] = call[q][c]
    BY <1>0, <1>4, CallStepEffect
  <2>2. ASSUME NEW answer \in Answers PROVE Belongs(Sanitize(k, b, answer), k)
    BY DEF Belongs, Sanitize
  <2>3. call'[k][b].bids = call[k][b].bids
        \/ \E answer \in Answers : call'[k][b].bids = Sanitize(k, b, answer)
    <3>1. CASE Return(k, b)
      <4>1. CASE call' = [call EXCEPT ![k][b].at = "report"]
        BY <1>0, <4>1 DEF TypeOK
      <4>2. ASSUME NEW answer \in Answers,
                   call' = [call EXCEPT ![k][b] =
                     [at |-> "report", ok |-> TRUE, bids |-> Sanitize(k, b, answer)]]
            PROVE  call'[k][b].bids = Sanitize(k, b, answer)
        BY <1>0, <4>2 DEF TypeOK
      <4>. QED  BY <3>1, <4>1, <4>2 DEF Return
    <3>2. CASE Report(k, b)
      BY <1>0, <3>2 DEF Report, TypeOK
    <3>3. CASE Leave(k, b)
      BY <1>0, <3>3 DEF Leave, TypeOK
    <3>. QED  BY <1>4, <3>1, <3>2, <3>3 DEF CallStep
  <2>4. call'[k][b].bids = call[k][b].bids \/ Belongs(call'[k][b].bids, k)
    BY <2>2, <2>3
  <2>. QED  BY <1>a, <2>1, <2>4
<1>5. ASSUME NEW k \in CacheKeys, Acquire(k) \/ Unmark(k) PROVE UNCHANGED call
  BY <1>5 DEF Acquire, Unmark
<1>6. ASSUME NEW a \in Auctions, Take(a) PROVE UNCHANGED call
  BY <1>6 DEF Take
<1>7. CASE AsideStep \/ \E b \in BidderIDs : Elapse(b)
  BY <1>1, <1>7, AsideEffect DEF Elapse
<1>. QED
  BY <1>1, <1>2, <1>3, <1>4, <1>5, <1>6, <1>7 DEF Next, JobStep, AsideStep

-----------------------------------------------------------------------------
LEMMA BreakerType ==
  ASSUME NEW x \in Breakers
  PROVE  /\ Allow(x) \in Breakers /\ Success(x) \in Breakers /\ Failure(x) \in Breakers
         /\ [x EXCEPT !.gate = "elapsed"] \in Breakers
<1>1. Allow(x) \in Breakers
  BY DEF Allow, Breakers
<1>2. Success(x) \in Breakers
  BY Limits DEF Success, NewCircuitBreaker, Breakers
<1>3. Failure(x) \in Breakers
  BY Limits DEF Failure, Breakers
<1>4. [x EXCEPT !.gate = "elapsed"] \in Breakers
  BY DEF Breakers
<1>. QED  BY <1>1, <1>2, <1>3, <1>4

(* The type of Trigger's state.                                            *)
LEMMA TriggerType ==
  ASSUME EngineInv, [Next]_vars
  PROVE  /\ caller' \in [Auctions -> [at : {"idle"}]
                                       \cup [at : {"checked", "marked"}, key : CacheKeys]]
         /\ inflight' \subseteq CacheKeys
         /\ refreshSlots' \in 0..MaxRefreshes
         /\ ending' \in Nat
         /\ done' \in BOOLEAN
<1>0. TypeOK
  BY DEF EngineInv
<1>1. caller' \in [Auctions -> [at : {"idle"}]
                                 \cup [at : {"checked", "marked"}, key : CacheKeys]]
      /\ inflight' \subseteq CacheKeys
  <2>1. CASE UNCHANGED caller /\ inflight' \subseteq inflight
    BY <1>0, <2>1 DEF TypeOK
  <2>2. ASSUME NEW a \in Auctions, NEW k \in CacheKeys, Check(a, k)
        PROVE  /\ caller' = [caller EXCEPT ![a] = [at |-> "checked", key |-> k]]
               /\ UNCHANGED inflight
    BY <2>2 DEF Check
  <2>3. ASSUME NEW a \in Auctions, Mark(a)
        PROVE  \/ /\ caller' = [caller EXCEPT ![a] = [at |-> "idle"]]
                  /\ UNCHANGED inflight
               \/ \E k \in CacheKeys :
                    /\ caller' = [caller EXCEPT ![a] = [at |-> "marked", key |-> k]]
                    /\ inflight' = inflight \cup {k}
    <3>1. caller[a].at # "idle"
      BY <2>3 DEF Mark
    <3>. QED  BY <1>0, <2>3, <3>1, CallerType DEF Mark
  <2>4. ASSUME NEW a \in Auctions, Take(a)
        PROVE  /\ caller' = [caller EXCEPT ![a] = [at |-> "idle"]]
               /\ inflight' \subseteq inflight
    BY <2>4 DEF Take
  <2>5. ASSUME NEW k \in CacheKeys, JobStep(k) \/ Expire(k) \/ \E b \in BidderIDs : CallStep(k, b)
        PROVE  UNCHANGED caller /\ inflight' \subseteq inflight
    BY <2>5 DEF JobStep, Acquire, Admit, Finish, Unmark, Expire, CallStep, Return, Report,
                Leave, triggerVars
  <2>6. ASSUME FreeSlot \/ Cancel \/ (\E b \in BidderIDs : Elapse(b)) \/ UNCHANGED vars
        PROVE  UNCHANGED caller /\ inflight' \subseteq inflight
    BY <2>6 DEF FreeSlot, Cancel, Elapse, triggerVars, vars
  <2>7. ASSUME NEW a \in Auctions, NEW r \in [at : {"idle"}]
                                      \cup [at : {"checked", "marked"}, key : CacheKeys],
               caller' = [caller EXCEPT ![a] = r]
        PROVE  caller' \in [Auctions -> [at : {"idle"}]
                                 \cup [at : {"checked", "marked"}, key : CacheKeys]]
    BY <1>0, <2>7 DEF TypeOK
  <2>8. ASSUME NEW a \in Auctions, Mark(a) \/ Take(a) \/ \E k \in CacheKeys : Check(a, k)
        PROVE  (\E r \in [at : {"idle"}] \cup [at : {"checked", "marked"}, key : CacheKeys] :
                  caller' = [caller EXCEPT ![a] = r])
               /\ inflight' \subseteq CacheKeys
    <3>1. inflight \subseteq CacheKeys
      BY <1>0 DEF TypeOK
    <3>2. CASE Mark(a)
      BY <2>3, <3>1, <3>2
    <3>3. CASE Take(a)
      BY <2>4, <3>1, <3>3
    <3>4. CASE \E k \in CacheKeys : Check(a, k)
      BY <2>2, <3>1, <3>4
    <3>. QED  BY <2>8, <3>2, <3>3, <3>4
  <2>. QED  BY <2>1, <2>5, <2>6, <2>7, <2>8 DEF Next
<1>2. ending' \in Nat
  <2>1. UNCHANGED ending \/ ending' = ending + 1 \/ (ending > 0 /\ ending' = ending - 1)
    BY DEF Next, JobStep, CallStep, Check, Mark, Take, Acquire, Admit, Finish, Unmark, Return,
           Report, Leave, Expire, Elapse, FreeSlot, Cancel, vars
  <2>. QED  BY <1>0, <2>1 DEF TypeOK
<1>3. done' \in BOOLEAN
  <2>1. UNCHANGED done \/ done' = TRUE
    BY DEF Next, JobStep, CallStep, Check, Mark, Take, Acquire, Admit, Finish, Unmark, Return,
           Report, Leave, Expire, Elapse, FreeSlot, Cancel, vars
  <2>. QED  BY <1>0, <2>1 DEF TypeOK
<1>4. refreshSlots' \in 0..MaxRefreshes
  <2>1. SlotsInv'
    BY SlotsStep
  <2>2. Cardinality(Busy') \in Nat
    BY <2>1, FS_CardinalityType DEF SlotsInv
  <2>. QED  BY <1>2, <2>1, <2>2, Limits DEF SlotsInv, SlotsAccounted
<1>. QED  BY <1>1, <1>2, <1>3, <1>4

(* The type of the loops and of the calls.                                 *)
Jobs == [at : {"idle", "scan", "held", "unmark"}, next : 1..(Len(Bidders) + 1)]
Calls == [at : {"none", "call", "report", "leave", "done"}, ok : BOOLEAN,
          bids : SUBSET DynamicBids]

LEMMA SanitizeType ==
  ASSUME NEW k \in CacheKeys, NEW b \in BidderIDs, NEW answer \in Answers
  PROVE  Sanitize(k, b, answer) \in SUBSET DynamicBids
BY DEF Sanitize, DynamicBids

LEMMA CallMoves ==
  ASSUME NEW c \in Calls, NEW at \in {"call", "report", "leave", "done"}
  PROVE  [c EXCEPT !.at = at] \in Calls
BY DEF Calls

LEMMA LoopType ==
  ASSUME EngineInv, [Next]_vars
  PROVE  /\ job' \in [CacheKeys -> Jobs]
         /\ call' \in [CacheKeys -> [BidderIDs -> Calls]]
         /\ sem' \in [BidderIDs -> 0..MaxConcurrent]
         /\ breaker' \in [BidderIDs -> Breakers]
<1>0. /\ job \in [CacheKeys -> Jobs] /\ call \in [CacheKeys -> [BidderIDs -> Calls]]
      /\ sem \in [BidderIDs -> 0..MaxConcurrent] /\ breaker \in [BidderIDs -> Breakers]
      /\ TypeOK /\ MarksOwned /\ CallsInOrder
  BY DEF EngineInv, TypeOK, Jobs, Calls
<1>1. job' \in [CacheKeys -> Jobs]
  <2>1. ASSUME NEW k \in CacheKeys, NEW r \in Jobs, job' = [job EXCEPT ![k] = r]
        PROVE  job' \in [CacheKeys -> Jobs]
    BY <1>0, <2>1
  <2>2. ASSUME NEW a \in Auctions, Take(a)
        PROVE  UNCHANGED job \/ \E k \in CacheKeys, r \in Jobs : job' = [job EXCEPT ![k] = r]
    <3>1. caller[a].at = "marked"
      BY <2>2 DEF Take
    <3>2. caller[a].key \in CacheKeys
      BY <1>0, <3>1, CallerType
    <3>3. [at |-> "scan", next |-> 1] \in Jobs
      BY Limits DEF Jobs
    <3>. QED  BY <2>2, <3>2, <3>3 DEF Take
  <2>3. ASSUME NEW k \in CacheKeys, JobStep(k)
        PROVE  \E r \in Jobs : job' = [job EXCEPT ![k] = r]
    <3>1. CASE Acquire(k)
      <4>1. job[k].next \in 1..Len(Bidders)
        BY <1>0, <3>1, NextBidder, Limits DEF Acquire, Scanning
      <4>2. \/ job' = [job EXCEPT ![k].at = "held"]
            \/ job' = [job EXCEPT ![k].next = @ + 1]
        BY <3>1 DEF Acquire
      <4>3. [job[k] EXCEPT !.at = "held"] \in Jobs
            /\ [job[k] EXCEPT !.next = @ + 1] \in Jobs
        BY <1>0, <4>1, Limits DEF Jobs
      <4>. QED  BY <4>2, <4>3
    <3>2. CASE Admit(k)
      <4>1. job[k].next \in 1..Len(Bidders)
        BY <1>0, <3>2, Limits DEF Admit, CallsInOrder
      <4>2. [at |-> "scan", next |-> job[k].next + 1] \in Jobs
        BY <4>1, Limits DEF Jobs
      <4>. QED  BY <3>2, <4>2 DEF Admit
    <3>3. CASE Finish(k)
      <4>1. [job[k] EXCEPT !.at = "unmark"] \in Jobs
        BY <1>0 DEF Jobs
      <4>. QED  BY <3>3, <4>1 DEF Finish
    <3>4. CASE Unmark(k)
      <4>1. NoJob \in Jobs
        BY Limits DEF NoJob, Jobs
      <4>. QED  BY <3>4, <4>1 DEF Unmark
    <3>. QED  BY <2>3, <3>1, <3>2, <3>3, <3>4 DEF JobStep
  <2>4. ASSUME NEW k \in CacheKeys, NEW b \in BidderIDs, CallStep(k, b) PROVE UNCHANGED job
    BY <2>4 DEF CallStep, Return, Report, Leave
  <2>5. CASE AsideStep \/ \E b \in BidderIDs : Elapse(b)
    BY <1>0, <2>5, AsideEffect DEF Elapse
  <2>. QED  BY <1>0, <2>1, <2>2, <2>3, <2>4, <2>5 DEF Next, AsideStep
<1>2. call' \in [CacheKeys -> [BidderIDs -> Calls]]
  <2>1. ASSUME NEW k \in CacheKeys, NEW b \in BidderIDs, NEW r \in Calls,
               call' = [call EXCEPT ![k][b] = r]
        PROVE  call' \in [CacheKeys -> [BidderIDs -> Calls]]
    BY <1>0, <2>1
  <2>2. ASSUME NEW k \in CacheKeys, NEW b \in BidderIDs
        PROVE  \A at \in {"call", "report", "leave", "done"} :
                 [call[k][b] EXCEPT !.at = at] \in Calls
    <3>1. call[k][b] \in Calls
      BY <1>0
    <3>. QED  BY <3>1, CallMoves
  <2>3. ASSUME NEW k \in CacheKeys, Admit(k) PROVE call' \in [CacheKeys -> [BidderIDs -> Calls]]
    <3>. PICK b : b = Bidders[job[k].next]
      OBVIOUS
    <3>1. b \in BidderIDs
      BY <1>0, <2>3, Limits DEF Admit, CallsInOrder
    <3>2. UNCHANGED call
          \/ call' = [call EXCEPT ![k][b] = [call[k][b] EXCEPT !.at = "call"]]
      BY <2>3 DEF Admit
    <3>3. PICK r \in Calls : r = [call[k][b] EXCEPT !.at = "call"]
      BY <2>2, <3>1
    <3>4. CASE UNCHANGED call
      BY <1>0, <3>4
    <3>5. CASE call' = [call EXCEPT ![k][b] = r]
      BY <2>1, <3>1, <3>5
    <3>. QED  BY <3>2, <3>3, <3>4, <3>5
  <2>4. ASSUME NEW k \in CacheKeys, NEW b \in BidderIDs, CallStep(k, b)
        PROVE  \E r \in Calls : call' = [call EXCEPT ![k][b] = r]
    <3>1. ASSUME NEW answer \in Answers
          PROVE  [at |-> "report", ok |-> TRUE, bids |-> Sanitize(k, b, answer)] \in Calls
      BY SanitizeType DEF Calls
    <3>2. CASE Return(k, b)
      BY <2>2, <3>1, <3>2 DEF Return
    <3>3. CASE Report(k, b)
      BY <2>2, <3>3 DEF Report
    <3>4. CASE Leave(k, b)
      BY <2>2, <3>4 DEF Leave
    <3>. QED  BY <2>4, <3>2, <3>3, <3>4 DEF CallStep
  <2>5. ASSUME NEW k \in CacheKeys, Finish(k) PROVE call' \in [CacheKeys -> [BidderIDs -> Calls]]
    <3>1. [b \in BidderIDs |-> NoCall] \in [BidderIDs -> Calls]
      BY DEF NoCall, Calls
    <3>. QED  BY <1>0, <2>5, <3>1 DEF Finish
  <2>6. ASSUME NEW k \in CacheKeys, Acquire(k) \/ Unmark(k) PROVE UNCHANGED call
    BY <2>6 DEF Acquire, Unmark
  <2>7. ASSUME NEW a \in Auctions, Take(a) PROVE UNCHANGED call
    BY <2>7 DEF Take
  <2>8. CASE AsideStep \/ \E b \in BidderIDs : Elapse(b)
    BY <1>0, <2>8, AsideEffect DEF Elapse
  <2>. QED  BY <1>0, <2>1, <2>3, <2>4, <2>5, <2>6, <2>7, <2>8 DEF Next, JobStep, AsideStep
<1>3. sem' \in [BidderIDs -> 0..MaxConcurrent]
  <2>1. ASSUME NEW b \in BidderIDs, sem' = [sem EXCEPT ![b] = @ - 1]
        PROVE  sem' \in [BidderIDs -> 0..MaxConcurrent]
    <3>1. PlacesInv'
      BY PlacesStep
    <3>2. sem'[b] \in Nat
      <4>1. IsFiniteSet(Occupants(b)') /\ sem'[b] = Cardinality(Occupants(b)')
        BY <3>1 DEF PlacesInv
      <4>. QED  BY <4>1, FS_CardinalityType
    <3>. QED  BY <1>0, <2>1, <3>2, Limits
  <2>2. ASSUME NEW k \in CacheKeys, Acquire(k) PROVE sem' \in [BidderIDs -> 0..MaxConcurrent]
    <3>. PICK b : b = Bidders[job[k].next]
      OBVIOUS
    <3>1. b \in BidderIDs
      BY <1>0, <2>2, NextBidder DEF Acquire, Scanning
    <3>2. UNCHANGED sem \/ (sem[b] < MaxConcurrent /\ sem' = [sem EXCEPT ![b] = @ + 1])
      BY <2>2 DEF Acquire
    <3>. QED  BY <1>0, <3>1, <3>2, Limits
  <2>3. ASSUME NEW k \in CacheKeys, Admit(k) PROVE sem' \in [BidderIDs -> 0..MaxConcurrent]
    <3>. PICK b : b = Bidders[job[k].next]
      OBVIOUS
    <3>1. b \in BidderIDs
      BY <1>0, <2>3, Limits DEF Admit, CallsInOrder
    <3>2. UNCHANGED sem \/ sem' = [sem EXCEPT ![b] = @ - 1]
      BY <2>3 DEF Admit
    <3>. QED  BY <1>0, <2>1, <3>1, <3>2
  <2>4. ASSUME NEW k \in CacheKeys, NEW b \in BidderIDs, CallStep(k, b)
        PROVE  UNCHANGED sem \/ sem' = [sem EXCEPT ![b] = @ - 1]
    BY <2>4 DEF CallStep, Return, Report, Leave
  <2>5. ASSUME NEW k \in CacheKeys, Finish(k) \/ Unmark(k) PROVE UNCHANGED sem
    BY <2>5 DEF Finish, Unmark
  <2>6. ASSUME NEW a \in Auctions, Take(a) PROVE UNCHANGED sem
    BY <2>6 DEF Take
  <2>7. CASE AsideStep \/ \E b \in BidderIDs : Elapse(b)
    BY <1>0, <2>7, AsideEffect DEF Elapse
  <2>. QED  BY <1>0, <2>1, <2>2, <2>3, <2>4, <2>5, <2>6, <2>7 DEF Next, JobStep, AsideStep
<1>4. breaker' \in [BidderIDs -> Breakers]
  <2>1. ASSUME NEW b \in BidderIDs, NEW x \in Breakers, breaker' = [breaker EXCEPT ![b] = x]
        PROVE  breaker' \in [BidderIDs -> Breakers]
    BY <1>0, <2>1
  <2>2. ASSUME NEW k \in CacheKeys, Admit(k)
        PROVE  UNCHANGED breaker
               \/ \E b \in BidderIDs, x \in Breakers : breaker' = [breaker EXCEPT ![b] = x]
    <3>. PICK b : b = Bidders[job[k].next]
      OBVIOUS
    <3>1. b \in BidderIDs
      BY <1>0, <2>2, Limits DEF Admit, CallsInOrder
    <3>2. UNCHANGED breaker \/ breaker' = [breaker EXCEPT ![b] = Allow(@)]
      BY <2>2 DEF Admit
    <3>. QED  BY <1>0, <3>1, <3>2, BreakerType
  <2>3. ASSUME NEW k \in CacheKeys, NEW b \in BidderIDs, CallStep(k, b)
        PROVE  UNCHANGED breaker \/ \E x \in Breakers : breaker' = [breaker EXCEPT ![b] = x]
    <3>1. UNCHANGED breaker \/ breaker' = [breaker EXCEPT ![b] = Success(@)]
            \/ breaker' = [breaker EXCEPT ![b] = Failure(@)]
      BY <2>3 DEF CallStep, Return, Report, Leave
    <3>. QED  BY <1>0, <3>1, BreakerType
  <2>4. ASSUME NEW b \in BidderIDs, Elapse(b)
        PROVE  \E x \in Breakers : breaker' = [breaker EXCEPT ![b] = x]
    BY <1>0, <2>4, BreakerType DEF Elapse
  <2>5. ASSUME NEW k \in CacheKeys, Acquire(k) \/ Finish(k) \/ Unmark(k) PROVE UNCHANGED breaker
    BY <2>5 DEF Acquire, Finish, Unmark
  <2>6. ASSUME NEW a \in Auctions, Take(a) PROVE UNCHANGED breaker
    BY <2>6 DEF Take
  <2>7. CASE AsideStep
    BY <1>0, <2>7, AsideEffect
  <2>. QED  BY <1>0, <2>1, <2>2, <2>3, <2>4, <2>5, <2>6, <2>7 DEF Next, JobStep, AsideStep
<1>. QED  BY <1>1, <1>2, <1>3, <1>4

-----------------------------------------------------------------------------
LEMMA EngineInvStep == EngineInv /\ [Next]_vars => EngineInv'
<1>. SUFFICES ASSUME EngineInv, [Next]_vars PROVE EngineInv'
  OBVIOUS
<1>1. TypeOK'
  <2>1. /\ caller' \in [Auctions -> [at : {"idle"}]
                                      \cup [at : {"checked", "marked"}, key : CacheKeys]]
        /\ inflight' \subseteq CacheKeys
        /\ refreshSlots' \in 0..MaxRefreshes
        /\ ending' \in Nat
        /\ done' \in BOOLEAN
    BY TriggerType
  <2>2. /\ job' \in [CacheKeys -> Jobs] /\ call' \in [CacheKeys -> [BidderIDs -> Calls]]
        /\ sem' \in [BidderIDs -> 0..MaxConcurrent] /\ breaker' \in [BidderIDs -> Breakers]
    BY LoopType
  <2>3. /\ entries' \in [CacheKeys -> CacheEntries \cup {Missing}] /\ count' \in Nat
    BY CacheStep
  <2>. QED  BY <2>1, <2>2, <2>3 DEF TypeOK, Jobs, Calls
<1>2. MarksOwned' /\ SlotsInv' /\ CallsInOrder' /\ PlacesInv' /\ FanoutInv'
  BY MarksStep, SlotsStep, CallsStep, PlacesStep, FanoutStep
<1>3. ProbeHeld' /\ StoredInv' /\ AnswersBelong' /\ CachedBidsBelong'
  BY ProbeStep, CacheStep, AnswersStep
<1>. QED  BY <1>1, <1>2, <1>3 DEF EngineInv

(***************************************************************************)
(* The inductive invariant of the engine: Trigger, the refresh loop, the   *)
(* goroutines of the calls, Put and the circuit breakers keep their books  *)
(* consistent in every interleaving.                                       *)
(***************************************************************************)
THEOREM EngineSafety == Spec => []EngineInv
<1>1. Init => EngineInv
  BY EngineInvInit
<1>2. EngineInv /\ [Next]_vars => EngineInv'
  BY EngineInvStep
<1>. QED  BY <1>1, <1>2, PTL DEF Spec

(* The state of the engine keeps its types: no slot, no place of a bidder  *)
(* and no failure counter leaves its range.                                *)
THEOREM EngineTypeOK == Spec => []TypeOK
<1>1. EngineInv => TypeOK
  BY DEF EngineInv
<1>. QED  BY <1>1, EngineSafety, PTL

(***************************************************************************)
(* The inflight mark that Trigger sets with LoadOrStore has exactly one    *)
(* owner until refresh deletes it: a key is never refreshed twice at once. *)
(***************************************************************************)
THEOREM RefreshesAreSingle == Spec => []SingleFlight
<1>1. ASSUME EngineInv PROVE SingleFlight
  <2>. SUFFICES ASSUME NEW k \in CacheKeys
                PROVE  Cardinality(Owners(k)) = IF k \in inflight THEN 1 ELSE 0
    BY DEF SingleFlight
  <2>0. MarksOwned
    BY <1>1 DEF EngineInv
  <2>1. CASE job[k].at # "idle"
    <3>1. k \in inflight /\ Owners(k) = {"job"}
      BY <2>0, <2>1 DEF MarksOwned, Marked, Owners
    <3>. QED  BY <3>1, FS_Singleton
  <2>2. CASE job[k].at = "idle" /\ k \in inflight
    <3>1. PICK a \in Auctions : Marked(a, k)
      BY <2>0, <2>2 DEF MarksOwned
    <3>2. Owners(k) = {a}
      BY <2>0, <2>2, <3>1 DEF MarksOwned, Marked, Owners
    <3>. QED  BY <2>2, <3>2, FS_Singleton
  <2>3. CASE job[k].at = "idle" /\ k \notin inflight
    <3>1. Owners(k) = {}
      BY <2>0, <2>3 DEF MarksOwned, Marked, Owners
    <3>. QED  BY <2>3, <3>1, FS_EmptySet
  <2>. QED  BY <2>1, <2>2, <2>3
<1>. QED  BY <1>1, EngineSafety, PTL

(***************************************************************************)
(* The refresh slots that Trigger takes are those of the goroutines that   *)
(* exist, and their number respects MaxConcurrentRefreshes.                *)
(***************************************************************************)
THEOREM SlotsAreAccounted == Spec => []SlotsAccounted
<1>1. EngineInv => SlotsAccounted
  BY DEF EngineInv, SlotsInv
<1>. QED  BY <1>1, EngineSafety, PTL

(***************************************************************************)
(* The semaphore of a bidder counts the refreshes that hold a place or     *)
(* have a call under way, and no refresh makes more than MaxFanout calls.  *)
(***************************************************************************)
THEOREM CallsAreBounded == Spec => []CallsBounded
<1>1. EngineInv => CallsBounded
  BY DEF EngineInv, PlacesInv, FanoutInv, CallsBounded
<1>. QED  BY <1>1, EngineSafety, PTL

(***************************************************************************)
(* A half-open circuit always has a call that will end its probe: Allow    *)
(* comes after the place of the bidder is taken, and every call reports.   *)
(***************************************************************************)
THEOREM ProbesAreHeld == Spec => []ProbeHeld
<1>1. EngineInv => ProbeHeld
  BY DEF EngineInv
<1>. QED  BY <1>1, EngineSafety, PTL

(***************************************************************************)
(* The counter that Put compares with its limit is the number of entries,  *)
(* and never exceeds the limit.                                            *)
(***************************************************************************)
THEOREM CacheIsBounded == Spec => []CacheBounded
<1>1. EngineInv => CacheBounded
  BY DEF EngineInv, StoredInv
<1>. QED  BY <1>1, EngineSafety, PTL

(***************************************************************************)
(* What sanitizeDynamicBids and Put leave under a key is for the placement *)
(* of the key and without a priority.                                      *)
(***************************************************************************)
THEOREM CacheHoldsOwnBids == Spec => []CachedBidsBelong
<1>1. EngineInv => CachedBidsBelong
  BY DEF EngineInv
<1>. QED  BY <1>1, EngineSafety, PTL

(***************************************************************************)
(* The sweep of Put over a full cache removes no entry that is fresh, and  *)
(* neither does any other step.                                            *)
(***************************************************************************)
THEOREM FreshIsKept == Spec => FreshNotEvicted
<1>. DEFINE Keeps == \A k \in CacheKeys : Fresh(k) => entries'[k] # Missing
<1>1. EngineInv /\ [Next]_vars => Keeps
  BY CacheStep
<1>2. Spec => [][Keeps]_vars
  <2>. HIDE DEF Keeps
  <2>. QED  BY <1>1, EngineSafety, PTL DEF Spec
<1>. QED  BY <1>2 DEF FreshNotEvicted
=============================================================================
