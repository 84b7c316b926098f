------------------------------ MODULE Auction -------------------------------
(***************************************************************************)
(* One auction: Auctioneer.run of internal/ads/auction.go.  The bids of    *)
(* the placement's snapshot and the cached DSP bids are considered one by  *)
(* one; an accumulator keeps the best bid so far, the price of the next    *)
(* one in its priority, and the number of eligible bids.                   *)
(***************************************************************************)
EXTENDS Integers, Sequences

CONSTANTS
  Inputs,     \* auctions: policy, request, time, snapshot and DSP bids
  Countries,  \* country codes
  Devices,    \* device names
  BPS,        \* basis points in a whole (10_000)
  MaxInt      \* the largest int64

(***************************************************************************)
(* Bid IDs are numbered in string order.  bidder is 0 for a bid of the     *)
(* snapshot.  A window bound of 0 is no bound; so is an empty target set.  *)
(***************************************************************************)
Bids == [id : Nat, bidder : Nat, price : Nat, pacing : Nat, floor : Nat,
         priority : Nat, from : Nat, to : Nat,
         countries : SUBSET Countries, devices : SUBSET Devices]

Valid(b) ==
  /\ b.price > 0 /\ b.price <= MaxInt /\ b.floor <= b.price
  /\ b.to # 0 => b.from <= b.to
  /\ b.pacing \in 1..BPS
  /\ b.bidder # 0 => b.priority = 0

Policies == [model : {"first_price", "second_price"}, increment : 0..MaxInt,
             rejectStale : BOOLEAN]

Queries == [floor : 0..MaxInt, country : Countries, device : Devices, now : Nat]

-----------------------------------------------------------------------------
Larger(a, b) == IF a < b THEN b ELSE a

(* Slip: int64 multiplication before the division.                         *)
EffectivePriceOverflows(b) ==
  (((b.price * b.pacing + MaxInt + 1) % (2 * (MaxInt + 1))) - (MaxInt + 1)) \div BPS

EffectivePrice(b) ==
  (b.price \div BPS) * b.pacing + ((b.price % BPS) * b.pacing) \div BPS

Matches(allowed, value) == allowed = {} \/ value \in allowed

Eligible(b, q) ==
  /\ EffectivePrice(b) >= Larger(q.floor, b.floor)
  /\ b.from # 0 => q.now >= b.from
  /\ b.to # 0 => q.now < b.to
  /\ Matches(b.countries, q.country)
  /\ Matches(b.devices, q.device)

(* Slip: the price decides before the priority.                            *)
RanksAheadByPrice(c, w) ==
  \/ EffectivePrice(c) > EffectivePrice(w)
  \/ EffectivePrice(c) = EffectivePrice(w) /\ c.id < w.id

RanksAhead(c, w) ==
  \/ c.priority > w.priority
  \/ /\ c.priority = w.priority
     /\ \/ EffectivePrice(c) > EffectivePrice(w)
        \/ EffectivePrice(c) = EffectivePrice(w) /\ c.id < w.id

(* int64 addition.                                                         *)
Add(a, b) == IF a + b > MaxInt THEN a + b - 2 * (MaxInt + 1) ELSE a + b

(* Slip: the sum is not checked for overflow.                              *)
ClearingPriceUnchecked(policy, w, price, next, q) ==
  LET floor == Larger(q.floor, w.floor)
      second == Add(next, policy.increment)
  IN  IF policy.model = "first_price" THEN price
      ELSE IF next = 0 THEN floor
      ELSE IF second > price THEN price ELSE Larger(floor, second)

(* Slip: the sum is not capped by the price of the winner.                 *)
ClearingPriceUncapped(policy, w, price, next, q) ==
  IF policy.model = "first_price" THEN price
  ELSE IF next = 0 THEN Larger(q.floor, w.floor)
  ELSE Larger(Larger(q.floor, w.floor), Add(next, policy.increment))

ClearingPrice(policy, w, price, next, q) ==
  LET floor == Larger(q.floor, w.floor)
      second == Add(next, policy.increment)
      capped == IF second < next \/ second > price THEN price ELSE second
  IN  IF policy.model = "first_price" THEN price
      ELSE IF next = 0 THEN floor
      ELSE Larger(floor, capped)

-----------------------------------------------------------------------------
(* The snapshot is sorted by sortBids; DSP bids come in any order.         *)
Sorted(bids) ==
  \A i, j \in DOMAIN bids : i < j => ~RanksAhead(bids[j], bids[i])

InputType == [policy : Policies, query : Queries, found : BOOLEAN,
              stale : BOOLEAN, bids : Seq(Bids), dynamic : Seq(Bids)]

ASSUME AuctionAssumption ==
  /\ BPS \in Nat \ {0}
  /\ MaxInt \in Nat \ {0}
  /\ \A in \in Inputs : /\ in \in InputType
                        /\ \A i \in DOMAIN in.bids : Valid(in.bids[i])
                        /\ \A i \in DOMAIN in.dynamic : Valid(in.dynamic[i])
                        /\ Sorted(in.bids)

-----------------------------------------------------------------------------
VARIABLES
  input,          \* the auction
  phase,          \* "get", "consider", "done"
  pos,            \* the next bid to consider
  winner,         \* the position of the best bid so far, 0 if there is none
  winnerPrice,
  runnerUpPrice,
  candidates,
  asked,          \* RefreshAsync was called
  decision        \* the AuctionDecision

vars == <<input, phase, pos, winner, winnerPrice, runnerUpPrice, candidates,
          asked, decision>>

Cands == input.bids \o input.dynamic

NoDecision == [reason |-> "", filled |-> FALSE, effective |-> 0, clearing |-> 0,
               candidates |-> 0, servedStale |-> FALSE, bidder |-> 0]
NoBid(reason) == [NoDecision EXCEPT !.reason = reason]

Init ==
  /\ input \in Inputs
  /\ phase = "get"
  /\ pos = 1
  /\ winner = 0 /\ winnerPrice = 0 /\ runnerUpPrice = 0 /\ candidates = 0
  /\ asked = FALSE
  /\ decision = NoDecision

(* The snapshot is read; a missing or stale one is refreshed for later.    *)
Get ==
  /\ phase = "get"
  /\ asked' = (~input.found \/ input.stale)
  /\ \/ /\ ~input.found
        /\ phase' = "done"
        /\ decision' = NoBid("cold_cache")
     \/ /\ input.found /\ input.stale /\ input.policy.rejectStale
        /\ phase' = "done"
        /\ decision' = NoBid("stale_snapshot")
     \/ /\ input.found /\ ~(input.stale /\ input.policy.rejectStale)
        /\ phase' = "consider"
        /\ UNCHANGED decision
  /\ UNCHANGED <<input, pos, winner, winnerPrice, runnerUpPrice, candidates>>

(* Slip: the price of the old winner is lost.                              *)
PromoteForgets(b) ==
  /\ winner' = pos
  /\ winnerPrice' = EffectivePrice(b)
  /\ UNCHANGED runnerUpPrice

(* The bid becomes the winner; the old one is next if it shares priority.  *)
Promote(b) ==
  /\ winner' = pos
  /\ winnerPrice' = EffectivePrice(b)
  /\ runnerUpPrice' = IF winner # 0 /\ b.priority = Cands[winner].priority
                        THEN winnerPrice ELSE 0

(* Slip: the increment is added already here.                              *)
RunnerUpIncremented(b) ==
  /\ runnerUpPrice' = IF b.priority = Cands[winner].priority
                         /\ EffectivePrice(b) > runnerUpPrice
                        THEN EffectivePrice(b) + input.policy.increment
                        ELSE runnerUpPrice
  /\ UNCHANGED <<winner, winnerPrice>>

RunnerUp(b) ==
  /\ runnerUpPrice' = IF b.priority = Cands[winner].priority
                         /\ EffectivePrice(b) > runnerUpPrice
                        THEN EffectivePrice(b) ELSE runnerUpPrice
  /\ UNCHANGED <<winner, winnerPrice>>

Consider ==
  /\ phase = "consider"
  /\ pos <= Len(Cands)
  /\ LET b == Cands[pos] IN
       IF Eligible(b, input.query)
         THEN /\ candidates' = candidates + 1
              /\ IF winner = 0 \/ RanksAhead(b, Cands[winner])
                   THEN Promote(b) ELSE RunnerUp(b)
         ELSE UNCHANGED <<winner, winnerPrice, runnerUpPrice, candidates>>
  /\ pos' = pos + 1
  /\ UNCHANGED <<input, phase, asked, decision>>

Decide ==
  /\ phase = "consider"
  /\ pos > Len(Cands)
  /\ phase' = "done"
  /\ decision' =
       IF winner = 0
         THEN [NoBid("no_eligible_bid") EXCEPT !.candidates = candidates,
                                               !.servedStale = input.stale]
         ELSE [reason |-> "", filled |-> TRUE,
               effective |-> winnerPrice,
               clearing |-> ClearingPrice(input.policy, Cands[winner], winnerPrice,
                                          runnerUpPrice, input.query),
               candidates |-> candidates,
               servedStale |-> input.stale,
               bidder |-> Cands[winner].bidder]
  /\ UNCHANGED <<input, pos, winner, winnerPrice, runnerUpPrice, candidates, asked>>

Next == Get \/ Consider \/ Decide

Spec == Init /\ [][Next]_vars

-----------------------------------------------------------------------------
TypeOK ==
  /\ input \in Inputs
  /\ phase \in {"get", "consider", "done"}
  /\ pos \in 1..(Len(Cands) + 1)
  /\ winner \in 0..Len(Cands)
  /\ winnerPrice \in 0..MaxInt
  /\ runnerUpPrice \in 0..MaxInt
  /\ candidates \in 0..Len(Cands)
  /\ asked \in BOOLEAN

(* The eligible bids among the first n.                                    *)
EligibleUpTo(n) == {i \in 1..n : i <= Len(Cands) /\ Eligible(Cands[i], input.query)}

(* The other eligible bids in the priority of the winner.                  *)
Rivals == {i \in EligibleUpTo(pos - 1) :
             i # winner /\ Cands[i].priority = Cands[winner].priority}

(* Bid i comes no later than bid j in the order the documentation gives.   *)
AtLeast(i, j) ==
  /\ Cands[i].priority >= Cands[j].priority
  /\ Cands[i].priority = Cands[j].priority =>
       /\ EffectivePrice(Cands[i]) >= EffectivePrice(Cands[j])
       /\ EffectivePrice(Cands[i]) = EffectivePrice(Cands[j]) =>
            Cands[i].id <= Cands[j].id

(***************************************************************************)
(* The accumulator has the best eligible bid among those considered so far *)
(* - highest priority, then highest effective price, then smallest ID -    *)
(* whatever the order in which the bids came; it has none only if none was *)
(* eligible.                                                               *)
(***************************************************************************)
WinnerIsBest ==
  IF winner = 0 THEN EligibleUpTo(pos - 1) = {}
  ELSE /\ winner \in EligibleUpTo(pos - 1)
       /\ winnerPrice = EffectivePrice(Cands[winner])
       /\ \A i \in EligibleUpTo(pos - 1) : AtLeast(winner, i)

(***************************************************************************)
(* The accumulator has the price of the second best bid in the priority of *)
(* the winner, although it forgets the bids themselves and the winner      *)
(* changes on the way; it is 0 when the winner is alone in its priority.   *)
(***************************************************************************)
RunnerUpIsNext ==
  winner # 0 =>
    /\ \A i \in Rivals : EffectivePrice(Cands[i]) <= runnerUpPrice
    /\ runnerUpPrice # 0 => \E i \in Rivals : EffectivePrice(Cands[i]) = runnerUpPrice
    /\ runnerUpPrice <= winnerPrice

(***************************************************************************)
(* A filled auction clears at no less than the floors of the request and   *)
(* of the bid and at no more than the winner's effective price, also when  *)
(* the next price plus the increment leaves the range of int64.            *)
(***************************************************************************)
ClearingBounded ==
  decision.filled =>
    /\ decision.clearing >= Larger(input.query.floor, Cands[winner].floor)
    /\ decision.clearing <= decision.effective

(***************************************************************************)
(* Effective prices are the paced prices rounded down, although the code   *)
(* divides before it multiplies: what a winner pays never exceeds its bid. *)
(***************************************************************************)
PacedPrice ==
  decision.filled =>
    LET b == Cands[winner] IN
      /\ decision.effective = (b.price * b.pacing) \div BPS
      /\ decision.clearing <= b.price

(* The price second-price clearing promises when there is a next bid.      *)
NextPrice(i) ==
  LET floor == Larger(input.query.floor, Cands[winner].floor)
      second == EffectivePrice(Cands[i]) + input.policy.increment
  IN  Larger(floor, IF second > winnerPrice THEN winnerPrice ELSE second)

(***************************************************************************)
(* Second-price clearing uses the next bid in the winner's priority        *)
(* (docs/architecture.md), adds the increment, and stays within the floor  *)
(* and the winner's price.                                                 *)
(***************************************************************************)
NextBidSetsPrice ==
  (decision.filled /\ input.policy.model = "second_price") =>
    \A i \in Rivals :
      (\A j \in Rivals : EffectivePrice(Cands[j]) <= EffectivePrice(Cands[i]))
        => decision.clearing = NextPrice(i)

(***************************************************************************)
(* The same, for a next bid whose effective price is not zero.             *)
(***************************************************************************)
PricedNextBidSetsPrice ==
  (decision.filled /\ input.policy.model = "second_price") =>
    \A i \in Rivals :
      (/\ EffectivePrice(Cands[i]) # 0
       /\ \A j \in Rivals : EffectivePrice(Cands[j]) <= EffectivePrice(Cands[i]))
        => decision.clearing = NextPrice(i)
=============================================================================
