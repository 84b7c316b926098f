----------------------------- MODULE MCAuction ------------------------------
(***************************************************************************)
(* An instance of Auction for TLC: small sets of bids chosen so that ties, *)
(* priorities, floors, windows, targeting, pacing down to zero and sums    *)
(* beyond the largest integer all occur, in snapshots and in DSP results.  *)
(***************************************************************************)
EXTENDS Auction, FiniteSetsExt, SequencesExt

Offer(id, price, pacing, priority) ==
  [id |-> id, bidder |-> 0, price |-> price, pacing |-> pacing, floor |-> 0,
   priority |-> priority, from |-> 0, to |-> 0, countries |-> {}, devices |-> {}]

(* Snapshot bids: open market and one deal, with every kind of restriction.*)
Offers ==
  {Offer(1, 3, BPS, 0),
   [Offer(2, 6, BPS, 0) EXCEPT !.countries = {"de"}],
   [Offer(3, 7, 2, 0) EXCEPT !.floor = 3],
   [Offer(4, 2, BPS, 1) EXCEPT !.from = 1, !.to = 2],
   Offer(5, 1, 1, 0),
   [Offer(6, 2, BPS, 1) EXCEPT !.devices = {"tv"}]}

(* DSP bids: IDs sort among the others, priority is always zero.           *)
DynamicOffers ==
  {[Offer(1, 3, BPS, 0) EXCEPT !.bidder = 1],
   [Offer(0, 6, 3, 0) EXCEPT !.bidder = 2],
   [Offer(7, 1, 2, 0) EXCEPT !.bidder = 2]}

SmallSnapshots ==
  {SetToSortSeq(S, RanksAhead) : S \in UNION {kSubset(n, Offers) : n \in 0..3}}

AllInputs ==
  [policy : [model : {"first_price", "second_price"}, increment : {1, MaxInt},
             rejectStale : {FALSE}],
   query : [floor : {0, 2}, country : {"de"}, device : {"tv"}, now : {1}]
           \cup [floor : {0}, country : {"fr"}, device : {"pc"}, now : {2}],
   found : {TRUE}, stale : {FALSE},
   bids : SmallSnapshots, dynamic : BoundedSeq(DynamicOffers, 2)]
  \cup
  [policy : [model : {"second_price"}, increment : {0}, rejectStale : BOOLEAN],
   query : [floor : {0}, country : {"de"}, device : {"tv"}, now : {1}],
   found : {TRUE}, stale : {TRUE},
   bids : SmallSnapshots, dynamic : {<<>>}]
  \cup
  [policy : [model : {"second_price"}, increment : {0}, rejectStale : {TRUE}],
   query : [floor : {0}, country : {"de"}, device : {"tv"}, now : {1}],
   found : {FALSE}, stale : {FALSE}, bids : {<<>>}, dynamic : BoundedSeq(DynamicOffers, 1)]
=============================================================================
