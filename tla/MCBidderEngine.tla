--------------------------- MODULE MCBidderEngine ---------------------------
(***************************************************************************)
(* Instances of BidderEngine for TLC.                                      *)
(***************************************************************************)
EXTENDS BidderEngine, TLC

CONSTANTS k1, k2, d1, d2, a1, a2

OneBidder == <<d1>>
TwoBidders == <<d1, d2>>

(* The two keys ask for different placements.                              *)
OwnPlacement == [k \in CacheKeys |-> k]

Bid(p, priority, valid) == [placement |-> p, priority |-> priority, valid |-> valid]

(* One answer: a deal for placement k1, and an invalid bid.                *)
OneAnswer == {{Bid(k1, 7, TRUE), Bid(k1, 0, FALSE)}}

AuctionSymmetry == Permutations(Auctions)
=============================================================================
