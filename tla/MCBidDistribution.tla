------------------------- MODULE MCBidDistribution --------------------------
(***************************************************************************)
(* Instances of BidDistribution for TLC.                                   *)
(***************************************************************************)
EXTENDS BidDistribution, TLC

CONSTANTS b1, x, y, h1, h2, s1

On(p, r, c) == [placement |-> p, id |-> b1, rev |-> r, content |-> c]

(* An upsert and the delete of the same bid.                               *)
UpsertDelete == {On(1, 1, x), On(1, 2, Absent)}

(* Bids of two placements.                                                 *)
TwoPlacements == {On(1, 1, x), On(2, 1, y)}

(* An upsert and its delete, and a bid of another placement.               *)
Three == UpsertDelete \cup TwoPlacements

(* h1 runs on the modelled server, h2 on another one.                      *)
OneHere == h1 :> s1 @@ h2 :> Elsewhere

(* Both run on other servers.                                              *)
NoneHere == h1 :> Elsewhere @@ h2 :> Elsewhere
=============================================================================
