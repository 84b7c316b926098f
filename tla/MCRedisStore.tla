---------------------------- MODULE MCRedisStore ----------------------------
(***************************************************************************)
(* Instances of RedisStore for TLC.                                        *)
(***************************************************************************)
EXTENDS RedisStore, TLC

CONSTANTS p1, p2, b1, x, y, h1, h2

On(p, r, c) == [placement |-> p, id |-> b1, rev |-> r, content |-> c]

(***************************************************************************)
(* An invalid request, an upsert, a replacement and a delete that compete  *)
(* with the same revision, a later upsert, and a bid of another placement. *)
(***************************************************************************)
ExactRequests ==
  {On(p1, 0, x), On(p1, 1, x), On(p1, 2, y), On(p1, 2, Absent), On(p1, 3, x),
   On(p2, 1, y)}

(***************************************************************************)
(* Revisions around 2^Precision: 5 is half way between the numbers 4 and 6.*)
(***************************************************************************)
CoarseRequests ==
  {On(p1, 4, x), On(p1, 5, y), On(p1, 5, Absent), On(p1, 6, x)}

HandlerSymmetry == Permutations(Handlers)
=============================================================================
