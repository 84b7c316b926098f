---------------------------- MODULE BidRegister ----------------------------
(***************************************************************************)
(* What the versioned bid store promises to the clients of the mutation    *)
(* endpoints, without hashes, scripts, retries or messages: every key is a *)
(* register that holds the newest mutation it took, and a mutation takes   *)
(* effect at most by raising the revision of its key.                      *)
(***************************************************************************)
EXTENDS Naturals

CONSTANTS
  Keys,       \* placement and bid ID pairs
  Handlers,   \* mutation requests
  Absent      \* the content of a key without an active bid

VARIABLES
  reg,        \* reg[k]: the revision and the content of key k
  ask,        \* ask[h]: the mutation request h carries
  outcome     \* outcome[h]: what the store has said about request h so far

vars == <<reg, ask, outcome>>

KeyOf(m) == <<m.placement, m.id>>
Value(m) == [rev |-> m.rev, content |-> m.content]

Init ==
  /\ reg = [k \in Keys |-> [rev |-> 0, content |-> Absent]]
  /\ outcome = [h \in Handlers |-> "pending"]

(***************************************************************************)
(* The mutation takes effect while its client still waits, or after the    *)
(* client was told that the store is unavailable.                          *)
(***************************************************************************)
Apply(h) ==
  LET m == ask[h] IN
  /\ m.rev > reg[KeyOf(m)].rev
  /\ reg' = [reg EXCEPT ![KeyOf(m)] = Value(m)]
  /\ UNCHANGED <<ask, outcome>>

(***************************************************************************)
(* The store confirms a mutation at a moment when the register holds it.   *)
(***************************************************************************)
Confirm(h) ==
  LET m == ask[h] IN
  /\ outcome[h] = "pending"
  /\ \/ m.rev > reg[KeyOf(m)].rev
     \/ reg[KeyOf(m)] = Value(m)
  /\ reg' = [reg EXCEPT ![KeyOf(m)] = Value(m)]
  /\ outcome' = [outcome EXCEPT ![h] = "confirmed"]
  /\ UNCHANGED ask

(***************************************************************************)
(* The store refuses a mutation because the register holds a newer one, or *)
(* another one with the same revision.                                     *)
(***************************************************************************)
Refuse(h) ==
  LET m == ask[h] IN
  /\ outcome[h] = "pending"
  /\ \/ m.rev < reg[KeyOf(m)].rev
     \/ m.rev = reg[KeyOf(m)].rev /\ reg[KeyOf(m)] # Value(m)
  /\ outcome' = [outcome EXCEPT ![h] = "refused"]
  /\ UNCHANGED <<reg, ask>>

(***************************************************************************)
(* Some clients get an error that says nothing about their mutations.      *)
(***************************************************************************)
GiveUp(H) ==
  /\ \A h \in H : outcome[h] \in {"pending", "confirmed"}
  /\ outcome' = [h \in Handlers |-> IF h \in H THEN "error" ELSE outcome[h]]
  /\ UNCHANGED <<reg, ask>>

Next ==
  \/ \E h \in Handlers : Apply(h) \/ Confirm(h) \/ Refuse(h)
  \/ \E H \in SUBSET Handlers : GiveUp(H)

Spec == Init /\ [][Next]_vars
=============================================================================
