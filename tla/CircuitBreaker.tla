--------------------------- MODULE CircuitBreaker ---------------------------
(***************************************************************************)
(* The circuit breaker of one bidder (circuitBreaker in                    *)
(* internal/ads/dynamic_bidding.go) as operators on its state.             *)
(*                                                                         *)
(* openUntil is abstracted to where it lies: "closed" is the zero time,    *)
(* "open" a time in the future, "elapsed" a time that has come.            *)
(***************************************************************************)
EXTENDS Naturals

CONSTANT Threshold  \* failures in a row that open the circuit

ASSUME ThresholdAssumption == Threshold \in Nat \ {0}

(* failures is compared with the threshold only and stays there.           *)
Breakers == [failures : 0..Threshold, gate : {"closed", "open", "elapsed"},
             probeInFlight : BOOLEAN]

NewCircuitBreaker == [failures |-> 0, gate |-> "closed", probeInFlight |-> FALSE]

(* The result of Allow, and the state it leaves.                           *)
Allows(b) == b.gate = "closed" \/ (b.gate = "elapsed" /\ ~b.probeInFlight)

Allow(b) == IF b.gate = "elapsed" THEN [b EXCEPT !.probeInFlight = TRUE] ELSE b

Success(b) == NewCircuitBreaker

(* Slip: a failed probe keeps its flag.                                    *)
FailureKeepsProbe(b) ==
  LET failures == IF b.failures < Threshold THEN b.failures + 1 ELSE Threshold
  IN  [b EXCEPT !.failures = failures,
                !.gate = IF failures = Threshold THEN "open" ELSE b.gate]

Failure(b) ==
  LET failures == IF b.failures < Threshold THEN b.failures + 1 ELSE Threshold
  IN  [failures |-> failures,
       gate |-> IF failures = Threshold THEN "open" ELSE b.gate,
       probeInFlight |-> FALSE]
=============================================================================
