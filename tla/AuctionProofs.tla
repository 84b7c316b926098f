--------------------------- MODULE AuctionProofs ----------------------------
(***************************************************************************)
(* The auction ranks and prices correctly for bids of any number and of    *)
(* any prices, pacings and priorities.                                     *)
(***************************************************************************)
EXTENDS Auction, TLAPS

LEMMA DivMod ==
  ASSUME NEW a \in Nat, NEW n \in Nat, n > 0
  PROVE  /\ a \div n \in Nat /\ a % n \in Nat /\ a % n < n
         /\ a = n * (a \div n) + (a % n)
<1>1. a % n \in Nat /\ a % n < n
  BY Z3
<1>2. a \div n \in Nat
  BY Z3
<1>3. a = n * (a \div n) + (a % n)
  BY Z3
<1>. QED  BY <1>1, <1>2, <1>3

(***************************************************************************)
(* The paced price is a natural number no larger than the bid: dividing    *)
(* before multiplying keeps effectivePrice within int64.                   *)
(***************************************************************************)
LEMMA PriceWithin ==
  ASSUME NEW b \in Bids, Valid(b)
  PROVE  EffectivePrice(b) \in 0..MaxInt /\ EffectivePrice(b) <= b.price
<1>. DEFINE q == b.price \div BPS
            r == b.price % BPS
            t == (r * b.pacing) \div BPS
<1>1. /\ b.price \in Nat /\ b.price <= MaxInt /\ MaxInt \in Nat
      /\ b.pacing \in Nat /\ b.pacing <= BPS /\ BPS \in Nat /\ BPS > 0
  BY AuctionAssumption DEF Bids, Valid
<1>2. q \in Nat /\ r \in Nat /\ b.price = BPS * q + r
  BY <1>1, DivMod
<1>. HIDE DEF q, r
<1>3. r * b.pacing \in Nat /\ q * b.pacing \in Nat
  BY <1>1, <1>2
<1>4. t \in Nat /\ BPS * t <= r * b.pacing
  BY <1>1, <1>3
<1>. HIDE DEF t
<1>5. q * b.pacing <= q * BPS /\ r * b.pacing <= r * BPS
  BY <1>1, <1>2
<1>6. t <= r
  BY <1>1, <1>2, <1>4, <1>5
<1>7. q * b.pacing + t <= b.price
  BY <1>1, <1>2, <1>3, <1>4, <1>5, <1>6
<1>8. EffectivePrice(b) = q * b.pacing + t
  BY DEF EffectivePrice, q, r, t
<1>. QED  BY <1>1, <1>3, <1>4, <1>7, <1>8

LEMMA DivUnique ==
  ASSUME NEW a \in Nat, NEW n \in Nat, n > 0, NEW m \in Nat, NEW u \in Nat,
         u < n, a = n * m + u
  PROVE  a \div n = m
<1>. DEFINE d == a \div n
            v == a % n
<1>1. d \in Nat /\ v \in Nat /\ v < n /\ a = n * d + v
  BY DivMod
<1>. HIDE DEF d, v
<1>2. CASE d < m
  <2>1. n * (d + 1) <= n * m
    BY <1>1, <1>2
  <2>2. n * (d + 1) = n * d + n
    BY <1>1
  <2>. QED  BY <1>1, <2>1, <2>2
<1>3. CASE d > m
  <2>1. n * (m + 1) <= n * d
    BY <1>1, <1>3
  <2>2. n * (m + 1) = n * m + n
    BY <1>1
  <2>. QED  BY <1>1, <2>1, <2>2
<1>4. d = m
  BY <1>1, <1>2, <1>3
<1>. QED  BY <1>4 DEF d

(* Dividing first loses nothing: the paced price is rounded down once.     *)
LEMMA PriceRoundedDown ==
  ASSUME NEW b \in Bids, Valid(b)
  PROVE  EffectivePrice(b) = (b.price * b.pacing) \div BPS
<1>. DEFINE q == b.price \div BPS
            r == b.price % BPS
            t == (r * b.pacing) \div BPS
            u == (r * b.pacing) % BPS
<1>1. /\ b.price \in Nat /\ b.pacing \in Nat /\ BPS \in Nat /\ BPS > 0
  BY AuctionAssumption DEF Bids, Valid
<1>2. q \in Nat /\ r \in Nat /\ b.price = BPS * q + r
  BY <1>1, DivMod
<1>. HIDE DEF q, r
<1>3. r * b.pacing \in Nat /\ q * b.pacing \in Nat
  BY <1>1, <1>2
<1>4. t \in Nat /\ u \in Nat /\ u < BPS /\ r * b.pacing = BPS * t + u
  BY <1>1, <1>3, DivMod
<1>. HIDE DEF t, u
<1>5. b.price * b.pacing = BPS * (q * b.pacing) + r * b.pacing
  BY <1>1, <1>2
<1>6. b.price * b.pacing = BPS * (q * b.pacing + t) + u
  BY <1>1, <1>2, <1>3, <1>4, <1>5
<1>7. b.price * b.pacing \in Nat /\ q * b.pacing + t \in Nat
  BY <1>1, <1>3, <1>4
<1>8. (b.price * b.pacing) \div BPS = q * b.pacing + t
  BY <1>1, <1>4, <1>6, <1>7, DivUnique
<1>9. EffectivePrice(b) = q * b.pacing + t
  BY DEF EffectivePrice, q, r, t
<1>. QED  BY <1>8, <1>9

-----------------------------------------------------------------------------
(* The bids of an auction are typed and valid.                             *)
LEMMA ConcatAt ==
  ASSUME NEW S, NEW s \in Seq(S), NEW t \in Seq(S)
  PROVE  /\ s \o t \in Seq(S)
         /\ Len(s \o t) = Len(s) + Len(t)
         /\ Len(s \o t) \in Nat
         /\ \A i \in 1..Len(s \o t) :
              \/ \E j \in DOMAIN s : (s \o t)[i] = s[j] /\ s[j] \in S
              \/ \E j \in DOMAIN t : (s \o t)[i] = t[j] /\ t[j] \in S
<1>1. s \o t \in Seq(S) /\ Len(s \o t) = Len(s) + Len(t) /\ Len(s \o t) \in Nat
  OBVIOUS
<1>2. ASSUME NEW i \in 1..Len(s \o t)
      PROVE  \/ \E j \in DOMAIN s : (s \o t)[i] = s[j] /\ s[j] \in S
             \/ \E j \in DOMAIN t : (s \o t)[i] = t[j] /\ t[j] \in S
  <2>1. CASE i <= Len(s)
    <3>1. i \in DOMAIN s /\ (s \o t)[i] = s[i] /\ s[i] \in S
      BY <2>1
    <3>. QED  BY <3>1
  <2>2. CASE i > Len(s)
    <3>1. i - Len(s) \in 1..Len(t) /\ (s \o t)[i] = t[i - Len(s)]
      BY <1>1, <2>2
    <3>2. i - Len(s) \in DOMAIN t /\ t[i - Len(s)] \in S
      BY <3>1
    <3>. QED  BY <3>1, <3>2
  <2>. QED  BY <1>1, <2>1, <2>2
<1>. QED  BY <1>1, <1>2

LEMMA CandsValid ==
  ASSUME input \in Inputs
  PROVE  /\ Len(Cands) \in Nat
         /\ \A i \in 1..Len(Cands) : Cands[i] \in Bids /\ Valid(Cands[i])
<1>1. /\ input.bids \in Seq(Bids) /\ input.dynamic \in Seq(Bids)
      /\ \A i \in DOMAIN input.bids : Valid(input.bids[i])
      /\ \A i \in DOMAIN input.dynamic : Valid(input.dynamic[i])
  BY AuctionAssumption DEF InputType
<1>2. Len(Cands) \in Nat
  BY <1>1, ConcatAt DEF Cands
<1>3. \A i \in 1..Len(Cands) :
        \/ \E j \in DOMAIN input.bids : Cands[i] = input.bids[j] /\ input.bids[j] \in Bids
        \/ \E j \in DOMAIN input.dynamic : Cands[i] = input.dynamic[j] /\ input.dynamic[j] \in Bids
  BY <1>1, ConcatAt, Zenon DEF Cands
<1>. QED  BY <1>1, <1>2, <1>3, Zenon

LEMMA CandFields ==
  ASSUME input \in Inputs, NEW i \in 1..Len(Cands)
  PROVE  /\ EffectivePrice(Cands[i]) \in 0..MaxInt
         /\ EffectivePrice(Cands[i]) \in Int
         /\ Cands[i].priority \in Int
         /\ Cands[i].id \in Int
         /\ Cands[i].floor \in Int
<1>1. Cands[i] \in Bids /\ Valid(Cands[i])
  BY CandsValid
<1>2. EffectivePrice(Cands[i]) \in 0..MaxInt
  BY <1>1, PriceWithin
<1>3. EffectivePrice(Cands[i]) \in Int
  BY <1>2, AuctionAssumption
<1>4. Cands[i].priority \in Int /\ Cands[i].id \in Int /\ Cands[i].floor \in Int
  BY <1>1 DEF Bids
<1>. QED  BY <1>2, <1>3, <1>4

-----------------------------------------------------------------------------
(* What Decide writes, as a relation to the accumulator.                   *)
Decided ==
  /\ decision.filled \in BOOLEAN
  /\ phase # "done" => ~decision.filled
  /\ decision.filled =>
       /\ winner # 0
       /\ decision.effective = winnerPrice
       /\ decision.clearing = ClearingPrice(input.policy, Cands[winner], winnerPrice,
                                            runnerUpPrice, input.query)

Counted == candidates <= pos - 1

(* The inductive invariant: that of the loop, and what follows the loop.   *)
AuctionInv == TypeOK /\ Counted /\ WinnerIsBest /\ RunnerUpIsNext /\ Decided

LEMMA AuctionInvInit == Init => AuctionInv
<1>. SUFFICES ASSUME Init PROVE AuctionInv
  OBVIOUS
<1>1. Len(Cands) \in Nat /\ MaxInt \in Nat
  BY CandsValid, AuctionAssumption DEF Init
<1>2. TypeOK /\ Counted
  <2>1. pos \in 1..(Len(Cands) + 1) /\ winner \in 0..Len(Cands)
    BY <1>1 DEF Init
  <2>2. /\ winnerPrice \in 0..MaxInt /\ runnerUpPrice \in 0..MaxInt
        /\ candidates \in 0..Len(Cands) /\ candidates <= pos - 1
    BY <1>1 DEF Init
  <2>3. asked \in BOOLEAN
    BY DEF Init
  <2>. QED  BY <2>1, <2>2, <2>3 DEF Init, TypeOK, Counted
<1>3. EligibleUpTo(pos - 1) = {}
  BY DEF Init, EligibleUpTo
<1>4. WinnerIsBest /\ RunnerUpIsNext
  BY <1>3 DEF Init, WinnerIsBest, RunnerUpIsNext
<1>5. Decided
  BY DEF Init, Decided, NoDecision
<1>. QED  BY <1>2, <1>4, <1>5 DEF AuctionInv

(* Nothing but Consider touches the accumulator.                           *)
LEMMA AccumulatorQuiet ==
  ASSUME AuctionInv, UNCHANGED <<input, pos, winner, winnerPrice, runnerUpPrice, candidates>>,
         phase' \in {"get", "consider", "done"}, asked' \in BOOLEAN
  PROVE  TypeOK' /\ Counted' /\ WinnerIsBest' /\ RunnerUpIsNext'
<1>1. Cands' = Cands
  BY DEF Cands
<1>2. TypeOK' /\ Counted'
  BY <1>1 DEF AuctionInv, TypeOK, Counted
<1>3. EligibleUpTo(pos - 1)' = EligibleUpTo(pos - 1) /\ Rivals' = Rivals
  BY <1>1 DEF EligibleUpTo, Rivals
<1>4. WinnerIsBest'
  BY <1>1, <1>3 DEF AuctionInv, WinnerIsBest, AtLeast
<1>5. RunnerUpIsNext'
  BY <1>1, <1>3 DEF AuctionInv, RunnerUpIsNext
<1>. QED  BY <1>2, <1>4, <1>5

(* One iteration of the loop.                                              *)
LEMMA ConsiderStep ==
  ASSUME AuctionInv, Consider
  PROVE  TypeOK' /\ Counted' /\ WinnerIsBest' /\ RunnerUpIsNext'
<1>. DEFINE b == Cands[pos]
            E == EligibleUpTo(pos - 1)
            F == {i \in 1..pos : i <= Len(Cands) /\ Eligible(Cands[i], input.query)}
<1>1. /\ Cands' = Cands /\ input' = input /\ pos' = pos + 1
      /\ phase' = phase /\ asked' = asked
  BY DEF Consider, Cands
<1>2. /\ input \in Inputs /\ Len(Cands) \in Nat /\ MaxInt \in Nat
      /\ pos \in Nat /\ pos \in 1..Len(Cands)
      /\ winner \in 0..Len(Cands) /\ candidates \in Nat /\ candidates <= pos - 1
      /\ winnerPrice \in 0..MaxInt /\ runnerUpPrice \in 0..MaxInt
  BY CandsValid, AuctionAssumption DEF AuctionInv, TypeOK, Counted, Consider
<1>3. EligibleUpTo(pos - 1)' = F
  BY <1>1, <1>2 DEF EligibleUpTo
<1>4. /\ \A i \in F : i \in E \/ i = pos
      /\ \A i \in E : i \in F /\ i \in 1..Len(Cands) /\ i # pos
      /\ pos \in F <=> Eligible(b, input.query)
  BY <1>2 DEF EligibleUpTo
<1>5. /\ EffectivePrice(b) \in 0..MaxInt /\ EffectivePrice(b) \in Int
      /\ b.priority \in Int /\ b.id \in Int
  BY <1>2, CandFields
<1>6. \A i \in E : /\ EffectivePrice(Cands[i]) \in Int /\ EffectivePrice(Cands[i]) >= 0
                   /\ Cands[i].priority \in Int /\ Cands[i].id \in Int
  BY <1>2, <1>4, CandFields
<1>7. winner # 0 => /\ winner \in E
                    /\ winnerPrice = EffectivePrice(Cands[winner])
                    /\ \A i \in E : AtLeast(winner, i)
  BY DEF AuctionInv, WinnerIsBest
<1>8. winner = 0 => E = {}
  BY DEF AuctionInv, WinnerIsBest
<1>9. Rivals' = {i \in F : i # winner' /\ Cands[i].priority = Cands[winner'].priority}
  BY <1>1, <1>3 DEF Rivals
<1>10. Rivals = {i \in E : i # winner /\ Cands[i].priority = Cands[winner].priority}
  BY DEF Rivals
<1>. HIDE DEF E, F, b
<1>11. CASE ~Eligible(b, input.query)
  <2>1. UNCHANGED <<winner, winnerPrice, runnerUpPrice, candidates>>
    BY <1>11 DEF Consider, b
  <2>2. F = E
    BY <1>4, <1>11
  <2>3. TypeOK' /\ Counted'
    BY <1>1, <1>2, <2>1 DEF AuctionInv, TypeOK, Counted
  <2>4. WinnerIsBest'
    BY <1>1, <1>3, <1>7, <1>8, <2>1, <2>2 DEF WinnerIsBest, AtLeast
  <2>5. RunnerUpIsNext'
    BY <1>1, <1>9, <1>10, <2>1, <2>2 DEF AuctionInv, RunnerUpIsNext
  <2>. QED  BY <2>3, <2>4, <2>5
<1>12. CASE Eligible(b, input.query) /\ (winner = 0 \/ RanksAhead(b, Cands[winner]))
  <2>1. /\ winner' = pos /\ winnerPrice' = EffectivePrice(b) /\ candidates' = candidates + 1
        /\ runnerUpPrice' = IF winner # 0 /\ b.priority = Cands[winner].priority
                              THEN winnerPrice ELSE 0
    BY <1>12 DEF Consider, Promote, b
  <2>2. TypeOK' /\ Counted'
    BY <1>1, <1>2, <1>5, <2>1 DEF AuctionInv, TypeOK, Counted
  <2>3. \A i \in F : AtLeast(pos, i)
    <3>. SUFFICES ASSUME NEW i \in F PROVE AtLeast(pos, i)
      OBVIOUS
    <3>1. CASE i = pos
      BY <1>5, <3>1 DEF AtLeast, b
    <3>2. CASE i \in E
      <4>1. winner # 0 /\ RanksAhead(b, Cands[winner]) /\ AtLeast(winner, i)
        BY <1>7, <1>8, <1>12, <3>2
      <4>. QED  BY <1>5, <1>6, <1>7, <3>2, <4>1 DEF AtLeast, RanksAhead, b
    <3>. QED  BY <1>4, <3>1, <3>2
  <2>4. WinnerIsBest'
    BY <1>1, <1>2, <1>3, <1>4, <1>12, <2>1, <2>3 DEF WinnerIsBest, AtLeast, b
  <2>5. RunnerUpIsNext'
    <3>1. \A i \in Rivals' : /\ i \in E /\ winner # 0
                             /\ Cands[i].priority = b.priority
                             /\ b.priority = Cands[winner].priority
                             /\ EffectivePrice(Cands[i]) <= winnerPrice
      <4>. SUFFICES ASSUME NEW i \in Rivals'
                    PROVE  /\ i \in E /\ winner # 0
                           /\ Cands[i].priority = b.priority
                           /\ b.priority = Cands[winner].priority
                           /\ EffectivePrice(Cands[i]) <= winnerPrice
        OBVIOUS
      <4>1. i \in E /\ Cands[i].priority = b.priority
        BY <1>4, <1>9, <2>1 DEF b
      <4>2. winner # 0 /\ RanksAhead(b, Cands[winner]) /\ AtLeast(winner, i)
        BY <1>7, <1>8, <1>12, <4>1
      <4>. QED  BY <1>5, <1>6, <1>7, <4>1, <4>2 DEF AtLeast, RanksAhead
    <3>2. \A i \in Rivals' : EffectivePrice(Cands[i]) <= runnerUpPrice'
      BY <2>1, <3>1
    <3>3. ASSUME runnerUpPrice' # 0
          PROVE  winner \in Rivals' /\ EffectivePrice(Cands[winner]) = runnerUpPrice'
      <4>1. winner # 0 /\ b.priority = Cands[winner].priority /\ runnerUpPrice' = winnerPrice
        BY <2>1, <3>3
      <4>. QED  BY <1>4, <1>7, <1>9, <2>1, <4>1 DEF b
    <3>4. runnerUpPrice' <= winnerPrice'
      BY <1>2, <1>5, <1>6, <1>7, <1>12, <2>1 DEF RanksAhead
    <3>. QED  BY <1>1, <3>2, <3>3, <3>4 DEF RunnerUpIsNext
  <2>. QED  BY <2>2, <2>4, <2>5
<1>13. CASE Eligible(b, input.query) /\ winner # 0 /\ ~RanksAhead(b, Cands[winner])
  <2>1. /\ winner' = winner /\ winnerPrice' = winnerPrice /\ candidates' = candidates + 1
        /\ runnerUpPrice' = IF b.priority = Cands[winner].priority
                               /\ EffectivePrice(b) > runnerUpPrice
                              THEN EffectivePrice(b) ELSE runnerUpPrice
    BY <1>13 DEF Consider, RunnerUp, b
  <2>2. TypeOK' /\ Counted'
    BY <1>1, <1>2, <1>5, <2>1 DEF AuctionInv, TypeOK, Counted
  <2>3. AtLeast(winner, pos)
    BY <1>5, <1>6, <1>7, <1>13 DEF AtLeast, RanksAhead, b
  <2>4. WinnerIsBest'
    <3>1. \A i \in F : AtLeast(winner, i)
      BY <1>4, <1>7, <1>13, <2>3
    <3>2. winner \in F
      BY <1>4, <1>7, <1>13
    <3>. QED  BY <1>1, <1>3, <1>7, <1>13, <2>1, <3>1, <3>2 DEF WinnerIsBest, AtLeast
  <2>5. RunnerUpIsNext'
    <3>1. /\ \A i \in Rivals : EffectivePrice(Cands[i]) <= runnerUpPrice
          /\ runnerUpPrice # 0 => \E i \in Rivals : EffectivePrice(Cands[i]) = runnerUpPrice
          /\ runnerUpPrice <= winnerPrice
      BY <1>13 DEF AuctionInv, RunnerUpIsNext
    <3>2. /\ \A i \in Rivals' : i \in Rivals \/ (i = pos /\ b.priority = Cands[winner].priority)
          /\ \A i \in Rivals : i \in Rivals'
          /\ b.priority = Cands[winner].priority => pos \in Rivals'
      BY <1>4, <1>7, <1>9, <1>10, <1>13, <2>1 DEF b
    <3>3. runnerUpPrice' >= runnerUpPrice /\ runnerUpPrice' \in Int
      BY <1>2, <1>5, <2>1
    <3>4. \A i \in Rivals' : EffectivePrice(Cands[i]) <= runnerUpPrice'
      <4>. SUFFICES ASSUME NEW i \in Rivals'
                    PROVE  EffectivePrice(Cands[i]) <= runnerUpPrice'
        OBVIOUS
      <4>1. CASE i \in Rivals
        BY <1>2, <1>6, <1>10, <3>1, <3>3, <4>1
      <4>2. CASE i = pos /\ b.priority = Cands[winner].priority
        BY <1>2, <1>5, <2>1, <4>2 DEF b
      <4>. QED  BY <3>2, <4>1, <4>2
    <3>5. runnerUpPrice' # 0 => \E i \in Rivals' : EffectivePrice(Cands[i]) = runnerUpPrice'
      <4>1. CASE runnerUpPrice' = runnerUpPrice
        BY <3>1, <3>2, <4>1
      <4>2. CASE runnerUpPrice' # runnerUpPrice
        BY <2>1, <3>2, <4>2 DEF b
      <4>. QED  BY <4>1, <4>2
    <3>6. runnerUpPrice' <= winnerPrice'
      BY <1>2, <1>5, <1>6, <1>7, <1>13, <2>1, <2>3, <3>1 DEF AtLeast, b
    <3>. QED  BY <1>1, <3>4, <3>5, <3>6 DEF RunnerUpIsNext
  <2>. QED  BY <2>2, <2>4, <2>5
<1>. QED  BY <1>11, <1>12, <1>13

LEMMA AuctionInvStep == AuctionInv /\ [Next]_vars => AuctionInv'
<1>. SUFFICES ASSUME AuctionInv, [Next]_vars PROVE AuctionInv'
  OBVIOUS
<1>1. CASE Get
  <2>1. Decided'
    BY <1>1 DEF Get, NoBid, NoDecision, AuctionInv, Decided
  <2>. QED  BY <1>1, <2>1, AccumulatorQuiet DEF Get, AuctionInv
<1>2. CASE Consider
  <2>1. Decided'
    BY <1>2 DEF Consider, AuctionInv, Decided
  <2>. QED  BY <1>2, <2>1, ConsiderStep DEF AuctionInv
<1>3. CASE Decide
  <2>1. /\ UNCHANGED <<input, pos, winner, winnerPrice, runnerUpPrice, candidates, asked>>
        /\ phase' = "done" /\ Cands' = Cands
    BY <1>3 DEF Decide, Cands
  <2>2. CASE winner = 0
    <3>1. decision'.filled = FALSE
      BY <1>3, <2>2 DEF Decide, NoBid, NoDecision
    <3>. QED  BY <2>1, <3>1, AccumulatorQuiet DEF AuctionInv, Decided, TypeOK
  <2>3. CASE winner # 0
    <3>1. /\ decision'.filled = TRUE /\ decision'.effective = winnerPrice
          /\ decision'.clearing = ClearingPrice(input.policy, Cands[winner], winnerPrice,
                                                runnerUpPrice, input.query)
      BY <1>3, <2>3 DEF Decide
    <3>2. Decided'
      BY <2>1, <2>3, <3>1 DEF Decided, ClearingPrice
    <3>. QED  BY <2>1, <3>2, AccumulatorQuiet DEF AuctionInv, TypeOK
  <2>. QED  BY <2>2, <2>3
<1>4. CASE UNCHANGED vars
  <2>1. Decided'
    BY <1>4 DEF vars, AuctionInv, Decided, ClearingPrice, Cands
  <2>. QED  BY <1>4, <2>1, AccumulatorQuiet DEF vars, AuctionInv, TypeOK
<1>. QED  BY <1>1, <1>2, <1>3, <1>4 DEF Next

(***************************************************************************)
(* Every state of every auction satisfies the loop invariant.              *)
(***************************************************************************)
THEOREM AuctionSafety == Spec => []AuctionInv
<1>. QED  BY AuctionInvInit, AuctionInvStep, PTL DEF Spec

(* Prices stay within int64 and positions within the candidates, for bids  *)
(* of any valid price and pacing: effectivePrice cannot overflow.          *)
THEOREM AuctionTypeOK == Spec => []TypeOK
<1>1. AuctionInv => TypeOK
  BY DEF AuctionInv
<1>. QED  BY <1>1, AuctionSafety, PTL

(***************************************************************************)
(* The winner is the best eligible bid, for any number of bids in any      *)
(* order: the single pass of run and consider loses none.                  *)
(***************************************************************************)
THEOREM BestBidWins == Spec => []WinnerIsBest
<1>1. AuctionInv => WinnerIsBest
  BY DEF AuctionInv
<1>. QED  BY <1>1, AuctionSafety, PTL

(***************************************************************************)
(* The accumulator's runner-up price is the second best in the winner's    *)
(* priority, for any number of bids in any order.                          *)
(***************************************************************************)
THEOREM NextBestIsRunnerUp == Spec => []RunnerUpIsNext
<1>1. AuctionInv => RunnerUpIsNext
  BY DEF AuctionInv
<1>. QED  BY <1>1, AuctionSafety, PTL

(* What is known of a filled decision.                                     *)
LEMMA FilledFacts ==
  ASSUME AuctionInv, decision.filled
  PROVE  /\ input \in Inputs /\ input.policy \in Policies /\ input.query \in Queries
         /\ winner \in 1..Len(Cands)
         /\ Cands[winner] \in Bids /\ Valid(Cands[winner])
         /\ winnerPrice = EffectivePrice(Cands[winner])
         /\ winnerPrice \in Nat /\ runnerUpPrice \in Nat /\ MaxInt \in Nat
         /\ winnerPrice <= MaxInt /\ runnerUpPrice <= winnerPrice
         /\ Larger(input.query.floor, Cands[winner].floor) \in Nat
         /\ Larger(input.query.floor, Cands[winner].floor) <= winnerPrice
         /\ input.policy.increment \in Nat /\ input.policy.increment <= MaxInt
         /\ decision.effective = winnerPrice
         /\ decision.clearing = ClearingPrice(input.policy, Cands[winner], winnerPrice,
                                              runnerUpPrice, input.query)
<1>1. /\ winner # 0 /\ decision.effective = winnerPrice
      /\ decision.clearing = ClearingPrice(input.policy, Cands[winner], winnerPrice,
                                           runnerUpPrice, input.query)
  BY DEF AuctionInv, Decided
<1>2. /\ input \in Inputs /\ winner \in EligibleUpTo(pos - 1)
      /\ winnerPrice = EffectivePrice(Cands[winner]) /\ runnerUpPrice <= winnerPrice
      /\ winnerPrice \in 0..MaxInt /\ runnerUpPrice \in 0..MaxInt
      /\ winner \in 0..Len(Cands)
  BY <1>1 DEF AuctionInv, TypeOK, WinnerIsBest, RunnerUpIsNext
<1>3. /\ input.policy \in Policies /\ input.query \in Queries
      /\ MaxInt \in Nat
  BY <1>2, AuctionAssumption DEF InputType
<1>4. winner \in 1..Len(Cands) /\ Eligible(Cands[winner], input.query)
  BY <1>1, <1>2, CandsValid DEF EligibleUpTo
<1>5. Cands[winner] \in Bids /\ Valid(Cands[winner])
  BY <1>2, <1>4, CandsValid
<1>6. /\ input.policy.increment \in Nat /\ input.policy.increment <= MaxInt
      /\ input.query.floor \in Nat /\ Cands[winner].floor \in Nat
  BY <1>3, <1>5 DEF Policies, Queries, Bids
<1>7. /\ Larger(input.query.floor, Cands[winner].floor) \in Nat
      /\ Larger(input.query.floor, Cands[winner].floor) <= winnerPrice
  BY <1>2, <1>3, <1>4, <1>6 DEF Eligible, Larger
<1>. QED  BY <1>1, <1>2, <1>3, <1>4, <1>5, <1>6, <1>7

(* What clearingPrice returned for a filled decision.                      *)
LEMMA FilledClearing ==
  ASSUME AuctionInv, decision.filled
  PROVE  /\ decision.clearing \in Nat
         /\ decision.clearing >= Larger(input.query.floor, Cands[winner].floor)
         /\ decision.clearing <= winnerPrice
         /\ (input.policy.model = "second_price" /\ runnerUpPrice # 0) =>
              decision.clearing =
                Larger(Larger(input.query.floor, Cands[winner].floor),
                       IF runnerUpPrice + input.policy.increment > winnerPrice
                         THEN winnerPrice
                         ELSE runnerUpPrice + input.policy.increment)
<1>. DEFINE policy == input.policy
            price == winnerPrice
            next == runnerUpPrice
            inc == input.policy.increment
            floor == Larger(input.query.floor, Cands[winner].floor)
            capped == IF Add(next, inc) < next \/ Add(next, inc) > price
                        THEN price ELSE Add(next, inc)
            clearing == decision.clearing
<1>1. /\ price \in Nat /\ next \in Nat /\ MaxInt \in Nat
      /\ price <= MaxInt /\ next <= price
      /\ floor \in Nat /\ floor <= price
      /\ inc \in Nat /\ inc <= MaxInt
  BY FilledFacts
<1>2. clearing = IF policy.model = "first_price" THEN price
                 ELSE IF next = 0 THEN floor
                 ELSE Larger(floor, capped)
  BY FilledFacts DEF ClearingPrice
<1>. HIDE DEF floor, inc, price, next, clearing
<1>3. capped = IF next + inc > price THEN price ELSE next + inc
  BY <1>1 DEF Add
<1>. HIDE DEF capped
<1>4. capped \in Nat /\ capped <= price
  BY <1>1, <1>3
<1>5. clearing \in Nat /\ clearing >= floor /\ clearing <= price
  BY <1>1, <1>2, <1>4 DEF Larger
<1>6. (policy.model = "second_price" /\ next # 0) =>
        clearing = Larger(floor, IF next + inc > price THEN price ELSE next + inc)
  BY <1>2, <1>3
<1>. QED  BY <1>5, <1>6 DEF floor, inc, price, next, clearing

(***************************************************************************)
(* A filled auction clears between the floors and the winner's price: the  *)
(* overflow test of clearingPrice is enough for every increment and price. *)
(***************************************************************************)
THEOREM ClearingIsBounded == Spec => []ClearingBounded
<1>1. AuctionInv => ClearingBounded
  <2>. SUFFICES ASSUME AuctionInv, decision.filled
                PROVE  /\ decision.clearing >= Larger(input.query.floor, Cands[winner].floor)
                       /\ decision.clearing <= decision.effective
    BY DEF ClearingBounded
  <2>. QED  BY FilledFacts, FilledClearing
<1>. QED  BY <1>1, AuctionSafety, PTL

(***************************************************************************)
(* The effective price of a winner is its paced price rounded down, and it *)
(* never pays more than it bid: the arithmetic of effectivePrice loses     *)
(* nothing by dividing before it multiplies.                               *)
(***************************************************************************)
THEOREM PacingIsExact == Spec => []PacedPrice
<1>1. AuctionInv => PacedPrice
  <2>. SUFFICES ASSUME AuctionInv, decision.filled
                PROVE  /\ decision.effective =
                            (Cands[winner].price * Cands[winner].pacing) \div BPS
                       /\ decision.clearing <= Cands[winner].price
    BY DEF PacedPrice
  <2>1. decision.effective = (Cands[winner].price * Cands[winner].pacing) \div BPS
    BY FilledFacts, PriceRoundedDown
  <2>2. decision.clearing \in Nat /\ decision.clearing <= winnerPrice
    BY FilledClearing
  <2>3. winnerPrice \in Nat /\ winnerPrice <= Cands[winner].price /\ Cands[winner].price \in Nat
    BY FilledFacts, PriceWithin DEF Bids
  <2>. QED  BY <2>1, <2>2, <2>3
<1>. QED  BY <1>1, AuctionSafety, PTL

(***************************************************************************)
(* Second-price clearing charges the next bid of the winner's priority     *)
(* plus the increment, within the floor and the winner's price, whenever   *)
(* the next bid has a price other than zero.                               *)
(***************************************************************************)
THEOREM SecondPriceIsNextBid == Spec => []PricedNextBidSetsPrice
<1>1. AuctionInv => PricedNextBidSetsPrice
  <2>. SUFFICES ASSUME AuctionInv, decision.filled, input.policy.model = "second_price",
                       NEW i \in Rivals, EffectivePrice(Cands[i]) # 0,
                       \A j \in Rivals : EffectivePrice(Cands[j]) <= EffectivePrice(Cands[i])
                PROVE  decision.clearing = NextPrice(i)
    BY DEF PricedNextBidSetsPrice
  <2>1. i \in 1..Len(Cands)
    BY FilledFacts, CandsValid DEF Rivals, EligibleUpTo, AuctionInv, TypeOK
  <2>2. EffectivePrice(Cands[i]) \in Nat
    BY <2>1, FilledFacts, CandFields
  <2>3. EffectivePrice(Cands[i]) = runnerUpPrice
    BY <2>2, FilledFacts DEF AuctionInv, RunnerUpIsNext
  <2>4. decision.clearing =
          Larger(Larger(input.query.floor, Cands[winner].floor),
                 IF runnerUpPrice + input.policy.increment > winnerPrice
                   THEN winnerPrice ELSE runnerUpPrice + input.policy.increment)
    BY <2>3, FilledClearing
  <2>. QED  BY <2>3, <2>4 DEF NextPrice
<1>. QED  BY <1>1, AuctionSafety, PTL
=============================================================================
