---------------------------- MODULE ThroneProofs ----------------------------
(***************************************************************************)
(* Proofs about Throne, for every set of agents, every width of its        *)
(* integers and every amount: its type, that claims are paid for by the    *)
(* claimants, that the usurped are repaid, and what the rounding of the    *)
(* price leaves of its growth.                                             *)
(***************************************************************************)
EXTENDS Throne, TLAPS

\* Rounding down to a multiple of a step loses less than a step.
LEMMA DivisionRange ==
    ASSUME NEW r \in Nat, NEW u \in Nat \ {0}
    PROVE  /\ u * (r \div u) \in Nat
           /\ u * (r \div u) <= r
           /\ r < u * (r \div u) + u
  OBVIOUS

\* A price that is rounded at all is at least 100 times the step.
LEMMA StepIsSmall ==
    ASSUME NEW r \in Nat
    PROVE  /\ Step(r) \in Nat \ {0}
           /\ Step(r) = 1 \/ 100 * Step(r) <= r
  BY ThroneAssumption DEF Step, finney, ether

LEMMA RoundingIsSmall ==
    ASSUME NEW r \in Nat
    PROVE  /\ Rounded(r) \in Nat
           /\ Rounded(r) <= r
           /\ 100 * (r - Rounded(r)) <= r
<1> DEFINE u == Step(r)
           q == u * (r \div u)
<1>1. u \in Nat \ {0} /\ (u = 1 \/ 100 * u <= r)
  BY StepIsSmall
<1>2. q \in Nat /\ q <= r /\ r < q + u
  BY <1>1, DivisionRange
<1>3. Rounded(r) = q
  BY DEF Rounded
<1> HIDE DEF u, q
<1>4. 100 * (r - q) <= r
  <2>1. CASE u = 1
    BY <2>1, <1>2
  <2>2. CASE 100 * u <= r
    BY <2>2, <1>1, <1>2
  <2> QED
    BY <1>1, <2>1, <2>2
<1> QED
  BY <1>2, <1>3, <1>4

\* The price before rounding: half as much again, unless it overflows.
LEMMA RawRange ==
    ASSUME NEW p \in 0 .. Modulus - 1
    PROVE  /\ Raw(p) \in 0 .. Modulus - 1
           /\ p * 3 < Modulus => 3 * p - 1 <= 2 * Raw(p)
<1> DEFINE m == (p * 3) % Modulus
<1>1. Modulus \in Nat \ {0}
  BY ThroneAssumption
<1>2. m \in 0 .. Modulus - 1
  BY <1>1
<1>3. p * 3 < Modulus => m = p * 3
  BY <1>1
<1>4. Raw(p) = m \div 2
  BY DEF Raw
<1> HIDE DEF m
<1> QED
  BY <1>1, <1>2, <1>3, <1>4

\* The commission is at most one percent.
LEMMA CompensationRange ==
    ASSUME NEW a \in Nat
    PROVE  /\ Compensation(a) \in 0 .. a
           /\ 99 * a <= 100 * Compensation(a)
  BY DEF Compensation, Commission

LEMMA NextPriceRises ==
    ASSUME NEW p \in 0 .. Modulus - 1
    PROVE  /\ NextPrice(p) \in 0 .. Modulus - 1
           /\ 2 <= p /\ p * 3 < Modulus =>
                 p < NextPrice(p) /\ p <= Compensation(NextPrice(p))
<1> DEFINE r == Raw(p)
           n == NextPrice(p)
           c == Compensation(n)
<1>1. r \in 0 .. Modulus - 1 /\ (p * 3 < Modulus => 3 * p - 1 <= 2 * r)
  BY RawRange
<1>2. n \in Nat /\ n <= r /\ 100 * (r - n) <= r
  BY <1>1, RoundingIsSmall, ThroneAssumption DEF NextPrice
<1>3. c \in Nat /\ 99 * n <= 100 * c
  BY <1>2, CompensationRange
<1>4. p \in Nat /\ Modulus \in Nat
  BY ThroneAssumption
<1> HIDE DEF r, n, c
<1>5. n \in 0 .. Modulus - 1
  BY <1>1, <1>2, <1>4
<1>6. ASSUME 2 <= p, p * 3 < Modulus  PROVE p < n /\ p <= c
  BY <1>1, <1>2, <1>3, <1>4, <1>6
<1> QED
  BY <1>5, <1>6 DEF n, c

-----------------------------------------------------------------------------

\* The next claim at the price is worth the reign, the commission held back.
PriceCoversReign ==
    overflown \/ Compensation(currentClaimPrice) >= currentMonarch.claimPrice

\* Until it overflows the price is no less than the first one: only that keeps
\* the roundings from eating up the growth.
IInv ==
    /\ TypeOK
    /\ PriceCoversReign
    /\ overflown \/ startingClaimPrice <= currentClaimPrice

LEMMA InitIInv == Init => IInv
<1> SUFFICES ASSUME Init PROVE IInv
  OBVIOUS
<1>1. startingClaimPrice \in 0 .. Modulus - 1
  BY ThroneAssumption DEF startingClaimPrice, finney
<1>2. TypeOK
  <2>1. 0 \in 0 .. Modulus - 1 /\ 0 \in 0 .. MaxClaims /\ 0 \in 0 .. MaxPaid
    BY ThroneAssumption
  <2>2. currentMonarch \in [etherAddress : Agents, claimPrice : 0 .. Modulus - 1]
    BY <2>1 DEF Init, Monarch
  <2>3. currentClaimPrice \in 0 .. Modulus - 1 /\ balance \in Nat
    BY <1>1 DEF Init
  <2> QED
    BY <2>1, <2>2, <2>3 DEF Init, TypeOK
<1>3. Compensation(currentClaimPrice) >= 0
  BY <1>2, CompensationRange DEF TypeOK
<1> QED
  BY <1>1, <1>2, <1>3 DEF Init, IInv, PriceCoversReign, Monarch

\* What leaves the contract in a claim came with it.
LEMMA SentWasReceived ==
    ASSUME TypeOK, NEW value \in Values, NEW refunded \in BOOLEAN,
           NEW compensated \in BOOLEAN
    PROVE  /\ ValuePaid(value) \in 0 .. currentClaimPrice
           /\ Repaid(value, compensated) \in Nat
           /\ Sent(value, refunded, compensated) \in 0 .. value
<1>1. value \in Nat /\ currentClaimPrice \in Nat
  BY ThroneAssumption DEF TypeOK
<1>2. /\ Excess(value) \in Nat
      /\ ValuePaid(value) \in 0 .. currentClaimPrice
      /\ Excess(value) + ValuePaid(value) = value
  BY <1>1 DEF Excess, ValuePaid
<1>3. Compensation(ValuePaid(value)) \in 0 .. ValuePaid(value)
  BY <1>2, CompensationRange
<1>4. Repaid(value, compensated) \in 0 .. ValuePaid(value)
  BY <1>2, <1>3 DEF Repaid
<1> QED
  BY <1>1, <1>2, <1>4 DEF Sent

LEMMA ClaimKeeps ==
    ASSUME IInv, NEW sender \in Agents, NEW value \in Values,
           NEW refunded \in BOOLEAN, NEW compensated \in BOOLEAN,
           ClaimThrone(sender, value, refunded, compensated)
    PROVE  /\ IInv'
           /\ balance' >= balance
           /\ overflown' \/ currentClaimPrice' > currentClaimPrice
<1> DEFINE p == currentClaimPrice
<1>1. /\ p \in 0 .. Modulus - 1
      /\ p' = NextPrice(p)
      /\ p' \in 0 .. Modulus - 1
  BY NextPriceRises DEF IInv, TypeOK, ClaimThrone
<1>2. /\ ValuePaid(value) \in 0 .. p
      /\ Sent(value, refunded, compensated) \in 0 .. value
  BY SentWasReceived DEF IInv
<1>3. value \in Nat /\ Modulus \in Nat /\ balance \in Nat
  BY ThroneAssumption DEF IInv, TypeOK
<1>4. balance' \in Nat /\ balance' >= balance
  BY <1>2, <1>3 DEF ClaimThrone
<1>5. currentMonarch' = Monarch(sender, ValuePaid(value))
  BY DEF ClaimThrone
<1>6. claims' \in 0 .. MaxClaims /\ paid' \in 0 .. MaxPaid
  BY ThroneAssumption DEF IInv, TypeOK, ClaimThrone
<1>7. TypeOK'
  <2>1. currentMonarch' \in [etherAddress : Agents, claimPrice : 0 .. Modulus - 1]
    BY <1>1, <1>2, <1>3, <1>5 DEF Monarch
  <2>2. overflown' \in BOOLEAN /\ wizardAddress' \in Agents
    BY DEF IInv, TypeOK, ClaimThrone
  <2>3. repaid' \in Nat
    BY SentWasReceived DEF IInv, ClaimThrone
  <2>4. refused' \in BOOLEAN
    BY Zenon DEF ClaimThrone
  <2> QED
    BY <1>1, <1>4, <1>6, <2>1, <2>2, <2>3, <2>4 DEF TypeOK
<1>8. ASSUME ~overflown'
      PROVE  p < p' /\ p <= Compensation(p') /\ startingClaimPrice <= p
  <2>1. ~overflown /\ p * 3 < Modulus
    <3>1. ~overflown /\ ~(p * 3 >= Modulus)
      BY <1>8, Zenon DEF ClaimThrone
    <3> QED
      BY <1>1, <1>3, <3>1
  <2>2. startingClaimPrice <= p
    BY <2>1 DEF IInv
  <2>3. 2 <= startingClaimPrice /\ startingClaimPrice \in Nat
    BY ThroneAssumption DEF startingClaimPrice, finney
  <2>4. 2 <= p
    BY <1>1, <2>2, <2>3
  <2> QED
    BY <1>1, <2>1, <2>2, <2>4, NextPriceRises
<1>9. PriceCoversReign'
  <2> SUFFICES ASSUME ~overflown'
               PROVE  Compensation(p') >= currentMonarch'.claimPrice
    BY DEF PriceCoversReign, Compensation, Commission
  <2>1. p <= Compensation(p')
    BY <1>8
  <2>2. Compensation(p') \in Nat
    BY <1>1, CompensationRange
  <2>3. currentMonarch'.claimPrice = ValuePaid(value)
    BY <1>5 DEF Monarch
  <2> QED
    BY <1>1, <1>2, <2>1, <2>2, <2>3
<1>10. overflown' \/ startingClaimPrice' <= currentClaimPrice'
  <2>1. startingClaimPrice' = startingClaimPrice /\ startingClaimPrice \in Nat
    BY ThroneAssumption DEF startingClaimPrice, finney
  <2> QED
    BY <1>1, <1>8, <2>1
<1> QED
  BY <1>1, <1>4, <1>7, <1>8, <1>9, <1>10 DEF IInv

-----------------------------------------------------------------------------

LEMMA OthersKeep ==
    ASSUME IInv,
           \/ \E amount \in Values : SweepCommission(amount)
           \/ \E newOwner \in Agents : TransferOwnership(newOwner)
           \/ UNCHANGED vars
    PROVE  IInv' /\ claims' = claims
<1>1. /\ UNCHANGED <<currentClaimPrice, currentMonarch, claims, paid, overflown,
                       repaid, refused>>
      /\ wizardAddress' \in Agents
      /\ balance' \in Nat
  <2>1. CASE \E amount \in Values : SweepCommission(amount)
    BY <2>1, ThroneAssumption DEF SweepCommission, IInv, TypeOK, outcome
  <2>2. CASE \E newOwner \in Agents : TransferOwnership(newOwner)
    BY <2>2 DEF TransferOwnership, IInv, TypeOK, outcome
  <2>3. CASE UNCHANGED vars
    BY <2>3 DEF vars, outcome, IInv, TypeOK
  <2> QED
    BY <2>1, <2>2, <2>3
<1>2. TypeOK'
  BY <1>1 DEF IInv, TypeOK
<1>3. PriceCoversReign'
  BY <1>1 DEF IInv, PriceCoversReign, Compensation, Commission
<1>4. overflown' \/ startingClaimPrice' <= currentClaimPrice'
  BY <1>1 DEF IInv, startingClaimPrice, finney
<1> QED
  BY <1>1, <1>2, <1>3, <1>4 DEF IInv

LEMMA StepKeeps ==
    ASSUME IInv, [Next]_vars
    PROVE  /\ IInv'
           /\ claims' # claims => balance' >= balance
           /\ claims' # claims => overflown' \/ currentClaimPrice' > currentClaimPrice
<1>1. CASE \E sender \in Agents, value \in Values, refunded, compensated \in BOOLEAN :
              ClaimThrone(sender, value, refunded, compensated)
  BY <1>1, ClaimKeeps
<1>2. CASE \E sender \in Agents : Fallback(sender)
  <2>1. PICK sender \in Agents, compensated \in BOOLEAN :
            ClaimThrone(sender, 0, TRUE, compensated)
    BY <1>2 DEF Fallback
  <2> QED
    BY <2>1, ClaimKeeps, ThroneAssumption
<1>3. CASE \/ \E amount \in Values : SweepCommission(amount)
           \/ \E newOwner \in Agents : TransferOwnership(newOwner)
           \/ UNCHANGED vars
  BY <1>3, OthersKeep
<1> QED
  BY <1>1, <1>2, <1>3 DEF Next

LEMMA Invariance == Spec => []IInv
<1>1. IInv /\ [Next]_vars => IInv'
  BY StepKeeps
<1> QED
  BY InitIInv, <1>1, PTL DEF Spec

\* The contract's state keeps its type; its balance never goes below zero.
THEOREM TypeCorrect == Spec => []TypeOK
<1>1. IInv => TypeOK
  BY DEF IInv
<1> QED
  BY <1>1, Invariance, PTL

\* Whoever claims, whatever is paid and whichever sends fail: a claim (claimThrone)
\* takes nothing of the money accumulated in the contract.
THEOREM ClaimsNeverDrain == Spec => ClaimsArePaidFor
<1>1. IInv /\ [Next]_vars => [claims' # claims => balance' >= balance]_vars
  BY StepKeeps
<1> QED
  BY <1>1, Invariance, PTL DEF Spec, ClaimsArePaidFor

\* No tier of the rounding in claimThrone stops the growth of the price.
THEOREM PriceAlwaysRises == Spec => PriceRises
<1>1. IInv /\ [Next]_vars =>
        [claims' # claims => overflown' \/ currentClaimPrice' > currentClaimPrice]_vars
  BY StepKeeps
<1> QED
  BY <1>1, Invariance, PTL DEF Spec, PriceRises

-----------------------------------------------------------------------------

\* What a step owes the usurped: the body of UsurpedAreRepaid.
SettlesWithUsurped ==
    claims' # claims /\ ~overflown /\ currentMonarch'.claimPrice >= currentClaimPrice =>
        \/ repaid' >= currentMonarch.claimPrice
        \/ /\ currentMonarch.etherAddress = wizardAddress \/ refused'
           /\ balance' >= balance + currentMonarch.claimPrice

LEMMA ClaimSettles ==
    ASSUME IInv, NEW sender \in Agents, NEW value \in Values,
           NEW refunded \in BOOLEAN, NEW compensated \in BOOLEAN,
           ClaimThrone(sender, value, refunded, compensated)
    PROVE  SettlesWithUsurped
<1> DEFINE p == currentClaimPrice
           spent == currentMonarch.claimPrice
<1> SUFFICES ASSUME ~overflown, currentMonarch'.claimPrice >= p
             PROVE  \/ repaid' >= spent
                    \/ /\ currentMonarch.etherAddress = wizardAddress \/ refused'
                       /\ balance' >= balance + spent
  BY DEF SettlesWithUsurped
<1>1. p \in Nat /\ spent \in Nat /\ balance \in Nat /\ value \in Nat
  BY ThroneAssumption DEF IInv, TypeOK
<1>2. ValuePaid(value) = p
  BY <1>1, SentWasReceived DEF IInv, ClaimThrone, Monarch
<1>3. /\ Compensation(p) \in 0 .. p
      /\ Compensation(p) >= spent
  BY <1>1, CompensationRange DEF IInv, PriceCoversReign
<1>4. CASE compensated /\ ~IsVacant
  BY <1>2, <1>3, <1>4 DEF ClaimThrone, Repaid
<1>5. CASE ~(compensated /\ ~IsVacant)
  <2>1. currentMonarch.etherAddress = wizardAddress \/ refused'
    BY <1>5 DEF ClaimThrone, IsVacant
  <2>2. Excess(value) \in Nat /\ value - Excess(value) = p
    BY <1>1, <1>2 DEF ValuePaid, Excess
  <2>3. Sent(value, refunded, compensated) \in 0 .. Excess(value)
    BY <1>5, <2>2 DEF Sent, Repaid
  <2>4. balance' = balance + value - Sent(value, refunded, compensated)
    BY DEF ClaimThrone
  <2>5. balance' >= balance + spent
    BY <1>1, <1>3, <2>2, <2>3, <2>4
  <2> QED
    BY <2>1, <2>5
<1> QED
  BY <1>4, <1>5

LEMMA StepSettles ==
    ASSUME IInv, [Next]_vars
    PROVE  SettlesWithUsurped
<1>1. CASE \E sender \in Agents, value \in Values, refunded, compensated \in BOOLEAN :
              ClaimThrone(sender, value, refunded, compensated)
  BY <1>1, ClaimSettles
<1>2. CASE \E sender \in Agents : Fallback(sender)
  <2>1. PICK sender \in Agents, compensated \in BOOLEAN :
            ClaimThrone(sender, 0, TRUE, compensated)
    BY <1>2 DEF Fallback
  <2> QED
    BY <2>1, ClaimSettles, ThroneAssumption
<1>3. CASE \/ \E amount \in Values : SweepCommission(amount)
           \/ \E newOwner \in Agents : TransferOwnership(newOwner)
           \/ UNCHANGED vars
  <2>1. claims' = claims
    BY <1>3, OthersKeep
  <2> QED
    BY <2>1 DEF SettlesWithUsurped
<1> QED
  BY <1>1, <1>2, <1>3 DEF Next

\* A claim at the price sends the usurped monarch what he has paid, unless he is the
\* wizard or refuses it: then claimThrone leaves as much in the contract.
THEOREM UsurpedMonarchsAreRepaid == Spec => UsurpedAreRepaid
<1>1. IInv /\ [Next]_vars => [SettlesWithUsurped]_vars
  BY StepSettles
<1> QED
  BY <1>1, Invariance, PTL DEF Spec, UsurpedAreRepaid, SettlesWithUsurped

=============================================================================
