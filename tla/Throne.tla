------------------------------- MODULE Throne -------------------------------
(***************************************************************************)
(* KingOfTheEtherThrone.sol, the contract the test network runs.  Agents   *)
(* pay to become monarch, the payment less a commission goes to the        *)
(* monarch they usurp, and the wizard may sweep what is left in the        *)
(* contract.  A call runs to its end before the next one; a send hands on  *)
(* too little gas for the receiver to call back, and its failure is not    *)
(* looked at: the money stays in the contract.                             *)
(***************************************************************************)
EXTENDS Integers

CONSTANTS
    Agents,             \* addresses
    Values,             \* amounts of wei a call may come with or ask for
    Modulus,            \* bound: 2^256 in the code
    Tick,               \* wei in 100 szabo: 10^14 in the code
    MaxClaims,          \* bound on claims, paid or not
    MaxPaid             \* bound on claims that pay something

ASSUME ThroneAssumption ==
    /\ Values \subseteq 0 .. Modulus - 1 /\ 0 \in Values
    /\ Tick \in Nat \ {0}
    /\ Modulus \in Nat /\ 1000 * Tick < Modulus
    /\ MaxClaims \in Nat /\ MaxPaid \in Nat

finney == 10 * Tick
ether  == 1000 * finney

VARIABLES
    wizardAddress,
    currentClaimPrice,
    currentMonarch,     \* address and claimPrice; name and time are left out
    balance,            \* wei the contract holds
    claims, paid,       \* how many there have been
    overflown,          \* a claim price has overflown
    repaid,             \* wei the last claim sent to the monarch it usurped
    refused             \* that send was made and failed

\* What the last claim did about the monarch it usurped: for the properties to see.
outcome == <<repaid, refused>>

vars == <<wizardAddress, currentClaimPrice, currentMonarch, balance, claims, paid,
          overflown, outcome>>

Monarch(address, price) == [etherAddress |-> address, claimPrice |-> price]

startingClaimPrice == 100 * finney

Init ==
    /\ wizardAddress \in Agents
    /\ currentClaimPrice = startingClaimPrice
    /\ currentMonarch = Monarch(wizardAddress, 0)
    /\ balance = 0
    /\ claims = 0 /\ paid = 0
    /\ overflown = FALSE
    /\ repaid = 0 /\ refused = FALSE

-----------------------------------------------------------------------------

Raw(price) == ((price * 3) % Modulus) \div 2

StepCoarse(raw) == IF raw < 10 * finney THEN 1 ELSE ether

\* What the price is rounded down to a multiple of.
Step(raw) ==
    IF raw < 10 * finney          THEN 1
    ELSE IF raw < 100 * finney    THEN Tick
    ELSE IF raw < ether           THEN finney
    ELSE IF raw < 10 * ether      THEN 10 * finney
    ELSE IF raw < 100 * ether     THEN 100 * finney
    ELSE IF raw < 1000 * ether    THEN ether
    ELSE IF raw < 10000 * ether   THEN 10 * ether
    ELSE 1

Rounded(raw) == Step(raw) * (raw \div Step(raw))

NextPrice(price) == Rounded(Raw(price))

Commission(amount) == amount \div 100

\* What is paid too much is refunded.
Excess(value) ==
    IF value > currentClaimPrice THEN value - currentClaimPrice ELSE 0

PaidInFull(value) == value

ValuePaid(value) == value - Excess(value)

Compensation(amount) == amount - Commission(amount)

\* The throne is vacant while the wizard sits on it, whoever he is by now.
IsVacant == currentMonarch.etherAddress = wizardAddress

Repaid(value, compensated) ==
    IF compensated /\ ~IsVacant THEN Compensation(ValuePaid(value)) ELSE 0

\* What leaves the contract in a claim: the refund and, if somebody but the wizard
\* reigns, the compensation; each only if its send succeeds.
Sent(value, refunded, compensated) ==
    (IF refunded THEN Excess(value) ELSE 0) + Repaid(value, compensated)

ClaimThrone(sender, value, refunded, compensated) ==
    /\ claims < MaxClaims
    /\ value = 0 \/ paid < MaxPaid
    /\ balance' = balance + value - Sent(value, refunded, compensated)
    /\ currentMonarch' = Monarch(sender, ValuePaid(value))
    /\ currentClaimPrice' = NextPrice(currentClaimPrice)
    /\ overflown' = (overflown \/ currentClaimPrice * 3 >= Modulus)
    /\ claims' = claims + 1
    /\ paid' = IF value = 0 THEN paid ELSE paid + 1
    /\ repaid' = Repaid(value, compensated)
    /\ refused' = (~compensated /\ ~IsVacant)
    /\ UNCHANGED wizardAddress

\* A plain transaction: the fallback function takes no money.
Fallback(sender) ==
    \E compensated \in BOOLEAN : ClaimThrone(sender, 0, TRUE, compensated)

\* onlywizard: for anybody else nothing happens.  A send of more than there is fails.
SweepCommission(amount) ==
    /\ amount <= balance
    /\ balance' = balance - amount
    /\ UNCHANGED <<wizardAddress, currentClaimPrice, currentMonarch, claims, paid,
                   overflown, outcome>>

TransferOwnership(newOwner) ==
    /\ wizardAddress' = newOwner
    /\ UNCHANGED <<currentClaimPrice, currentMonarch, balance, claims, paid, overflown,
                   outcome>>

Next ==
    \/ \E sender \in Agents, value \in Values, refunded, compensated \in BOOLEAN :
          ClaimThrone(sender, value, refunded, compensated)
    \/ \E sender \in Agents : Fallback(sender)
    \/ \E amount \in Values : SweepCommission(amount)
    \/ \E newOwner \in Agents : TransferOwnership(newOwner)

Spec == Init /\ [][Next]_vars

-----------------------------------------------------------------------------

TypeOK ==
    /\ wizardAddress \in Agents
    /\ currentClaimPrice \in 0 .. Modulus - 1
    /\ currentMonarch \in [etherAddress : Agents, claimPrice : 0 .. Modulus - 1]
    /\ balance \in Nat
    /\ claims \in 0 .. MaxClaims /\ paid \in 0 .. MaxPaid
    /\ overflown \in BOOLEAN
    /\ repaid \in Nat /\ refused \in BOOLEAN

\* A claim is paid for by the claimant: refund and compensation together never
\* take anything of the money that has accumulated for the wizard.
ClaimsArePaidFor == [][claims' # claims => balance' >= balance]_vars

\* However the price is rounded, it rises with every claim, until it overflows.
PriceRises ==
    [][claims' # claims => overflown' \/ currentClaimPrice' > currentClaimPrice]_vars

\* A claim that pays the price sends the monarch it usurps at least what the throne
\* has cost him, the commission held back and the roundings of the price on the way
\* included, until the price overflows.  Only if he is the wizard by now, or refuses
\* the money, is he sent nothing, and then at least as much stays for the wizard.
UsurpedAreRepaid ==
    [][claims' # claims /\ ~overflown /\ currentMonarch'.claimPrice >= currentClaimPrice =>
          \/ repaid' >= currentMonarch.claimPrice
          \/ /\ currentMonarch.etherAddress = wizardAddress \/ refused'
             /\ balance' >= balance + currentMonarch.claimPrice]_vars

=============================================================================
