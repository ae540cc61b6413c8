----------------------------- MODULE Allocation -----------------------------
(***************************************************************************)
(* The vocabulary the two contracts share: the Strategy entry of           *)
(* smart-account/src/lib.rs, the limits of smart-account/src/config.rs and *)
(* smart-account-deployer/src/strategies.rs, and the arithmetic that turns *)
(* a deposit and a percentage into an amount to invest.                    *)
(*                                                                         *)
(* A list of entries has at most MAX_STRATEGIES_NO = 5 of them wherever    *)
(* its percentages are added up, so sums and concatenations over a list    *)
(* are written out slot by slot: no recursion, hence open to proof.        *)
(***************************************************************************)
EXTENDS Naturals, Sequences

CONSTANTS
    U64,        \* 2^64, the modulus of the u64 arithmetic
    Addresses,  \* contract addresses an entry may name
    TokenIds    \* token identifiers an entry may name

ASSUME U64Assumption == U64 \in Nat \ {0}

MAX_PERCENTAGE == 10000
MAX_RISK_TOLERANCE == 5
MAX_STRATEGIES_NO == 5
SWAP_MIN_AMOUNT == 1

RiskLevels == 0..MAX_RISK_TOLERANCE

PositionType == {"ESDT", "Staking", "LP", "Farm"}

Strategy == [percentage : 0..(U64 - 1),
             position_type : PositionType,
             contract_address : Addresses,
             output_token_id : TokenIds]

(***************************************************************************)
(* The loop of setStrategiesPerEpoch: entries of percentage zero are       *)
(* skipped, the others are pushed in order and their percentages added.    *)
(***************************************************************************)
Slot(list, i) == IF i \in DOMAIN list THEN list[i].percentage ELSE 0

\* What the entries before position i add up to.
PercentageBefore(list, i) ==
    LET Below(j) == IF j < i THEN Slot(list, j) ELSE 0
    IN  Below(1) + Below(2) + Below(3) + Below(4) + Below(5)

TotalPercentage(list) == PercentageBefore(list, MAX_STRATEGIES_NO + 1)

\* total_percentage as the contract holds it: u64, built without overflow checks.
WrappedTotal(list) == TotalPercentage(list) % U64

\* Mutant of Kept: void entries are stored too.
KeptWithVoids(list) == list

Kept(list) ==
    LET Keep(i) == IF Slot(list, i) = 0 THEN <<>> ELSE <<list[i]>>
    IN  Keep(1) \o Keep(2) \o Keep(3) \o Keep(4) \o Keep(5)

(***************************************************************************)
(* Amounts are BigUint: unbounded, and both divisions round down.          *)
(***************************************************************************)

\* Mutants: rounded up, and halved twice.
InvestmentRoundedUp(total_amount, percentage) ==
    (total_amount * percentage + MAX_PERCENTAGE - 1) \div MAX_PERCENTAGE
QuarterInvestment(investment_amount) == investment_amount \div 4

InvestmentAmount(total_amount, percentage) ==
    (total_amount * percentage) \div MAX_PERCENTAGE

HalfInvestment(investment_amount) == investment_amount \div 2

\* LP and Farm entries swap one half and pair the other with the swap's output.
Paired(step) == step.position_type \in {"LP", "Farm"}

\* Mutant of TransferAmount: nothing is halved.
TransferWhole(total_amount, step) == InvestmentAmount(total_amount, step.percentage)

\* What one transfer of this entry carries: the swap's input and, for a paired
\* entry, also the WEGLD side of the liquidity.
TransferAmount(total_amount, step) ==
    LET investment == InvestmentAmount(total_amount, step.percentage)
    IN  IF Paired(step) THEN HalfInvestment(investment) ELSE investment

\* What all transfers of this entry carry.
EntryAmount(total_amount, step) ==
    IF Paired(step) THEN 2 * TransferAmount(total_amount, step)
                    ELSE TransferAmount(total_amount, step)
=============================================================================
