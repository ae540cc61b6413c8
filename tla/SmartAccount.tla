----------------------------- MODULE SmartAccount -----------------------------
(***************************************************************************)
(* A user's smart account (smart-account/src): setupSmartAccount wraps the *)
(* EGLD it is paid and walks the strategy, each entry of which swaps,      *)
(* stakes, adds liquidity or enters a farm at contracts of third parties.  *)
(*                                                                         *)
(* The endpoint is one transaction made of synchronous calls. "call" is    *)
(* the transaction in flight with its own copy of the ledgers: the VM      *)
(* commits the copy when the endpoint returns and drops it when anything   *)
(* on the way fails. Between two calls the third party decides how much it *)
(* hands back, within what it promises.                                    *)
(***************************************************************************)
EXTENDS Allocation, FiniteSets

CONSTANTS
    Accounts,           \* smart accounts
    Deployer,           \* their owner, and the deployer address they hold
    Wrapper,            \* the EGLD wrapper
    Parties,            \* everybody else who holds EGLD
    NoAddress,          \* an address mapper that was never set
    WEGLD,              \* wrapped EGLD, a member of TokenIds
    Pairs,              \* pair contracts
    FirstToken,         \* the two tokens of a pair, in the pair's order
    SecondToken,
    FarmPair,           \* pair_contract_address in the storage of an address
    SmartContracts,     \* addresses for which is_smart_contract holds
    StakingContracts,   \* those of them that are farm-staking contracts
    StakedToken,        \* the one token a staking contract accepts
    ReceiptToken,       \* what a pair, farm or staking contract mints
    RewardToken,        \* what a farm or staking contract pays rewards in
    Yields,             \* amounts a third party may hand back
    Rewards,            \* amounts a farm or staking contract may add
    Deposits,           \* EGLD payments tried
    Plans,              \* strategies the deployer may pass
    StakingBooks,       \* settings of farmStakingAddressForToken tried
    Funding             \* EGLD the deployer can pass on in all

Holders == Parties \cup Accounts \cup {Deployer, Wrapper}
Farms == {address \in Addresses : FarmPair[address] # NoAddress}
Payment == [token : TokenIds, amount : Nat]

\* An allocation of the whole deposit: what the strategy book guarantees.
Complete(list) ==
    /\ list \in Seq(Strategy)
    /\ Len(list) \in 1..MAX_STRATEGIES_NO
    /\ TotalPercentage(list) = MAX_PERCENTAGE

ASSUME LedgerAssumption ==
    /\ Deployer # Wrapper
    /\ Accounts \cap (Parties \cup {Deployer, Wrapper}) = {}
    /\ NoAddress \notin Accounts \cup Pairs \cup SmartContracts
    /\ Deposits \subseteq Nat
    /\ Funding \in Nat
    /\ Yields \subseteq Nat \ {0}
    /\ Rewards \subseteq Nat

ASSUME MarketAssumption ==
    /\ WEGLD \in TokenIds
    /\ Pairs \subseteq Addresses
    /\ FirstToken \in [Pairs -> TokenIds]
    /\ SecondToken \in [Pairs -> TokenIds]
    /\ \A pair \in Pairs : FirstToken[pair] # SecondToken[pair]
    /\ FarmPair \in [Addresses -> Pairs \cup {NoAddress}]
    /\ StakingContracts \subseteq SmartContracts
    /\ StakedToken \in [StakingContracts -> TokenIds]
    /\ ReceiptToken \in [Pairs \cup Farms \cup StakingContracts -> TokenIds \ {WEGLD}]
    /\ RewardToken \in [Farms \cup StakingContracts -> TokenIds]
    /\ StakingBooks \subseteq [TokenIds -> SmartContracts \cup {NoAddress}]

ASSUME PlansAssumption == \A plan \in Plans : Complete(plan)

VARIABLES
    userRiskTolerance,  \* per account; 0 while never set
    userStrategy,
    userPortfolio,
    egld,               \* EGLD of every holder
    esdt,               \* tokens of every account
    farmStakingAddressForToken,  \* in the deployer's storage
    call                \* the transaction in flight, or NoCall

storageVars == <<userRiskTolerance, userStrategy, userPortfolio>>
ledgerVars == <<egld, esdt>>
accountVars == <<storageVars, ledgerVars, farmStakingAddressForToken, call>>

-----------------------------------------------------------------------------
NoCall == [pc |-> "idle"]

(***************************************************************************)
(* plan, payment, step: the arguments and the position in the loop.        *)
(* received: what the last external call returned. egld, esdt, portfolio:  *)
(* the journal. sent: the WEGLD transferred so far (history, not code).    *)
(***************************************************************************)
Call == [pc : {"wrap", "swap", "stake", "liquidity", "farm", "return"},
         account : Accounts,
         risk : Nat,
         plan : Seq(Strategy),
         payment : Nat,
         step : Nat,
         received : Payment,
         sent : Nat,
         portfolio : Seq(Payment),
         egld : [Holders -> Nat],
         esdt : [TokenIds -> Nat]]

Transfer(ledger, from, to, amount) ==
    LET debited == [ledger EXCEPT ![from] = @ - amount]
    IN  [debited EXCEPT ![to] = @ + amount]

Credit(wallet, payment) == [wallet EXCEPT ![payment.token] = @ + payment.amount]
Debit(wallet, payment) == [wallet EXCEPT ![payment.token] = @ - payment.amount]
Covered(wallet, payment) == payment.amount > 0 /\ wallet[payment.token] >= payment.amount

CurrentStep == call.plan[call.step]

PairOf(entry) == IF entry.position_type = "Farm"
                 THEN FarmPair[entry.contract_address]
                 ELSE entry.contract_address

\* save_user_position pushes onto a local copy; the mapper is not set.
SaveUserPosition(portfolio, user_position) == portfolio

\* The end of one entry and the head of the loop in setup_smart_account.
Advance(c) ==
    LET saved == [c EXCEPT !.portfolio = SaveUserPosition(@, c.received)]
    IN  IF c.step = Len(c.plan)
        THEN [saved EXCEPT !.pc = "return"]
        ELSE [saved EXCEPT !.pc = "swap", !.step = @ + 1]

-----------------------------------------------------------------------------
SmartAccountInit ==
    /\ userRiskTolerance = [account \in Accounts |-> 0]
    /\ userStrategy = [account \in Accounts |-> <<>>]
    /\ userPortfolio = [account \in Accounts |-> <<>>]
    /\ egld = [holder \in Holders |-> IF holder = Deployer THEN Funding ELSE 0]
    /\ esdt = [account \in Accounts |-> [token \in TokenIds |-> 0]]
    /\ farmStakingAddressForToken \in StakingBooks
    /\ call = NoCall

\* The call of setupSmartAccount by its owner; "ledger" is the EGLD once the
\* payment has reached the account.
SetupSmartAccount(caller, account, risk_tolerance, user_strategy, payment, ledger) ==
    /\ call = NoCall
    /\ caller = Deployer
    /\ call' = [pc |-> "wrap",
                account |-> account,
                risk |-> risk_tolerance,
                plan |-> user_strategy,
                payment |-> payment,
                step |-> 1,
                received |-> [token |-> WEGLD, amount |-> 0],
                sent |-> 0,
                portfolio |-> userPortfolio[account],
                egld |-> ledger,
                esdt |-> esdt[account]]
    /\ UNCHANGED <<storageVars, ledgerVars, farmStakingAddressForToken>>

\* The wrapper takes the payment and returns as much WEGLD, in one payment; it
\* refuses an empty one. Then the arguments are checked.
CallWrapEgld ==
    /\ call.pc = "wrap"
    /\ call.payment > 0
    /\ call.egld[call.account] >= call.payment
    /\ call.plan # <<>>
    /\ call.risk <= MAX_RISK_TOLERANCE
    /\ LET wrapped == [token |-> WEGLD, amount |-> call.payment]
       IN  call' = [call EXCEPT
                      !.pc = "swap",
                      !.received = wrapped,
                      !.egld = Transfer(@, call.account, Wrapper, call.payment),
                      !.esdt = Credit(@, wrapped)]
    /\ UNCHANGED <<storageVars, ledgerVars, farmStakingAddressForToken>>

\* The pair swaps WEGLD for the output token, if these are its two tokens.
CallPairSwap ==
    /\ call.pc = "swap"
    /\ LET entry == CurrentStep
           pair  == PairOf(entry)
           input == [token |-> WEGLD, amount |-> TransferAmount(call.payment, entry)]
       IN  /\ pair \in Pairs
           /\ {FirstToken[pair], SecondToken[pair]} = {WEGLD, entry.output_token_id}
           /\ Covered(call.esdt, input)
           /\ \E amount \in Yields :
                 LET output  == [token |-> entry.output_token_id, amount |-> amount]
                     swapped == [call EXCEPT !.received = output,
                                             !.sent = @ + input.amount,
                                             !.esdt = Credit(Debit(@, input), output)]
                 IN  /\ amount >= SWAP_MIN_AMOUNT
                     /\ \/ /\ entry.position_type = "ESDT"
                           /\ call' = Advance(swapped)
                        \/ /\ entry.position_type = "Staking"
                           /\ call' = [swapped EXCEPT !.pc = "stake"]
                        \/ /\ Paired(entry)
                           /\ call' = [swapped EXCEPT !.pc = "liquidity"]
    /\ UNCHANGED <<storageVars, ledgerVars, farmStakingAddressForToken>>

\* A farm or staking contract takes what was received, mints its receipt and may
\* pay rewards besides.
Enter(contract) ==
    /\ Covered(call.esdt, call.received)
    /\ \E amount \in Yields, reward \in Rewards :
          LET receipt == [token |-> ReceiptToken[contract], amount |-> amount]
              rewards == [token |-> RewardToken[contract], amount |-> reward]
          IN  call' = Advance([call EXCEPT
                         !.received = receipt,
                         !.esdt = Credit(Credit(Debit(@, call.received), receipt), rewards)])
    /\ UNCHANGED <<storageVars, ledgerVars, farmStakingAddressForToken>>

CallFarmStakingStake ==
    /\ call.pc = "stake"
    /\ LET staking == farmStakingAddressForToken[CurrentStep.output_token_id]
       IN  /\ staking \in StakingContracts
           /\ StakedToken[staking] = call.received.token
           /\ Enter(staking)

CallEnterFarm ==
    /\ call.pc = "farm"
    /\ Enter(CurrentStep.contract_address)

\* Mutants of LiquidityPayments: WEGLD always first, and all of the token the
\* account holds in place of what the swap returned.
WegldFirst(pair, half_investment, swap_output) ==
    <<[token |-> WEGLD, amount |-> half_investment], swap_output>>

WholeBalance(pair, half_investment, swap_output) ==
    LET wegld == [token |-> WEGLD, amount |-> half_investment]
        other == [swap_output EXCEPT !.amount = call.esdt[swap_output.token]]
    IN  IF FirstToken[pair] = WEGLD THEN <<wegld, other>> ELSE <<other, wegld>>

\* The WEGLD half and the whole output of the swap, in the pair's token order.
LiquidityPayments(pair, half_investment, swap_output) ==
    IF FirstToken[pair] = WEGLD
    THEN <<[token |-> FirstToken[pair], amount |-> half_investment], swap_output>>
    ELSE <<swap_output, [token |-> SecondToken[pair], amount |-> half_investment]>>

InPairOrder(pair, payments) ==
    /\ payments[1].token = FirstToken[pair]
    /\ payments[2].token = SecondToken[pair]

\* The pair uses all of one payment and, as its ratio allows, "used" of the one on
\* this side; it returns the rest with the LP tokens it mints.
LiquidityAdded(entry, payments, half, side, used, minted) ==
    LET wallet == Debit(Debit(call.esdt, payments[1]), payments[2])
        rest   == [payments[side] EXCEPT !.amount = @ - used]
        lp     == [token |-> ReceiptToken[PairOf(entry)], amount |-> minted]
        added  == [call EXCEPT !.received = lp,
                               !.sent = @ + half,
                               !.esdt = Credit(Credit(wallet, rest), lp)]
    IN  IF entry.position_type = "Farm"
        THEN [added EXCEPT !.pc = "farm"]
        ELSE Advance(added)

CallPairAddLiquidity ==
    /\ call.pc = "liquidity"
    /\ LET entry    == CurrentStep
           half     == TransferAmount(call.payment, entry)
           payments == LiquidityPayments(PairOf(entry), half, call.received)
       IN  /\ InPairOrder(PairOf(entry), payments)
           /\ Covered(call.esdt, payments[1])
           /\ Covered(call.esdt, payments[2])
           /\ \E side \in {1, 2}, minted \in Yields :
              \E used \in 1..payments[side].amount :
                 call' = LiquidityAdded(entry, payments, half, side, used, minted)
    /\ UNCHANGED <<storageVars, ledgerVars, farmStakingAddressForToken>>

\* Mutants: Return without user_risk_tolerance().set (lib.rs:71), and a failure that
\* leaves the EGLD where it got to.
ReturnSameLevel ==
    /\ call.pc = "return"
    /\ userStrategy' = [userStrategy EXCEPT ![call.account] = call.plan]
    /\ userPortfolio' = [userPortfolio EXCEPT ![call.account] = call.portfolio]
    /\ egld' = call.egld
    /\ esdt' = [esdt EXCEPT ![call.account] = call.esdt]
    /\ call' = NoCall
    /\ UNCHANGED <<userRiskTolerance, farmStakingAddressForToken>>

FailHalfway ==
    /\ call # NoCall
    /\ egld' = call.egld
    /\ call' = NoCall
    /\ UNCHANGED <<storageVars, esdt, farmStakingAddressForToken>>

\* The endpoint returns and the VM commits the journal.
Return ==
    /\ call.pc = "return"
    /\ userRiskTolerance' = [userRiskTolerance EXCEPT ![call.account] = call.risk]
    /\ userStrategy' = [userStrategy EXCEPT ![call.account] = call.plan]
    /\ userPortfolio' = [userPortfolio EXCEPT ![call.account] = call.portfolio]
    /\ egld' = call.egld
    /\ esdt' = [esdt EXCEPT ![call.account] = call.esdt]
    /\ call' = NoCall
    /\ UNCHANGED farmStakingAddressForToken

\* A require!, a third party or the gas meter ends the transaction: all reverts.
Fail ==
    /\ call # NoCall
    /\ call' = NoCall
    /\ UNCHANGED <<storageVars, ledgerVars, farmStakingAddressForToken>>

Proceed == \/ CallWrapEgld \/ CallPairSwap \/ CallFarmStakingStake
           \/ CallPairAddLiquidity \/ CallEnterFarm \/ Return

CallStep == Proceed \/ Fail

\* Between two calls the owner of the deployer may set other staking contracts.
ChangeStaking ==
    /\ call = NoCall
    /\ farmStakingAddressForToken' \in StakingBooks
    /\ UNCHANGED <<storageVars, ledgerVars, call>>

SmartAccountNext ==
    \/ ChangeStaking
    \/ \E caller \in {Deployer} \cup Parties, account \in Accounts,
          risk \in RiskLevels, plan \in Plans, payment \in Deposits :
             /\ egld[caller] >= payment
             /\ SetupSmartAccount(caller, account, risk, plan, payment,
                                  Transfer(egld, caller, account, payment))
    \/ CallStep

\* The VM executes the transaction it is in for as long as it can go on.
SmartAccountSpec ==
    /\ SmartAccountInit
    /\ [][SmartAccountNext]_accountVars
    /\ WF_accountVars(Proceed)
-----------------------------------------------------------------------------
SmartAccountTypeOK ==
    /\ userRiskTolerance \in [Accounts -> RiskLevels]
    /\ userStrategy \in [Accounts -> Seq(Strategy)]
    /\ userPortfolio \in [Accounts -> Seq(Payment)]
    /\ egld \in [Holders -> Nat]
    /\ esdt \in [Accounts -> [TokenIds -> Nat]]
    /\ farmStakingAddressForToken \in [TokenIds -> SmartContracts \cup {NoAddress}]
    /\ call \in Call \cup {NoCall}

\* WEGLD the entry in progress has still to transfer.
Due == IF call.pc = "swap" THEN EntryAmount(call.payment, CurrentStep)
       ELSE IF call.pc = "liquidity" THEN TransferAmount(call.payment, CurrentStep)
       ELSE 0

Walking == call.pc \notin {"idle", "wrap"}

PairedUpTo(list, n) == Cardinality({i \in 1..n : Paired(list[i])})

\* Whatever was rounded and whatever a pair handed back, every transfer is paid
\* for by the deposit of this very call: WEGLD that earlier calls left in the
\* account is never invested. The balance check is commented out
\* (lib.rs:105-112), so nothing in the code looks.
DepositCoversTransfers ==
    call.pc \in {"swap", "liquidity"} =>
        call.esdt[WEGLD] >= esdt[call.account][WEGLD] + Due

\* At most one unit may be lost to the division by MAX_PERCENTAGE for each entry,
\* the last one excepted, and one more to the halving of a paired entry; all the
\* rest of the deposit has been sent when the endpoint returns. What is lost stays
\* in the account, where no endpoint can reach it.
DustIsBounded ==
    call.pc = "return" =>
        call.payment + 1 <= call.sent + Len(call.plan) + PairedUpTo(call.plan, Len(call.plan))

\* The pair never has the account to blame for a refused liquidity: both payments
\* are in the pair's own token order, whichever side WEGLD is on
\* (lib.rs:150-160, 193-203), not void, and in the wallet.
LiquidityIsAccepted ==
    call.pc = "liquidity" =>
        LET pair     == PairOf(CurrentStep)
            payments == LiquidityPayments(pair, TransferAmount(call.payment, CurrentStep),
                                          call.received)
        IN  /\ InPairOrder(pair, payments)
            /\ \A i \in {1, 2} : Covered(call.esdt, payments[i])

\* The token a finished entry leaves in the account.
PositionToken(entry) ==
    CASE entry.position_type = "ESDT" -> entry.output_token_id
      [] entry.position_type = "Staking" ->
             ReceiptToken[farmStakingAddressForToken[entry.output_token_id]]
      [] OTHER -> ReceiptToken[entry.contract_address]

\* An entry lives on what its own calls returned: the positions earlier entries of
\* the plan opened, and those of earlier calls, are all still there when it ends,
\* even where two entries share a token, a pair or a farm, or the staking contract of
\* a token was replaced in between (config.rs:19 of the deployer).
EarlierPositionsSurvive ==
    call.pc \in {"swap", "return"} =>
        LET opened == IF call.pc = "return" THEN DOMAIN call.plan ELSE 1..(call.step - 1)
        IN  \A token \in TokenIds \ {WEGLD} :
               call.esdt[token] >= esdt[call.account][token]
                   + Cardinality({i \in opened : PositionToken(call.plan[i]) = token})

(***************************************************************************)
(* The invariant behind DepositCoversTransfers, DustIsBounded and          *)
(* LiquidityIsAccepted. Budget and loss are those of the entries up to the *)
(* one in progress, what is due of it counted as sent.                     *)
(***************************************************************************)
ArgumentsChecked ==
    call # NoCall =>
        /\ Complete(call.plan)
        /\ call.step \in 1..Len(call.plan)
        /\ call.pc = "wrap" => call.sent = 0 /\ call.step = 1
                               /\ call.esdt = esdt[call.account]
        /\ Walking => call.risk \in RiskLevels
        /\ call.pc = "return" => call.step = Len(call.plan)

BudgetKept ==
    Walking => MAX_PERCENTAGE * (call.sent + Due)
                  <= call.payment * PercentageBefore(call.plan, call.step + 1)

LossBounded ==
    Walking => call.payment * PercentageBefore(call.plan, call.step + 1)
                  <= MAX_PERCENTAGE * (call.sent + Due) + (MAX_PERCENTAGE - 1) * call.step
                        + MAX_PERCENTAGE * PairedUpTo(call.plan, call.step)

DepositInWallet ==
    Walking => call.esdt[WEGLD] + call.sent >= esdt[call.account][WEGLD] + call.payment

OutputInHand ==
    /\ call.pc \in {"stake", "liquidity", "farm"} => call.received.token # WEGLD
    /\ call.pc \in {"liquidity", "farm"} => PairOf(CurrentStep) \in Pairs
    /\ call.pc = "farm" => CurrentStep.position_type = "Farm"
    /\ call.pc = "liquidity" =>
          /\ {FirstToken[PairOf(CurrentStep)], SecondToken[PairOf(CurrentStep)]}
                = {WEGLD, call.received.token}
          /\ Paired(CurrentStep)
          /\ Covered(call.esdt, call.received)
          /\ TransferAmount(call.payment, CurrentStep) > 0

\* The inductive invariant: together these imply the three properties above.
SmartAccountInv ==
    /\ SmartAccountTypeOK
    /\ ArgumentsChecked
    /\ BudgetKept
    /\ LossBounded
    /\ DepositInWallet
    /\ OutputInHand

\* The market can execute an entry: the pair trades its token, a staking contract
\* is set for it, and its share of the deposit does not vanish in the rounding.
Executable(entry) ==
    /\ PairOf(entry) \in Pairs
    /\ {FirstToken[PairOf(entry)], SecondToken[PairOf(entry)]} = {WEGLD, entry.output_token_id}
    /\ entry.position_type = "Staking" =>
          LET staking == farmStakingAddressForToken[entry.output_token_id]
          IN  staking \in StakingContracts /\ StakedToken[staking] = entry.output_token_id
    /\ TransferAmount(call.payment, entry) > 0

\* A deposit whose plan the market can execute is walked to the end, whatever mix
\* of entries precedes another and whatever amounts come back: the account never
\* brings itself to a call it cannot make. Failures are possible, never needed.
ExecutablePlansComplete ==
    (call # NoCall /\ \A i \in DOMAIN call.plan : Executable(call.plan[i])) ~> call = NoCall

\* README.md:97: user_portfolio "maintains the list of active positions".
PortfolioListsPositions ==
    \A account \in Accounts :
        call = NoCall /\ userStrategy[account] # <<>> => userPortfolio[account] # <<>>
=============================================================================
