----------------------------- MODULE Strategies -----------------------------
(***************************************************************************)
(* The strategy book of the deployer contract                              *)
(* (smart-account-deployer/src/strategies.rs) and the admin address that   *)
(* guards it (config.rs): for every block epoch and risk tolerance, at     *)
(* most one list of weighted entries, and the epoch of the last list.      *)
(*                                                                         *)
(* Transactions run one after the other, so each endpoint is one action;   *)
(* a failed require! reverts the transaction and leaves no step.           *)
(***************************************************************************)
EXTENDS Allocation

CONSTANTS
    Owner,          \* owner of the deployer contract
    Admins,         \* addresses the owner may pass to setAdminAddress
    ZeroAddress,
    RiskInputs,     \* u64 arguments tried as a risk tolerance
    Submissions,    \* argument lists tried as risk_strategies
    MaxEpoch        \* bound on the block epoch

Epochs == 0..MaxEpoch

ASSUME StrategiesAssumption ==
    /\ MaxEpoch \in Nat
    /\ RiskInputs \subseteq Nat
    /\ Submissions \subseteq Seq(Strategy)

VARIABLES
    epoch,              \* block epoch, moved by the chain
    adminAddress,
    strategies,         \* strategies[epoch][risk]; <<>> is an empty mapper
    lastStrategyEpoch   \* 0 while the mapper is empty

strategiesVars == <<epoch, adminAddress, strategies, lastStrategyEpoch>>

StrategiesInit ==
    /\ epoch \in Epochs
    /\ adminAddress \in Admins \ {ZeroAddress}
    /\ strategies = [e \in Epochs |-> [r \in RiskLevels |-> <<>>]]
    /\ lastStrategyEpoch = 0

AdvanceEpoch ==
    /\ epoch < MaxEpoch
    /\ epoch' = epoch + 1
    /\ UNCHANGED <<adminAddress, strategies, lastStrategyEpoch>>

\* Mutants of SetStrategiesPerEpoch: without the checks of strategies.rs:37 and :58-61,
\* and without the update of the pointer (:65).
SetStrategiesAgain(caller, risk_tolerance, risk_strategies) ==
    /\ caller = adminAddress
    /\ Len(risk_strategies) <= MAX_STRATEGIES_NO
    /\ risk_tolerance <= MAX_RISK_TOLERANCE
    /\ WrappedTotal(risk_strategies) = MAX_PERCENTAGE
    /\ strategies' = [strategies EXCEPT ![epoch][risk_tolerance] = Kept(risk_strategies)]
    /\ lastStrategyEpoch' = epoch
    /\ UNCHANGED <<epoch, adminAddress>>

SetAnyStrategies(caller, risk_tolerance, risk_strategies) ==
    /\ caller = adminAddress
    /\ Len(risk_strategies) <= MAX_STRATEGIES_NO
    /\ risk_tolerance <= MAX_RISK_TOLERANCE
    /\ strategies[epoch][risk_tolerance] = <<>>
    /\ strategies' = [strategies EXCEPT ![epoch][risk_tolerance] = Kept(risk_strategies)]
    /\ lastStrategyEpoch' = epoch
    /\ UNCHANGED <<epoch, adminAddress>>

SetStrategiesUnannounced(caller, risk_tolerance, risk_strategies) ==
    /\ caller = adminAddress
    /\ Len(risk_strategies) <= MAX_STRATEGIES_NO
    /\ risk_tolerance <= MAX_RISK_TOLERANCE
    /\ strategies[epoch][risk_tolerance] = <<>>
    /\ WrappedTotal(risk_strategies) = MAX_PERCENTAGE
    /\ strategies' = [strategies EXCEPT ![epoch][risk_tolerance] = Kept(risk_strategies)]
    /\ UNCHANGED <<epoch, adminAddress, lastStrategyEpoch>>

SetAdminAddress(caller, admin_address) ==
    /\ caller = Owner
    /\ admin_address # ZeroAddress
    /\ adminAddress' = admin_address
    /\ UNCHANGED <<epoch, strategies, lastStrategyEpoch>>

SetStrategiesPerEpoch(caller, risk_tolerance, risk_strategies) ==
    /\ caller = adminAddress
    /\ Len(risk_strategies) <= MAX_STRATEGIES_NO
    /\ risk_tolerance <= MAX_RISK_TOLERANCE
    /\ strategies[epoch][risk_tolerance] = <<>>
    /\ WrappedTotal(risk_strategies) = MAX_PERCENTAGE
    /\ strategies' = [strategies EXCEPT ![epoch][risk_tolerance] = Kept(risk_strategies)]
    /\ lastStrategyEpoch' = epoch
    /\ UNCHANGED <<epoch, adminAddress>>

StrategiesNext ==
    \/ AdvanceEpoch
    \/ \E caller \in Admins \cup {Owner} :
          \/ \E admin \in Admins : SetAdminAddress(caller, admin)
          \/ \E risk \in RiskInputs, list \in Submissions :
                SetStrategiesPerEpoch(caller, risk, list)

StrategiesSpec == StrategiesInit /\ [][StrategiesNext]_strategiesVars

-----------------------------------------------------------------------------
(***************************************************************************)
(* What initializeSmartAccount reads: the lists of the last epoch.         *)
(***************************************************************************)
Offer(risk) == strategies[lastStrategyEpoch][risk]

Published(e) == {r \in RiskLevels : strategies[e][r] # <<>>}

\* No list that may be submitted adds up beyond u64.
NoOverflow == \A list \in Submissions :
                 Len(list) <= MAX_STRATEGIES_NO => TotalPercentage(list) < U64

StrategiesTypeOK ==
    /\ epoch \in Epochs
    /\ adminAddress \in Admins \ {ZeroAddress}
    /\ strategies \in [Epochs -> [RiskLevels -> Seq(Strategy)]]
    /\ lastStrategyEpoch \in Epochs

\* Every stored list is a complete allocation: one to five entries, none of
\* them void, whose true percentages add up to 100%. The contract checks a
\* running u64 total over the submitted entries (strategies.rs:39-61) and stores
\* the entries that survive the skip at line 45, which is not the same list.
ListsAreComplete ==
    \A e \in Epochs : \A r \in Published(e) :
        LET list == strategies[e][r]
        IN  /\ Len(list) \in 1..MAX_STRATEGIES_NO
            /\ \A i \in DOMAIN list : list[i].percentage > 0
            /\ TotalPercentage(list) = MAX_PERCENTAGE

\* README.md:111, "total allocation must equal 100%". The total is a u64 and wraps
\* in a build without overflow checks (strategies.rs:39, 55, 59).
TotalsAreAHundredPercent ==
    \A e \in Epochs : \A r \in Published(e) :
        TotalPercentage(strategies[e][r]) = MAX_PERCENTAGE

\* lastStrategyEpoch is the newest epoch that has any list, and never ahead of
\* the chain: initializeSmartAccount (lib.rs:115-116) looks nowhere else, so a
\* list of a later epoch, or a pointer to an epoch without one, would strand
\* every user.
PointerIsNewest ==
    /\ lastStrategyEpoch <= epoch
    /\ \A e \in Epochs : Published(e) # {} =>
          /\ e <= lastStrategyEpoch
          /\ Published(lastStrategyEpoch) # {}

\* A list, once published for an epoch and a level, is never replaced or
\* withdrawn, whoever is admin and however the epoch moves (strategies.rs:37).
ListsAreFinal ==
    [][\A e \in Epochs, r \in RiskLevels :
          strategies[e][r] # <<>> => strategies'[e][r] = strategies[e][r]]_strategiesVars

\* The one way a level on offer goes off offer: a list is published for another
\* level in a newer epoch, which moves lastStrategyEpoch for all levels
\* (strategies.rs:65). Neither time nor a change of admin does it, and the level
\* published by that step is itself on offer afterwards.
OffersLapseOnlyByNewerList ==
    [][\A r \in RiskLevels : (Offer(r) # <<>> /\ Offer(r)' = <<>>) =>
          /\ lastStrategyEpoch < lastStrategyEpoch'
          /\ lastStrategyEpoch' = epoch
          /\ \E q \in RiskLevels \ {r} : Offer(q)' # <<>>]_strategiesVars
=============================================================================
