------------------------ MODULE SmartAccountDeployer ------------------------
(***************************************************************************)
(* The deployer contract (smart-account-deployer/src/lib.rs, config.rs)    *)
(* composed with its strategy book and with the accounts it owns: users    *)
(* buy an account, upgrade it to the current template and hand it deposits *)
(* to invest, while the owner and the admin change what it works from.     *)
(*                                                                         *)
(* A shard runs one transaction at a time. All endpoints but               *)
(* initializeSmartAccount are over in one step; that one calls             *)
(* setupSmartAccount and lasts until the call in flight ends.              *)
(*                                                                         *)
(* Anybody may make any contract the template, and an account does what    *)
(* the code it has does. Code other than a smart account's is external: it *)
(* refuses init, upgrade or a deposit, and then the transaction reverts,   *)
(* or accepts; it keeps a deposit in the account and leaves the smart      *)
(* account's own storage alone.                                            *)
(***************************************************************************)
EXTENDS Strategies, SmartAccount, Functions

CONSTANTS
    Users,
    OpenFee,            \* smartAccountOpenFee
    Templates,          \* addresses tried as a template, contracts or not
    SmartAccountCode,   \* the contracts whose code is that of a smart account
    StakingSettings,    \* argument lists tried: functions from tokens to addresses
    UserFunds           \* EGLD each user starts with

ASSUME DeployerAssumption ==
    /\ Users \subseteq Parties
    /\ Parties \cap {Deployer, Wrapper} = {}
    /\ Admins \cup {Owner} \subseteq Parties \cup {ZeroAddress}
    /\ ZeroAddress \notin Parties
    /\ Users \cap Admins = {}
    /\ IsFiniteSet(Users) /\ IsFiniteSet(Admins)
    /\ OpenFee \in Nat
    /\ UserFunds \in Nat
    /\ NoAddress # Deployer
    /\ SmartAccountCode \subseteq SmartContracts
    /\ \E template \in Templates : template \in SmartContracts
    /\ \A setting \in StakingSettings : DOMAIN setting \subseteq TokenIds

VARIABLES
    userSmartAccount,               \* the account of a user, or NoAddress
    smartAccountTemplateAddress,
    code,                           \* the template an account's code was copied from
    smartAccountDeployerAddress     \* in the storage of an account

registryVars == <<userSmartAccount, smartAccountTemplateAddress, code,
                  smartAccountDeployerAddress>>
deployerVars == <<registryVars, strategiesVars, accountVars>>

Unused == {account \in Accounts : code[account] = NoAddress}

RunsSmartAccount(account) == code[account] \in SmartAccountCode

DeployerInit ==
    /\ StrategiesInit
    /\ userRiskTolerance = [account \in Accounts |-> 0]
    /\ userStrategy = [account \in Accounts |-> <<>>]
    /\ userPortfolio = [account \in Accounts |-> <<>>]
    /\ egld = [holder \in Holders |-> IF holder \in Users THEN UserFunds ELSE 0]
    /\ esdt = [account \in Accounts |-> [token \in TokenIds |-> 0]]
    /\ farmStakingAddressForToken = [token \in TokenIds |-> NoAddress]
    /\ call = NoCall
    /\ userSmartAccount = [user \in Users |-> NoAddress]
    /\ smartAccountTemplateAddress \in Templates \cap SmartContracts
    /\ code = [account \in Accounts |-> NoAddress]
    /\ smartAccountDeployerAddress = [account \in Accounts |-> NoAddress]

-----------------------------------------------------------------------------
\* init of a smart account stores its deployer; other code has an init of its own.
Initialized(smart_account) ==
    IF smartAccountTemplateAddress \in SmartAccountCode
    THEN [smartAccountDeployerAddress EXCEPT ![smart_account] = Deployer]
    ELSE smartAccountDeployerAddress

\* A copy of the template at an address of the chain's choice, entered for the user.
Deployed(caller) ==
    /\ \E smart_account \in Unused :
          /\ code' = [code EXCEPT ![smart_account] = smartAccountTemplateAddress]
          /\ userSmartAccount' = [userSmartAccount EXCEPT ![caller] = smart_account]
          /\ smartAccountDeployerAddress' = Initialized(smart_account)
    /\ UNCHANGED <<smartAccountTemplateAddress, strategiesVars, storageVars, esdt,
                   farmStakingAddressForToken, call>>

\* Mutants: without the check of the template (lib.rs:37-41); DeploySmartAccount
\* without those of the registry (:58-61) and of the payment (:52-55);
\* InitializeSmartAccount without the check for a strategy (:118).
UpdateToAnyTemplate(template) ==
    /\ smartAccountTemplateAddress' = template
    /\ UNCHANGED <<userSmartAccount, code, smartAccountDeployerAddress, strategiesVars,
                   accountVars>>

DeployAgain(caller, payment_amount) ==
    /\ egld[caller] >= payment_amount
    /\ payment_amount = OpenFee
    /\ egld' = Transfer(egld, caller, adminAddress, payment_amount)
    /\ Deployed(caller)

DeployForAnything(caller, payment_amount) ==
    /\ egld[caller] >= payment_amount
    /\ userSmartAccount[caller] = NoAddress
    /\ egld' = Transfer(egld, caller, adminAddress, payment_amount)
    /\ Deployed(caller)

InitializeWithoutOffer(caller, risk_tolerance, payment_amount) ==
    /\ userSmartAccount[caller] # NoAddress
    /\ egld[caller] >= payment_amount
    /\ risk_tolerance \in RiskLevels
    /\ SetupSmartAccount(Deployer, userSmartAccount[caller], risk_tolerance,
           Offer(risk_tolerance), payment_amount,
           Transfer(egld, caller, userSmartAccount[caller], payment_amount))
    /\ UNCHANGED <<registryVars, strategiesVars>>

\* Any caller may do this.
UpdateSmartAccountTemplate(template) ==
    /\ template \in SmartContracts
    /\ smartAccountTemplateAddress' = template
    /\ UNCHANGED <<userSmartAccount, code, smartAccountDeployerAddress, strategiesVars,
                   accountVars>>

\* One address that is no contract reverts the whole list.
SetFarmStakingAddressForToken(caller, setting) ==
    /\ caller = Owner
    /\ \A token \in DOMAIN setting : setting[token] \in SmartContracts
    /\ farmStakingAddressForToken' =
          [token \in TokenIds |-> IF token \in DOMAIN setting
                                  THEN setting[token]
                                  ELSE farmStakingAddressForToken[token]]
    /\ UNCHANGED <<registryVars, strategiesVars, storageVars, ledgerVars, call>>

\* The fee passes through the deployer.
DeploySmartAccount(caller, payment_amount) ==
    /\ egld[caller] >= payment_amount
    /\ payment_amount = OpenFee
    /\ userSmartAccount[caller] = NoAddress
    /\ Deployed(caller)
    /\ egld' = Transfer(Transfer(egld, caller, Deployer, payment_amount),
                        Deployer, adminAddress, payment_amount)

\* The code changes and the storage stays; upgrade of a smart account stores nothing.
UpgradeSmartAccount(caller) ==
    /\ userSmartAccount[caller] # NoAddress
    /\ code' = [code EXCEPT ![userSmartAccount[caller]] = smartAccountTemplateAddress]
    /\ UNCHANGED <<userSmartAccount, smartAccountTemplateAddress,
                   smartAccountDeployerAddress, strategiesVars, accountVars>>

\* Mutant: an account called although its init never ran.
SetupUninitialized(account, risk_tolerance, payment_amount, ledger) ==
    /\ RunsSmartAccount(account)
    /\ SetupSmartAccount(Deployer, account, risk_tolerance, Offer(risk_tolerance),
                         payment_amount, ledger)

\* The call opens; its journal already has the deposit on the account. A smart account
\* finds the wrapper through its deployer: without that address it fails at once.
CallSetup(account, risk_tolerance, payment_amount, ledger) ==
    /\ RunsSmartAccount(account)
    /\ smartAccountDeployerAddress[account] = Deployer
    /\ SetupSmartAccount(Deployer, account, risk_tolerance, Offer(risk_tolerance),
                         payment_amount, ledger)

\* Other code that accepts the call.
CallOtherCode(account, ledger) ==
    /\ ~RunsSmartAccount(account)
    /\ egld' = ledger
    /\ UNCHANGED <<storageVars, esdt, farmStakingAddressForToken, call>>

InitializeSmartAccount(caller, risk_tolerance, payment_amount) ==
    /\ userSmartAccount[caller] # NoAddress
    /\ egld[caller] >= payment_amount
    /\ risk_tolerance \in RiskLevels
    /\ Offer(risk_tolerance) # <<>>
    /\ LET account == userSmartAccount[caller]
           ledger  == Transfer(Transfer(egld, caller, Deployer, payment_amount),
                               Deployer, account, payment_amount)
       IN  \/ CallSetup(account, risk_tolerance, payment_amount, ledger)
           \/ CallOtherCode(account, ledger)
    /\ UNCHANGED <<registryVars, strategiesVars>>

\* The chain and the book move between transactions.
BookStep == StrategiesNext /\ UNCHANGED <<registryVars, accountVars>>

DeployerStep ==
    \/ \E template \in Templates : UpdateSmartAccountTemplate(template)
    \/ \E caller \in Parties, setting \in StakingSettings :
          SetFarmStakingAddressForToken(caller, setting)
    \/ \E caller \in Users, payment \in Deposits :
          \/ DeploySmartAccount(caller, payment)
          \/ \E risk \in RiskInputs : InitializeSmartAccount(caller, risk, payment)
    \/ \E caller \in Users : UpgradeSmartAccount(caller)

DeployerNext ==
    \/ call = NoCall /\ (BookStep \/ DeployerStep)
    \/ CallStep /\ UNCHANGED <<registryVars, strategiesVars>>

DeployerSpec ==
    /\ DeployerInit
    /\ [][DeployerNext]_deployerVars
    /\ WF_deployerVars(Proceed /\ UNCHANGED <<registryVars, strategiesVars>>)

-----------------------------------------------------------------------------
Registered == {user \in Users : userSmartAccount[user] # NoAddress}

DeployerTypeOK ==
    /\ StrategiesTypeOK
    /\ SmartAccountTypeOK
    /\ userSmartAccount \in [Users -> Accounts \cup {NoAddress}]
    /\ smartAccountTemplateAddress \in SmartContracts
    /\ code \in [Accounts -> SmartContracts \cup {NoAddress}]
    /\ smartAccountDeployerAddress \in [Accounts -> {Deployer, NoAddress}]

\* The registry is one to one: no two users share an account, every account that
\* was ever deployed still belongs to a user, and every registered address has
\* code. A second deployment for a user would orphan the first account with all
\* it holds, since only the registry leads to it (lib.rs:56-60, 85, 111).
EveryAccountHasItsUser ==
    /\ \A u, v \in Registered : userSmartAccount[u] = userSmartAccount[v] => u = v
    /\ {userSmartAccount[user] : user \in Registered} = Accounts \ Unused

\* No transaction leaves EGLD behind in the deployer or in a smart account: a fee and
\* a deposit go all the way, or back to the user. None of these contracts has an
\* endpoint that would give such EGLD back. What an account with other code was paid
\* (lib.rs:35-45 lets it come to that) is not touched by any later deposit, either.
NoEgldStaysBehind ==
    [][\A holder \in {Deployer} \cup {account \in Accounts : RunsSmartAccount(account)} :
          egld'[holder] = egld[holder]]_deployerVars

\* The admins have received one fee for each account, no more and no less, however
\* often the role changed hands and whatever failed.
OneFeePerAccount ==
    SumFunctionOnSet(egld, Admins \ {ZeroAddress}) = OpenFee * Cardinality(Registered)

\* An account works by a list that was published for the level it records, in an
\* epoch no later than the last: the level and the list are never mixed up, not
\* even when a call fails after it stored the one and the other (lib.rs:71-72 of the
\* account).
StoredPlanWasPublished ==
    \A account \in Accounts : userStrategy[account] # <<>> =>
        \E e \in 0..lastStrategyEpoch :
            strategies[e][userRiskTolerance[account]] = userStrategy[account]

\* What the accounts rely on and never check: the plan in flight is the complete
\* allocation on offer for its level.
PlanInFlightIsOnOffer ==
    call # NoCall => /\ call.plan = Offer(call.risk)
                     /\ Complete(call.plan)
-----------------------------------------------------------------------------
(***************************************************************************)
(* The contracts implement PortfolioService: a call in flight has happened *)
(* for the user only once it returns, the edition is the last epoch with a *)
(* list, and code is a smart account's or other.                           *)
(***************************************************************************)
PortfolioOf(user) ==
    IF user \in Registered
    THEN [level |-> userRiskTolerance[userSmartAccount[user]],
          list  |-> userStrategy[userSmartAccount[user]]]
    ELSE [level |-> 0, list |-> <<>>]

Service == INSTANCE PortfolioService
    WITH Levels <- RiskLevels,
         Lists <- {Kept(list) : list \in Submissions},
         Amounts <- Deposits,
         NoList <- <<>>,
         InitialFunds <- UserFunds,
         funds <- [user \in Users |-> egld[user]],
         opened <- Registered,
         offers <- strategies[lastStrategyEpoch],
         portfolio <- [user \in Users |-> PortfolioOf(user)],
         invested <- egld[Wrapper],
         genuine <- smartAccountTemplateAddress \in SmartAccountCode,
         foreign <- {user \in Registered : ~RunsSmartAccount(userSmartAccount[user])},
         strangers <- {user \in Registered :
                          smartAccountDeployerAddress[userSmartAccount[user]] # Deployer}

\* Users see the abstract service and nothing in between: no step of a transaction
\* that later fails shows, and none of one user's shows in another's portfolio. Whoever
\* makes other code the template (lib.rs:35-45) harms nobody but users who then open or
\* upgrade an account; one that was opened so never invests again, as its init has not
\* stored the deployer (smart-account/src/lib.rs:42).
ImplementsService == Service!Spec
=============================================================================
