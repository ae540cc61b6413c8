---------------------- MODULE SmartAccountDeployerProofs ----------------------
(***************************************************************************)
(* The deployer with its book and its accounts: that they keep what they   *)
(* promise each other, and that users see PortfolioService, for any users, *)
(* deposits, lists and markets.                                            *)
(*                                                                         *)
(* The invariant joins that of the book and that of the account. Besides   *)
(* the properties themselves it says where the money of a call in flight   *)
(* is: the journal differs from the committed ledger by one deposit, taken *)
(* from the account's own user. That account runs the code of a smart      *)
(* account, whatever contracts have been the template.                     *)
(***************************************************************************)
EXTENDS SmartAccountDeployer, SmartAccountProofs, FoldProofs

-----------------------------------------------------------------------------
(***************************************************************************)
(* The strategy book on its own, for every set of levels tried, of lists   *)
(* submitted, of admins, and for chains of any length.                     *)
(***************************************************************************)
\* What a successful call of setStrategiesPerEpoch has established.
LEMMA SubmissionFacts ==
    ASSUME NEW risk, NEW list \in Submissions, risk <= MAX_RISK_TOLERANCE, risk \in RiskInputs,
           Len(list) <= MAX_STRATEGIES_NO
    PROVE  /\ risk \in RiskLevels
           /\ list \in Seq(Strategy)
           /\ Kept(list) \in Seq(Strategy)
<1>1. risk \in RiskLevels
  BY StrategiesAssumption DEF RiskLevels, MAX_RISK_TOLERANCE
<1>2. list \in Seq(Strategy)
  BY StrategiesAssumption
<1>. QED BY <1>1, <1>2, KeptKeepsTotal

-----------------------------------------------------------------------------
(***************************************************************************)
(* Type correctness.                                                       *)
(***************************************************************************)
LEMMA TypeInit == StrategiesInit => StrategiesTypeOK
<1>. SUFFICES ASSUME StrategiesInit PROVE StrategiesTypeOK
  OBVIOUS
<1>1. 0 \in Epochs
  BY StrategiesAssumption DEF Epochs
<1>2. <<>> \in Seq(Strategy)
  OBVIOUS
<1>. QED BY <1>1, <1>2 DEF StrategiesInit, StrategiesTypeOK

LEMMA TypeStep ==
    StrategiesTypeOK /\ [StrategiesNext]_strategiesVars => StrategiesTypeOK'
<1>. SUFFICES ASSUME StrategiesTypeOK, [StrategiesNext]_strategiesVars
              PROVE  StrategiesTypeOK'
  OBVIOUS
<1>. USE DEF StrategiesTypeOK
<1>1. CASE AdvanceEpoch
  BY <1>1, StrategiesAssumption DEF AdvanceEpoch, Epochs
<1>2. CASE \E caller \in Admins \cup {Owner}, admin \in Admins : SetAdminAddress(caller, admin)
  BY <1>2 DEF SetAdminAddress
<1>3. ASSUME NEW caller, NEW risk \in RiskInputs, NEW list \in Submissions,
             SetStrategiesPerEpoch(caller, risk, list)
      PROVE  StrategiesTypeOK'
  <2>1. risk \in RiskLevels /\ Kept(list) \in Seq(Strategy)
    BY <1>3, SubmissionFacts DEF SetStrategiesPerEpoch
  <2>. QED BY <1>3, <2>1 DEF SetStrategiesPerEpoch
<1>4. CASE UNCHANGED strategiesVars
  BY <1>4 DEF strategiesVars
<1>. QED BY <1>1, <1>2, <1>3, <1>4 DEF StrategiesNext

\* The storage of the strategy book keeps its types.
THEOREM StrategiesTypeCorrect == StrategiesSpec => []StrategiesTypeOK
BY TypeInit, TypeStep, PTL DEF StrategiesSpec

-----------------------------------------------------------------------------
(***************************************************************************)
(* One step in terms of what it does to the lists: none at all, or one     *)
(* list written where there was none. The invariants need no more.         *)
(***************************************************************************)
Writes(risk, list) ==
    /\ risk \in RiskLevels
    /\ list \in Submissions
    /\ Len(list) <= MAX_STRATEGIES_NO
    /\ WrappedTotal(list) = MAX_PERCENTAGE
    /\ strategies[epoch][risk] = <<>>
    /\ strategies' = [strategies EXCEPT ![epoch][risk] = Kept(list)]
    /\ lastStrategyEpoch' = epoch
    /\ epoch' = epoch

LEMMA StepShape ==
    ASSUME [StrategiesNext]_strategiesVars
    PROVE  \/ /\ UNCHANGED <<strategies, lastStrategyEpoch>>
              /\ \/ epoch' = epoch
                 \/ epoch' = epoch + 1
           \/ \E risk, list : Writes(risk, list)
<1>1. CASE AdvanceEpoch
  BY <1>1 DEF AdvanceEpoch
<1>2. CASE \E caller \in Admins \cup {Owner}, admin \in Admins : SetAdminAddress(caller, admin)
  BY <1>2 DEF SetAdminAddress
<1>3. ASSUME NEW caller, NEW risk \in RiskInputs, NEW list \in Submissions,
             SetStrategiesPerEpoch(caller, risk, list)
      PROVE  Writes(risk, list)
  BY <1>3, SubmissionFacts DEF SetStrategiesPerEpoch, Writes
<1>4. CASE UNCHANGED strategiesVars
  BY <1>4 DEF strategiesVars
<1>. QED BY <1>1, <1>2, <1>3, <1>4 DEF StrategiesNext

\* An accepted list keeps at least one entry: were they all void, the total the
\* contract compares with 100% would be 0.
LEMMA AcceptedListIsNotEmpty ==
    ASSUME NEW list \in Seq(Strategy), Len(list) <= MAX_STRATEGIES_NO,
           WrappedTotal(list) = MAX_PERCENTAGE
    PROVE  Kept(list) # <<>>
<1>. SUFFICES ASSUME Kept(list) = <<>> PROVE FALSE
  OBVIOUS
<1>1. TotalPercentage(<<>>) = 0
  BY DEF TotalPercentage, PercentageBefore, Slot
<1>2. TotalPercentage(list) = 0
  BY <1>1, KeptKeepsTotal
<1>3. 0 % U64 = 0
  BY U64Assumption
<1>. QED BY <1>2, <1>3 DEF WrappedTotal, MAX_PERCENTAGE

-----------------------------------------------------------------------------
(***************************************************************************)
(* Lists are final, without any invariant.                                 *)
(***************************************************************************)

\* A list is written only where the mapper is empty.
LEMMA FinalStep ==
    ASSUME StrategiesTypeOK, [StrategiesNext]_strategiesVars,
           NEW e \in Epochs, NEW r \in RiskLevels, strategies[e][r] # <<>>
    PROVE  strategies'[e][r] = strategies[e][r]
<1>1. CASE UNCHANGED strategies
  BY <1>1
<1>2. ASSUME NEW risk, NEW list, Writes(risk, list)
      PROVE  strategies'[e][r] = strategies[e][r]
  <2>1. ~(e = epoch /\ r = risk)
    BY <1>2 DEF Writes
  <2>2. /\ strategies \in [Epochs -> [RiskLevels -> Seq(Strategy)]]
        /\ strategies' = [strategies EXCEPT ![epoch][risk] = Kept(list)]
    BY <1>2 DEF Writes, StrategiesTypeOK
  <2>. QED BY <2>1, <2>2
<1>. QED BY <1>1, <1>2, StepShape

\* A published list is never replaced or withdrawn: users of a level in an epoch
\* all read the same one.
THEOREM ListsStayAsPublished == StrategiesSpec => ListsAreFinal
<1>1. StrategiesTypeOK /\ [StrategiesNext]_strategiesVars
        => [\A e \in Epochs, r \in RiskLevels :
               strategies[e][r] # <<>> => strategies'[e][r] = strategies[e][r]]_strategiesVars
  BY FinalStep
<1>. QED BY <1>1, StrategiesTypeCorrect, PTL DEF StrategiesSpec, ListsAreFinal

-----------------------------------------------------------------------------
(***************************************************************************)
(* Completeness, if no submission overflows u64.                           *)
(***************************************************************************)
LEMMA AcceptedListIsComplete ==
    ASSUME NoOverflow, NEW list \in Submissions, list \in Seq(Strategy),
           Len(list) <= MAX_STRATEGIES_NO, WrappedTotal(list) = MAX_PERCENTAGE
    PROVE  /\ Len(Kept(list)) \in 1..MAX_STRATEGIES_NO
           /\ \A i \in DOMAIN Kept(list) : Kept(list)[i].percentage > 0
           /\ TotalPercentage(Kept(list)) = MAX_PERCENTAGE
<1>1. TotalPercentage(list) \in Nat
  <2>1. 5 + 1 = 6 /\ 5 \in 1..5
    OBVIOUS
  <2>. QED BY <2>1, PercentageBeforeStep DEF TotalPercentage, MAX_STRATEGIES_NO
<1>2. TotalPercentage(list) < U64
  BY DEF NoOverflow
<1>3. TotalPercentage(list) % U64 = TotalPercentage(list)
  BY <1>1, <1>2, U64Assumption
<1>4. TotalPercentage(list) = MAX_PERCENTAGE
  BY <1>3 DEF WrappedTotal
<1>5. Kept(list) \in Seq(Strategy) /\ Kept(list) # <<>>
  BY KeptKeepsTotal, AcceptedListIsNotEmpty
<1>6. Len(Kept(list)) \in Nat /\ Len(Kept(list)) # 0
  BY <1>5
<1>7. /\ Len(Kept(list)) <= MAX_STRATEGIES_NO
      /\ \A i \in DOMAIN Kept(list) : Kept(list)[i].percentage > 0
      /\ TotalPercentage(Kept(list)) = MAX_PERCENTAGE
  BY <1>4, KeptKeepsTotal
<1>8. Len(Kept(list)) \in 1..MAX_STRATEGIES_NO
  BY <1>6, <1>7, OneToFive DEF MAX_STRATEGIES_NO
<1>. QED BY <1>7, <1>8

LEMMA CompleteInit == StrategiesInit => ListsAreComplete
BY DEF StrategiesInit, ListsAreComplete, Published

LEMMA CompleteStep ==
    ASSUME NoOverflow, StrategiesTypeOK, ListsAreComplete, [StrategiesNext]_strategiesVars
    PROVE  ListsAreComplete'
<1>1. CASE UNCHANGED strategies
  BY <1>1 DEF ListsAreComplete, Published
<1>2. ASSUME NEW risk, NEW list, Writes(risk, list)
      PROVE  ListsAreComplete'
  <2>. SUFFICES ASSUME NEW e \in Epochs, NEW r \in RiskLevels, strategies'[e][r] # <<>>
                PROVE  /\ Len(strategies'[e][r]) \in 1..MAX_STRATEGIES_NO
                       /\ \A i \in DOMAIN strategies'[e][r] : strategies'[e][r][i].percentage > 0
                       /\ TotalPercentage(strategies'[e][r]) = MAX_PERCENTAGE
    BY DEF ListsAreComplete, Published
  <2>1. /\ strategies \in [Epochs -> [RiskLevels -> Seq(Strategy)]]
        /\ strategies' = [strategies EXCEPT ![epoch][risk] = Kept(list)]
        /\ epoch \in Epochs /\ risk \in RiskLevels
    BY <1>2 DEF Writes, StrategiesTypeOK
  <2>2. CASE e = epoch /\ r = risk
    <3>1. strategies'[e][r] = Kept(list)
      BY <2>1, <2>2
    <3>2. list \in Seq(Strategy)
      BY <1>2, StrategiesAssumption DEF Writes
    <3>. QED BY <1>2, <3>1, <3>2, AcceptedListIsComplete DEF Writes
  <2>3. CASE ~(e = epoch /\ r = risk)
    <3>1. strategies'[e][r] = strategies[e][r]
      BY <2>1, <2>3
    <3>. QED BY <3>1 DEF ListsAreComplete, Published
  <2>. QED BY <2>2, <2>3
<1>. QED BY <1>1, <1>2, StepShape

\* Whatever lists are submitted, those stored are complete allocations, provided
\* that none of them adds up beyond u64 (without that proviso they are not: see
\* the run that submits such a list).
THEOREM ListsComplete == NoOverflow => (StrategiesSpec => []ListsAreComplete)
<1>. SUFFICES ASSUME NoOverflow PROVE StrategiesSpec => []ListsAreComplete
  OBVIOUS
<1>1. StrategiesTypeOK /\ ListsAreComplete /\ [StrategiesNext]_strategiesVars
        => ListsAreComplete'
  BY CompleteStep
<1>. QED BY <1>1, CompleteInit, StrategiesTypeCorrect, PTL DEF StrategiesSpec

-----------------------------------------------------------------------------
(***************************************************************************)
(* The pointer to the last list.                                           *)
(***************************************************************************)
LEMMA PointerInit == StrategiesInit => PointerIsNewest
BY DEF StrategiesInit, PointerIsNewest, Published, Epochs

LEMMA PointerStep ==
    ASSUME StrategiesTypeOK, PointerIsNewest, [StrategiesNext]_strategiesVars
    PROVE  PointerIsNewest'
<1>1. /\ epoch \in Nat /\ lastStrategyEpoch \in Nat
      /\ \A e \in Epochs : e \in Nat
  BY StrategiesAssumption DEF StrategiesTypeOK, Epochs
<1>2. CASE /\ UNCHANGED <<strategies, lastStrategyEpoch>>
           /\ epoch' = epoch \/ epoch' = epoch + 1
  BY <1>1, <1>2 DEF PointerIsNewest, Published
<1>3. ASSUME NEW risk, NEW list, Writes(risk, list)
      PROVE  PointerIsNewest'
  <2>1. /\ strategies \in [Epochs -> [RiskLevels -> Seq(Strategy)]]
        /\ strategies' = [strategies EXCEPT ![epoch][risk] = Kept(list)]
        /\ epoch \in Epochs /\ risk \in RiskLevels
        /\ lastStrategyEpoch' = epoch /\ epoch' = epoch
    BY <1>3 DEF Writes, StrategiesTypeOK
  <2>2. list \in Seq(Strategy)
    BY <1>3, StrategiesAssumption DEF Writes
  <2>3. strategies'[epoch][risk] # <<>>
    BY <1>3, <2>1, <2>2, AcceptedListIsNotEmpty DEF Writes
  <2>4. Published(epoch)' # {}
    BY <2>1, <2>3 DEF Published
  <2>5. \A e \in Epochs : Published(e)' # {} => e <= epoch
    <3>. SUFFICES ASSUME NEW e \in Epochs, Published(e)' # {}, e # epoch
                  PROVE  e <= epoch
      BY <1>1
    <3>1. strategies'[e] = strategies[e]
      BY <2>1
    <3>2. Published(e) # {}
      BY <3>1 DEF Published
    <3>. QED BY <1>1, <3>2 DEF PointerIsNewest
  <2>. QED BY <1>1, <2>1, <2>4, <2>5 DEF PointerIsNewest, Published
<1>. QED BY <1>2, <1>3, StepShape

\* lastStrategyEpoch always names the newest epoch that has a list.
THEOREM PointerCorrect == StrategiesSpec => []PointerIsNewest
<1>1. StrategiesTypeOK /\ PointerIsNewest /\ [StrategiesNext]_strategiesVars
        => PointerIsNewest'
  BY PointerStep
<1>. QED BY <1>1, PointerInit, StrategiesTypeCorrect, PTL DEF StrategiesSpec

-----------------------------------------------------------------------------
(***************************************************************************)
(* What makes an offer lapse.                                              *)
(***************************************************************************)
LapsesByNewerList(r) ==
    (Offer(r) # <<>> /\ Offer(r)' = <<>>) =>
       /\ lastStrategyEpoch < lastStrategyEpoch'
       /\ lastStrategyEpoch' = epoch
       /\ \E q \in RiskLevels \ {r} : Offer(q)' # <<>>

LEMMA LapseStep ==
    ASSUME StrategiesTypeOK, PointerIsNewest, [StrategiesNext]_strategiesVars,
           NEW r \in RiskLevels
    PROVE  LapsesByNewerList(r)
<1>1. CASE UNCHANGED <<strategies, lastStrategyEpoch>>
  BY <1>1 DEF LapsesByNewerList, Offer
<1>2. ASSUME NEW risk, NEW list, Writes(risk, list)
      PROVE  LapsesByNewerList(r)
  <2>1. /\ strategies \in [Epochs -> [RiskLevels -> Seq(Strategy)]]
        /\ strategies' = [strategies EXCEPT ![epoch][risk] = Kept(list)]
        /\ epoch \in Epochs /\ risk \in RiskLevels
        /\ strategies[epoch][risk] = <<>>
        /\ lastStrategyEpoch' = epoch
    BY <1>2 DEF Writes, StrategiesTypeOK
  <2>2. Kept(list) # <<>>
    BY <1>2, AcceptedListIsNotEmpty, StrategiesAssumption DEF Writes
  <2>3. /\ lastStrategyEpoch \in Nat /\ epoch \in Nat /\ lastStrategyEpoch <= epoch
    BY StrategiesAssumption DEF StrategiesTypeOK, Epochs, PointerIsNewest
  <2>4. \A other \in RiskLevels :
           Offer(other)' = IF other = risk THEN Kept(list) ELSE strategies[epoch][other]
    BY <2>1 DEF Offer
  <2>5. lastStrategyEpoch = epoch => ~(Offer(r) # <<>> /\ Offer(r)' = <<>>)
    BY <2>1, <2>2, <2>4 DEF Offer
  <2>6. Offer(risk)' # <<>>
    BY <2>1, <2>2, <2>4
  <2>7. Offer(r)' = <<>> => r # risk
    BY <2>1, <2>2, <2>4
  <2>8. lastStrategyEpoch # epoch => lastStrategyEpoch < epoch
    BY <2>3
  <2>. QED BY <2>1, <2>5, <2>6, <2>7, <2>8 DEF LapsesByNewerList
<1>. QED BY <1>1, <1>2, StepShape

\* A level stays on offer until a list for another level is published in a newer epoch:
\* neither time nor a change of admin takes it away.
THEOREM OffersLapse == StrategiesSpec => OffersLapseOnlyByNewerList
<1>1. StrategiesTypeOK /\ PointerIsNewest /\ [StrategiesNext]_strategiesVars
        => [\A r \in RiskLevels : (Offer(r) # <<>> /\ Offer(r)' = <<>>) =>
              /\ lastStrategyEpoch < lastStrategyEpoch'
              /\ lastStrategyEpoch' = epoch
              /\ \E q \in RiskLevels \ {r} : Offer(q)' # <<>>]_strategiesVars
  BY LapseStep DEF LapsesByNewerList
<1>. QED BY <1>1, StrategiesTypeCorrect, PointerCorrect, PTL
         DEF StrategiesSpec, OffersLapseOnlyByNewerList

-----------------------------------------------------------------------------

RegistryTypeOK ==
    /\ userSmartAccount \in [Users -> Accounts \cup {NoAddress}]
    /\ smartAccountTemplateAddress \in SmartContracts
    /\ code \in [Accounts -> SmartContracts \cup {NoAddress}]
    /\ smartAccountDeployerAddress \in [Accounts -> {Deployer, NoAddress}]

BookInv == StrategiesTypeOK /\ ListsAreComplete /\ PointerIsNewest
RegistryInv == RegistryTypeOK /\ EveryAccountHasItsUser

\* Where the deposit in flight has got to: the wrapper takes all of it.
Keeper == IF call.pc = "wrap" THEN call.account ELSE Wrapper

\* An account that can be called: it runs a smart account's code, and its init ran.
Works(account) ==
    RunsSmartAccount(account) /\ smartAccountDeployerAddress[account] = Deployer

InFlightFor(user) ==
    /\ userSmartAccount[user] = call.account
    /\ Works(call.account)
    /\ call.payment \in Deposits
    /\ call.payment <= egld[user]
    /\ call.pc # "wrap" => call.payment > 0
    /\ \A holder \in Holders :
          call.egld[holder] = IF holder = user THEN egld[holder] - call.payment
                              ELSE IF holder = Keeper THEN egld[holder] + call.payment
                              ELSE egld[holder]

DepositInFlight == call # NoCall => \E user \in Registered : InFlightFor(user)

\* What an account begins with.
UnusedAreEmpty ==
    \A account \in Unused : /\ userRiskTolerance[account] = 0 /\ userStrategy[account] = <<>>
                            /\ smartAccountDeployerAddress[account] = NoAddress

DeployerInv ==
    /\ BookInv
    /\ RegistryInv
    /\ UnusedAreEmpty
    /\ SmartAccountInv
    /\ PlanInFlightIsOnOffer
    /\ StoredPlanWasPublished
    /\ DepositInFlight

-----------------------------------------------------------------------------
(***************************************************************************)
(* The book: of all the steps only its own touch it.                       *)
(***************************************************************************)
LEMMA BookAlone ==
    ASSUME [DeployerNext]_deployerVars
    PROVE  [StrategiesNext]_strategiesVars
<1>1. CASE BookStep
  BY <1>1 DEF BookStep
<1>2. ASSUME NEW template, UpdateSmartAccountTemplate(template)
      PROVE  UNCHANGED strategiesVars
  BY <1>2 DEF UpdateSmartAccountTemplate
<1>3. ASSUME NEW caller, NEW setting, SetFarmStakingAddressForToken(caller, setting)
      PROVE  UNCHANGED strategiesVars
  BY <1>3 DEF SetFarmStakingAddressForToken
<1>4. ASSUME NEW caller, NEW payment, DeploySmartAccount(caller, payment)
      PROVE  UNCHANGED strategiesVars
  BY <1>4 DEF DeploySmartAccount, Deployed
<1>5. ASSUME NEW caller, NEW payment, NEW risk, InitializeSmartAccount(caller, risk, payment)
      PROVE  UNCHANGED strategiesVars
  BY <1>5 DEF InitializeSmartAccount
<1>6. ASSUME NEW caller, UpgradeSmartAccount(caller)
      PROVE  UNCHANGED strategiesVars
  BY <1>6 DEF UpgradeSmartAccount
<1>7. CASE UNCHANGED deployerVars
  BY <1>7 DEF deployerVars
<1>. QED BY <1>1, <1>2, <1>3, <1>4, <1>5, <1>6, <1>7 DEF DeployerNext, DeployerStep

LEMMA BookHolds ==
    ASSUME NoOverflow, BookInv, [DeployerNext]_deployerVars
    PROVE  BookInv'
<1>1. [StrategiesNext]_strategiesVars
  BY BookAlone
<1>. QED BY <1>1, TypeStep, CompleteStep, PointerStep DEF BookInv

-----------------------------------------------------------------------------
(***************************************************************************)
(* The registry.                                                           *)
(***************************************************************************)
LEMMA NewAccount ==
    ASSUME RegistryInv, NEW caller \in Users, NEW payment,
           DeploySmartAccount(caller, payment)
    PROVE  \E smart_account \in Unused :
              /\ smart_account \in Accounts
              /\ code' = [code EXCEPT ![smart_account] = smartAccountTemplateAddress]
              /\ userSmartAccount' = [userSmartAccount EXCEPT ![caller] = smart_account]
              /\ smartAccountDeployerAddress' = Initialized(smart_account)
              /\ UNCHANGED smartAccountTemplateAddress
              /\ caller \notin Registered /\ Registered' = Registered \cup {caller}
              /\ Unused' = Unused \ {smart_account}
              /\ \A user \in Registered : userSmartAccount'[user] = userSmartAccount[user]
              /\ userSmartAccount'[caller] = smart_account
<1>1. PICK smart_account \in Unused :
         /\ code' = [code EXCEPT ![smart_account] = smartAccountTemplateAddress]
         /\ userSmartAccount' = [userSmartAccount EXCEPT ![caller] = smart_account]
         /\ smartAccountDeployerAddress' = Initialized(smart_account)
         /\ UNCHANGED smartAccountTemplateAddress
  BY DEF DeploySmartAccount, Deployed
<1>2. smart_account \in Accounts /\ code[smart_account] = NoAddress
  BY DEF Unused
<1>3. userSmartAccount[caller] = NoAddress
  BY DEF DeploySmartAccount
<1>4. Registered' = Registered \cup {caller} /\ caller \notin Registered
  BY <1>1, <1>2, <1>3, LedgerAssumption DEF Registered, RegistryInv, RegistryTypeOK
<1>5. Unused' = Unused \ {smart_account}
  BY <1>1, <1>2, LedgerAssumption DEF Unused, RegistryInv, RegistryTypeOK
<1>6. \A user \in Registered : userSmartAccount'[user] = userSmartAccount[user]
  BY <1>1, <1>4 DEF RegistryInv, RegistryTypeOK, Registered
<1>7. userSmartAccount'[caller] = smart_account
  BY <1>1 DEF RegistryInv, RegistryTypeOK
<1>. QED BY <1>1, <1>2, <1>4, <1>5, <1>6, <1>7

LEMMA DeployRegistry ==
    ASSUME RegistryInv, NEW caller \in Users, NEW payment,
           DeploySmartAccount(caller, payment)
    PROVE  RegistryInv'
<1>1. PICK smart_account \in Unused :
         /\ smart_account \in Accounts
         /\ code' = [code EXCEPT ![smart_account] = smartAccountTemplateAddress]
         /\ userSmartAccount' = [userSmartAccount EXCEPT ![caller] = smart_account]
         /\ smartAccountDeployerAddress' = Initialized(smart_account)
         /\ UNCHANGED smartAccountTemplateAddress
         /\ caller \notin Registered /\ Registered' = Registered \cup {caller}
         /\ Unused' = Unused \ {smart_account}
         /\ \A user \in Registered : userSmartAccount'[user] = userSmartAccount[user]
         /\ userSmartAccount'[caller] = smart_account
  BY NewAccount
<1>2. RegistryTypeOK'
  BY <1>1 DEF RegistryInv, RegistryTypeOK, Initialized
<1>3. \A user \in Registered : userSmartAccount[user] # smart_account
  BY <1>1 DEF RegistryInv, EveryAccountHasItsUser
<1>4. {userSmartAccount'[user] : user \in Registered'} = Accounts \ Unused'
  BY <1>1 DEF RegistryInv, EveryAccountHasItsUser
<1>5. \A u, v \in Registered' : userSmartAccount'[u] = userSmartAccount'[v] => u = v
  BY <1>1, <1>3 DEF RegistryInv, EveryAccountHasItsUser
<1>. QED BY <1>2, <1>4, <1>5 DEF RegistryInv, EveryAccountHasItsUser

LEMMA UpgradeRegistry ==
    ASSUME RegistryInv, NEW caller \in Users, UpgradeSmartAccount(caller)
    PROVE  RegistryInv' /\ Unused' = Unused
<1>. DEFINE account == userSmartAccount[caller]
<1>1. /\ account \in Accounts /\ caller \in Registered
      /\ code' = [code EXCEPT ![account] = smartAccountTemplateAddress]
      /\ UNCHANGED <<userSmartAccount, smartAccountTemplateAddress,
                     smartAccountDeployerAddress>>
  BY DEF UpgradeSmartAccount, RegistryInv, RegistryTypeOK, Registered
<1>2. RegistryTypeOK'
  BY <1>1 DEF RegistryInv, RegistryTypeOK
<1>3. account \notin Unused
  BY <1>1 DEF RegistryInv, EveryAccountHasItsUser
<1>4. Unused' = Unused
  BY <1>1, <1>3, LedgerAssumption DEF Unused, RegistryInv, RegistryTypeOK
<1>. QED BY <1>1, <1>2, <1>4 DEF RegistryInv, EveryAccountHasItsUser, Registered

LEMMA RegistryUnchanged ==
    ASSUME RegistryInv, UNCHANGED <<userSmartAccount, code, smartAccountDeployerAddress>>,
           smartAccountTemplateAddress' \in SmartContracts
    PROVE  RegistryInv'
BY DEF RegistryInv, RegistryTypeOK, EveryAccountHasItsUser, Registered, Unused

LEMMA RegistryHolds ==
    ASSUME RegistryInv, [DeployerNext]_deployerVars
    PROVE  RegistryInv'
<1>1. ASSUME UNCHANGED registryVars PROVE RegistryInv'
  BY <1>1, RegistryUnchanged DEF registryVars, RegistryInv, RegistryTypeOK
<1>2. ASSUME NEW template, UpdateSmartAccountTemplate(template)
      PROVE  RegistryInv'
  BY <1>2, RegistryUnchanged DEF UpdateSmartAccountTemplate
<1>3. CASE BookStep
  BY <1>1, <1>3 DEF BookStep
<1>4. CASE CallStep /\ UNCHANGED <<registryVars, strategiesVars>>
  BY <1>1, <1>4
<1>5. ASSUME NEW caller, NEW setting, SetFarmStakingAddressForToken(caller, setting)
      PROVE  RegistryInv'
  BY <1>1, <1>5 DEF SetFarmStakingAddressForToken
<1>6. ASSUME NEW caller, NEW payment, NEW risk, InitializeSmartAccount(caller, risk, payment)
      PROVE  RegistryInv'
  BY <1>1, <1>6 DEF InitializeSmartAccount
<1>7. CASE UNCHANGED deployerVars
  BY <1>1, <1>7 DEF deployerVars
<1>. QED BY <1>2, <1>3, <1>4, <1>5, <1>6, <1>7, DeployRegistry, UpgradeRegistry
         DEF DeployerNext, DeployerStep

-----------------------------------------------------------------------------
(***************************************************************************)
(* The call in flight: a step goes on with it, commits it or drops it.     *)
(***************************************************************************)
SameCall ==
    /\ call'.plan = call.plan
    /\ call'.risk = call.risk
    /\ call'.account = call.account
    /\ call'.payment = call.payment

GoesOn ==
    /\ call # NoCall /\ call' # NoCall
    /\ SameCall
    /\ call'.pc # "wrap"
    /\ call'.egld = IF call.pc = "wrap"
                    THEN Transfer(call.egld, call.account, Wrapper, call.payment)
                    ELSE call.egld
    /\ call.pc = "wrap" => call.payment > 0
    /\ UNCHANGED <<userRiskTolerance, userStrategy, userPortfolio, egld, esdt>>

\* Between two external calls only what was received, what was sent, the wallet and
\* the place in the walk change.
Touched(c) ==
    \E received, sent, wallet :
        c = [call EXCEPT !.received = received, !.sent = sent, !.esdt = wallet]

Resumed(c) ==
    \/ call' = Advance(c)
    \/ \E pc \in {"stake", "liquidity", "farm"} : call' = [c EXCEPT !.pc = pc]

LEMMA WalkGoesOn ==
    ASSUME call \in Call, call # NoCall, call.pc # "wrap",
           UNCHANGED <<userRiskTolerance, userStrategy, userPortfolio, egld, esdt>>,
           NEW c, Touched(c), Resumed(c)
    PROVE  GoesOn
<1>. PICK received, sent, wallet :
         c = [call EXCEPT !.received = received, !.sent = sent, !.esdt = wallet]
  BY DEF Touched
<1>1. /\ c.pc = call.pc /\ c.egld = call.egld /\ c.plan = call.plan
      /\ c.risk = call.risk /\ c.account = call.account /\ c.payment = call.payment
      /\ {"pc", "egld", "plan", "risk", "account", "payment", "step"} \subseteq DOMAIN c
  BY DEF Call
<1>3. call'.pc \notin {"wrap", "idle"} /\ call'.egld = call.egld /\ SameCall
  <2>1. CASE call' = Advance(c)
    <3>1. PICK saved : /\ saved = [c EXCEPT !.portfolio = SaveUserPosition(@, c.received)]
                       /\ \/ call' = [saved EXCEPT !.pc = "return"]
                          \/ call' = [saved EXCEPT !.pc = "swap", !.step = @ + 1]
      BY <2>1 DEF Advance
    <3>2. /\ saved.pc = call.pc /\ saved.egld = call.egld /\ saved.plan = call.plan
          /\ saved.risk = call.risk /\ saved.account = call.account
          /\ saved.payment = call.payment
          /\ {"pc", "egld", "plan", "risk", "account", "payment", "step"} \subseteq DOMAIN saved
      BY <1>1, <3>1
    <3>. HIDE <3>1
    <3>3. CASE call' = [saved EXCEPT !.pc = "return"]
      BY <3>2, <3>3 DEF SameCall
    <3>4. CASE call' = [saved EXCEPT !.pc = "swap", !.step = @ + 1]
      BY <3>2, <3>4 DEF SameCall
    <3>. QED BY <3>1, <3>3, <3>4
  <2>2. CASE \E pc \in {"stake", "liquidity", "farm"} : call' = [c EXCEPT !.pc = pc]
    BY <1>1, <2>2 DEF SameCall
  <2>. QED BY <2>1, <2>2 DEF Resumed
<1>5. call' # NoCall
  BY <1>3 DEF NoCall
<1>. QED BY <1>3, <1>5 DEF GoesOn

LEMMA WrapGoesOn ==
    ASSUME SmartAccountInv, CallWrapEgld
    PROVE  GoesOn
<1>1. call.pc = "wrap" /\ call \in Call /\ call # NoCall
  BY CallFacts DEF CallWrapEgld
<1>. DEFINE wrapped == [token |-> WEGLD, amount |-> call.payment]
<1>2. /\ call' = [call EXCEPT !.pc = "swap",
                              !.received = wrapped,
                              !.egld = Transfer(@, call.account, Wrapper, call.payment),
                              !.esdt = Credit(@, wrapped)]
      /\ call.payment > 0
      /\ UNCHANGED <<userRiskTolerance, userStrategy, userPortfolio, egld, esdt>>
  BY DEF CallWrapEgld, storageVars, ledgerVars
<1>3. /\ call'.pc = "swap" /\ SameCall
      /\ call'.egld = Transfer(call.egld, call.account, Wrapper, call.payment)
  BY <1>1, <1>2 DEF Call, SameCall
<1>4. call' # NoCall
  BY <1>3 DEF NoCall
<1>. QED BY <1>1, <1>2, <1>3, <1>4 DEF GoesOn

LEMMA SwapGoesOn ==
    ASSUME SmartAccountInv, CallPairSwap
    PROVE  GoesOn
<1>1. /\ call.pc = "swap" /\ call \in Call /\ call # NoCall
      /\ UNCHANGED <<userRiskTolerance, userStrategy, userPortfolio, egld, esdt>>
  BY CallFacts DEF CallPairSwap, storageVars, ledgerVars
<1>2. PICK amount \in Yields :
         LET output  == [token |-> CurrentStep.output_token_id, amount |-> amount]
             input   == [token |-> WEGLD, amount |-> TransferAmount(call.payment, CurrentStep)]
             swapped == [call EXCEPT !.received = output,
                                     !.sent = @ + input.amount,
                                     !.esdt = Credit(Debit(@, input), output)]
         IN  Resumed(swapped)
  BY DEF CallPairSwap, Resumed
<1>3. PICK c : Touched(c) /\ Resumed(c)
  BY <1>2 DEF Touched
<1>. QED BY <1>1, <1>3, WalkGoesOn

LEMMA EnterGoesOn ==
    ASSUME SmartAccountInv, call.pc \in {"stake", "farm"}, NEW contract, Enter(contract)
    PROVE  GoesOn
<1>1. /\ call \in Call /\ call # NoCall
      /\ UNCHANGED <<userRiskTolerance, userStrategy, userPortfolio, egld, esdt>>
  BY CallFacts DEF Enter, storageVars, ledgerVars
<1>2. PICK receipt, wallet : call' = Advance([call EXCEPT !.received = receipt, !.esdt = wallet])
  BY DEF Enter
<1>3. [call EXCEPT !.received = receipt, !.esdt = wallet]
         = [call EXCEPT !.received = receipt, !.sent = call.sent, !.esdt = wallet]
  BY <1>1 DEF Call
<1>4. PICK c : Touched(c) /\ Resumed(c)
  BY <1>2, <1>3 DEF Touched, Resumed
<1>. QED BY <1>1, <1>4, WalkGoesOn

LEMMA LiquidityGoesOn ==
    ASSUME SmartAccountInv, CallPairAddLiquidity
    PROVE  GoesOn
<1>1. /\ call.pc = "liquidity" /\ call \in Call /\ call # NoCall
      /\ UNCHANGED <<userRiskTolerance, userStrategy, userPortfolio, egld, esdt>>
  BY CallFacts DEF CallPairAddLiquidity, storageVars, ledgerVars
<1>2. PICK entry, payments, half, side, used, minted :
         call' = LiquidityAdded(entry, payments, half, side, used, minted)
  BY DEF CallPairAddLiquidity
<1>3. PICK c : Touched(c) /\ Resumed(c)
  BY <1>2 DEF LiquidityAdded, Touched, Resumed
<1>. QED BY <1>1, <1>3, WalkGoesOn

LEMMA ProceedGoesOn ==
    ASSUME SmartAccountInv, Proceed, ~Return
    PROVE  GoesOn
<1>1. ASSUME CallFarmStakingStake PROVE GoesOn
  BY <1>1, EnterGoesOn DEF CallFarmStakingStake
<1>2. ASSUME CallEnterFarm PROVE GoesOn
  BY <1>2, EnterGoesOn DEF CallEnterFarm
<1>. QED BY <1>1, <1>2, WrapGoesOn, SwapGoesOn, LiquidityGoesOn DEF Proceed

LEMMA CallStepShape ==
    ASSUME SmartAccountInv, CallStep
    PROVE  GoesOn \/ Return \/ Fail
BY ProceedGoesOn DEF CallStep

-----------------------------------------------------------------------------
(***************************************************************************)
(* Ledgers.                                                                *)
(***************************************************************************)

\* Who is who, as far as the ledger must know.
LEMMA Parted ==
    /\ Users \subseteq Holders /\ Accounts \subseteq Holders
    /\ Deployer \in Holders /\ Wrapper \in Holders
    /\ Deployer \notin Users /\ Wrapper \notin Users /\ Wrapper # Deployer
    /\ Users \cap Accounts = {} /\ Deployer \notin Accounts /\ Wrapper \notin Accounts
BY LedgerAssumption, DeployerAssumption DEF Holders

LEMMA AdminApart ==
    ASSUME StrategiesTypeOK
    PROVE  /\ adminAddress \in Holders /\ adminAddress \notin Users \cup Accounts
           /\ adminAddress # Deployer /\ adminAddress # Wrapper
BY LedgerAssumption, DeployerAssumption DEF StrategiesTypeOK, Holders

LEMMA TransferLedger ==
    ASSUME NEW ledger \in [Holders -> Nat], NEW from \in Holders, NEW to \in Holders,
           from # to, NEW amount \in Nat, ledger[from] >= amount
    PROVE  /\ Transfer(ledger, from, to, amount) \in [Holders -> Nat]
           /\ \A holder \in Holders :
                 Transfer(ledger, from, to, amount)[holder] =
                    IF holder = from THEN ledger[holder] - amount
                    ELSE IF holder = to THEN ledger[holder] + amount
                    ELSE ledger[holder]
<1>1. Transfer(ledger, from, to, amount) \in [Holders -> Nat]
  BY TransferType
<1>. DEFINE debited == [ledger EXCEPT ![from] = @ - amount]
<1>2. \A holder \in Holders : debited[holder] = IF holder = from THEN ledger[holder] - amount
                                                ELSE ledger[holder]
  OBVIOUS
<1>3. DOMAIN debited = Holders
  OBVIOUS
<1>4. Transfer(ledger, from, to, amount) = [debited EXCEPT ![to] = @ + amount]
  BY DEF Transfer
<1>. HIDE DEF debited
<1>. QED BY <1>1, <1>2, <1>3, <1>4

\* What passes through the deployer leaves it as it was.
LEMMA PassedOn ==
    ASSUME NEW ledger \in [Holders -> Nat], NEW from \in Holders, NEW to \in Holders,
           from # to, from # Deployer, to # Deployer, NEW amount \in Nat, ledger[from] >= amount
    PROVE  LET passed == Transfer(Transfer(ledger, from, Deployer, amount), Deployer, to, amount)
           IN  /\ passed \in [Holders -> Nat]
               /\ \A holder \in Holders :
                     passed[holder] = IF holder = from THEN ledger[holder] - amount
                                      ELSE IF holder = to THEN ledger[holder] + amount
                                      ELSE ledger[holder]
<1>1. Deployer \in Holders
  BY Parted
<1>2. PICK halfway : halfway = Transfer(ledger, from, Deployer, amount)
  OBVIOUS
<1>3. /\ halfway \in [Holders -> Nat]
      /\ \A holder \in Holders :
            halfway[holder] = IF holder = from THEN ledger[holder] - amount
                              ELSE IF holder = Deployer THEN ledger[holder] + amount
                              ELSE ledger[holder]
  BY <1>1, <1>2, TransferLedger
<1>4. halfway[Deployer] = ledger[Deployer] + amount /\ ledger[Deployer] \in Nat
  BY <1>1, <1>3
<1>5. halfway[Deployer] >= amount
  BY <1>4
<1>6. PICK passed : passed = Transfer(halfway, Deployer, to, amount)
  OBVIOUS
<1>7. /\ passed \in [Holders -> Nat]
      /\ \A holder \in Holders :
            passed[holder] = IF holder = Deployer THEN halfway[holder] - amount
                             ELSE IF holder = to THEN halfway[holder] + amount
                             ELSE halfway[holder]
  BY <1>1, <1>3, <1>5, <1>6, TransferLedger
<1>8. halfway[Deployer] - amount = ledger[Deployer]
  BY <1>4
<1>. QED BY <1>2, <1>3, <1>6, <1>7, <1>8

-----------------------------------------------------------------------------
(***************************************************************************)
(* The account's invariant, in the composition.                            *)
(***************************************************************************)
LEMMA OfferIsComplete ==
    ASSUME BookInv, NEW risk \in RiskLevels, Offer(risk) # <<>>
    PROVE  Complete(Offer(risk))
<1>1. lastStrategyEpoch \in Epochs /\ strategies[lastStrategyEpoch][risk] \in Seq(Strategy)
  BY DEF BookInv, StrategiesTypeOK
<1>2. risk \in Published(lastStrategyEpoch)
  BY DEF Offer, Published
<1>. QED BY <1>1, <1>2 DEF BookInv, ListsAreComplete, Complete, Offer

\* The ledger a deployment leaves.
LEMMA FeeLedger ==
    ASSUME DeployerInv, NEW caller \in Users, NEW payment \in Deposits,
           DeploySmartAccount(caller, payment)
    PROVE  /\ egld' \in [Holders -> Nat]
           /\ payment = OpenFee /\ egld[caller] >= payment
           /\ \A holder \in Holders :
                 egld'[holder] = IF holder = caller THEN egld[holder] - payment
                                 ELSE IF holder = adminAddress THEN egld[holder] + payment
                                 ELSE egld[holder]
<1>1. /\ egld[caller] >= payment /\ payment = OpenFee
      /\ egld' = Transfer(Transfer(egld, caller, Deployer, payment), Deployer,
                          adminAddress, payment)
  BY DEF DeploySmartAccount
<1>2. egld \in [Holders -> Nat] /\ payment \in Nat
  BY LedgerAssumption DEF DeployerInv, SmartAccountInv, SmartAccountTypeOK
<1>3. /\ caller \in Holders /\ adminAddress \in Holders /\ caller # adminAddress
      /\ caller # Deployer /\ adminAddress # Deployer
  BY Parted, AdminApart DEF DeployerInv, BookInv
<1>. QED BY <1>1, <1>2, <1>3, PassedOn

\* The journal a deposit begins with.
LEMMA DepositLedger ==
    ASSUME DeployerInv, NEW caller \in Users, userSmartAccount[caller] # NoAddress,
           NEW payment \in Deposits, egld[caller] >= payment
    PROVE  LET account == userSmartAccount[caller]
               ledger  == Transfer(Transfer(egld, caller, Deployer, payment),
                                   Deployer, account, payment)
           IN  /\ account \in Accounts
               /\ ledger \in [Holders -> Nat]
               /\ \A holder \in Holders :
                     ledger[holder] = IF holder = caller THEN egld[holder] - payment
                                      ELSE IF holder = account THEN egld[holder] + payment
                                      ELSE egld[holder]
<1>1. userSmartAccount[caller] \in Accounts
  BY DEF DeployerInv, RegistryInv, RegistryTypeOK
<1>2. egld \in [Holders -> Nat] /\ payment \in Nat
  BY LedgerAssumption DEF DeployerInv, SmartAccountInv, SmartAccountTypeOK
<1>3. /\ caller \in Holders /\ userSmartAccount[caller] \in Holders
      /\ caller # userSmartAccount[caller]
      /\ caller # Deployer /\ userSmartAccount[caller] # Deployer
  BY <1>1, Parted
<1>. QED BY <1>1, <1>2, <1>3, PassedOn

(***************************************************************************)
(* initializeSmartAccount opens a call of the account, or hands the        *)
(* deposit to other code, which is all there is to it.                     *)
(***************************************************************************)
Setup(caller, risk, payment) ==
    LET account == userSmartAccount[caller]
        ledger  == Transfer(Transfer(egld, caller, Deployer, payment),
                            Deployer, account, payment)
    IN  /\ account # NoAddress /\ egld[caller] >= payment /\ risk \in RiskLevels
        /\ Offer(risk) # <<>>
        /\ Works(account)
        /\ SetupSmartAccount(Deployer, account, risk, Offer(risk), payment, ledger)
        /\ UNCHANGED <<registryVars, strategiesVars>>

HandedOver(caller, risk, payment) ==
    /\ caller \in Registered /\ userSmartAccount[caller] \in Accounts
    /\ ~RunsSmartAccount(userSmartAccount[caller])
    /\ egld[caller] >= payment /\ risk \in RiskLevels /\ Offer(risk) # <<>>
    /\ egld' \in [Holders -> Nat]
    /\ \A holder \in Holders :
          egld'[holder] = IF holder = caller THEN egld[holder] - payment
                          ELSE IF holder = userSmartAccount[caller] THEN egld[holder] + payment
                          ELSE egld[holder]
    /\ UNCHANGED <<storageVars, esdt, farmStakingAddressForToken, call,
                   registryVars, strategiesVars>>

LEMMA InitializeCases ==
    ASSUME DeployerInv, NEW caller \in Users, NEW risk, NEW payment \in Deposits,
           InitializeSmartAccount(caller, risk, payment)
    PROVE  Setup(caller, risk, payment) \/ HandedOver(caller, risk, payment)
<1>. DEFINE account == userSmartAccount[caller]
            ledger  == Transfer(Transfer(egld, caller, Deployer, payment),
                                Deployer, account, payment)
<1>1. /\ account # NoAddress /\ egld[caller] >= payment /\ risk \in RiskLevels
      /\ Offer(risk) # <<>>
      /\ \/ CallSetup(account, risk, payment, ledger)
         \/ CallOtherCode(account, ledger)
      /\ UNCHANGED <<registryVars, strategiesVars>>
  BY DEF InitializeSmartAccount
<1>2. /\ account \in Accounts /\ ledger \in [Holders -> Nat]
      /\ \A holder \in Holders :
            ledger[holder] = IF holder = caller THEN egld[holder] - payment
                             ELSE IF holder = account THEN egld[holder] + payment
                             ELSE egld[holder]
  BY <1>1, DepositLedger
<1>3. CASE CallSetup(account, risk, payment, ledger)
  BY <1>1, <1>3 DEF CallSetup, Setup, Works
<1>4. CASE CallOtherCode(account, ledger)
  <2>1. /\ ~RunsSmartAccount(account) /\ egld' = ledger
        /\ UNCHANGED <<storageVars, esdt, farmStakingAddressForToken, call>>
    BY <1>4 DEF CallOtherCode
  <2>2. caller \in Registered
    BY <1>1 DEF Registered
  <2>. HIDE DEF ledger
  <2>. QED BY <1>1, <1>2, <2>1, <2>2 DEF HandedOver
<1>. QED BY <1>1, <1>3, <1>4

LEMMA IdleStep ==
    ASSUME SmartAccountTypeOK', call' = NoCall
    PROVE  SmartAccountInv'
<1>1. SmartAccountTypeOK' /\ (call = NoCall)' => SmartAccountInv'
  BY IdleInv, PTL
<1>. QED BY <1>1

LEMMA AccountHolds ==
    ASSUME DeployerInv, [DeployerNext]_deployerVars
    PROVE  SmartAccountInv'
<1>1. SmartAccountInv /\ SmartAccountTypeOK
  BY DEF DeployerInv, SmartAccountInv
<1>2. ASSUME UNCHANGED accountVars PROVE SmartAccountInv'
  BY <1>1, <1>2, StutterInv
<1>3. CASE BookStep
  BY <1>2, <1>3 DEF BookStep
<1>4. ASSUME NEW template, UpdateSmartAccountTemplate(template)
      PROVE  SmartAccountInv'
  BY <1>2, <1>4 DEF UpdateSmartAccountTemplate
<1>5. ASSUME NEW caller, NEW setting, call = NoCall,
             SetFarmStakingAddressForToken(caller, setting)
      PROVE  SmartAccountInv'
  <2>1. farmStakingAddressForToken' \in [TokenIds -> SmartContracts \cup {NoAddress}]
    BY <1>1, <1>5 DEF SetFarmStakingAddressForToken, SmartAccountTypeOK
  <2>2. /\ UNCHANGED <<userRiskTolerance, userStrategy, userPortfolio, egld, esdt, call>>
    BY <1>5 DEF SetFarmStakingAddressForToken, storageVars, ledgerVars
  <2>3. SmartAccountTypeOK'
    BY <1>1, <2>1, <2>2 DEF SmartAccountTypeOK
  <2>. QED BY <1>5, <2>2, <2>3, IdleStep
<1>6. ASSUME NEW caller \in Users, NEW payment \in Deposits, call = NoCall,
             DeploySmartAccount(caller, payment)
      PROVE  SmartAccountInv'
  <2>1. egld' \in [Holders -> Nat]
    BY <1>6, FeeLedger
  <2>2. /\ UNCHANGED <<userRiskTolerance, userStrategy, userPortfolio, esdt,
                       farmStakingAddressForToken, call>>
    BY <1>6 DEF DeploySmartAccount, Deployed, storageVars
  <2>3. SmartAccountTypeOK'
    BY <1>1, <2>1, <2>2 DEF SmartAccountTypeOK
  <2>. QED BY <1>6, <2>2, <2>3, IdleStep
<1>7. ASSUME NEW caller \in Users, NEW payment \in Deposits, NEW risk \in RiskInputs,
             Setup(caller, risk, payment)
      PROVE  SmartAccountInv'
  <2>. DEFINE account == userSmartAccount[caller]
              ledger  == Transfer(Transfer(egld, caller, Deployer, payment),
                                  Deployer, account, payment)
  <2>1. /\ account # NoAddress /\ egld[caller] >= payment /\ risk \in RiskLevels
        /\ Offer(risk) # <<>>
        /\ SetupSmartAccount(Deployer, account, risk, Offer(risk), payment, ledger)
    BY <1>7 DEF Setup
  <2>2. account \in Accounts /\ ledger \in [Holders -> Nat]
    BY <2>1, DepositLedger
  <2>3. risk \in Nat /\ payment \in Nat /\ Complete(Offer(risk))
    BY <2>1, OfferIsComplete, LedgerAssumption, StrategiesAssumption DEF DeployerInv
  <2>. HIDE DEF ledger
  <2>. QED BY <1>1, <2>1, <2>2, <2>3, SetupStep
<1>8. ASSUME NEW caller, UpgradeSmartAccount(caller)
      PROVE  SmartAccountInv'
  BY <1>2, <1>8 DEF UpgradeSmartAccount
<1>9. CASE CallStep
  BY <1>1, <1>9, CallStepInv
<1>10. CASE UNCHANGED deployerVars
  BY <1>2, <1>10 DEF deployerVars
<1>11. ASSUME NEW caller, NEW payment, NEW risk, call = NoCall,
              HandedOver(caller, risk, payment)
       PROVE  SmartAccountInv'
  <2>1. /\ egld' \in [Holders -> Nat]
        /\ UNCHANGED <<userRiskTolerance, userStrategy, userPortfolio, esdt,
                       farmStakingAddressForToken, call>>
    BY <1>11 DEF HandedOver, storageVars
  <2>2. SmartAccountTypeOK'
    BY <1>1, <2>1 DEF SmartAccountTypeOK
  <2>. QED BY <1>11, <2>1, <2>2, IdleStep
<1>. QED BY <1>3, <1>4, <1>5, <1>6, <1>7, <1>8, <1>9, <1>10, <1>11, InitializeCases
         DEF DeployerNext, DeployerStep

-----------------------------------------------------------------------------
(***************************************************************************)
(* Where the EGLD is.                                                      *)
(***************************************************************************)
LEMMA LedgerFacts ==
    ASSUME DeployerInv
    PROVE  /\ egld \in [Holders -> Nat]
           /\ Deposits \subseteq Nat
           /\ call # NoCall => /\ call \in Call /\ call.pc # "idle"
                               /\ call.egld \in [Holders -> Nat]
                               /\ call.account \in Accounts /\ call.payment \in Nat
                               /\ call.risk \in Nat
           /\ call.pc # "idle" => call # NoCall
BY LedgerAssumption DEF DeployerInv, SmartAccountInv, SmartAccountTypeOK, Call, NoCall

LEMMA FlightGoesOn ==
    ASSUME DeployerInv, NEW user \in Users, InFlightFor(user), GoesOn, UNCHANGED registryVars
    PROVE  InFlightFor(user)'
<1>1. /\ call # NoCall /\ call' # NoCall /\ call'.pc # "wrap"
      /\ call'.account = call.account /\ call'.payment = call.payment
      /\ egld' = egld
      /\ call.pc = "wrap" => call.payment > 0
  BY DEF GoesOn, SameCall
<1>2. egld \in [Holders -> Nat] /\ call.egld \in [Holders -> Nat] /\ call.account \in Accounts
      /\ call.payment \in Nat
  BY <1>1, LedgerFacts
<1>3. call'.payment > 0
  BY <1>1 DEF InFlightFor
<1>4. Keeper' = Wrapper
  BY <1>1 DEF Keeper
<1>5. \A holder \in Holders :
         call'.egld[holder] = IF holder = user THEN egld[holder] - call.payment
                              ELSE IF holder = Wrapper THEN egld[holder] + call.payment
                              ELSE egld[holder]
  <2>1. CASE call.pc = "wrap"
    <3>1. call'.egld = Transfer(call.egld, call.account, Wrapper, call.payment)
      BY <2>1 DEF GoesOn
    <3>2. \A holder \in Holders :
             call.egld[holder] = IF holder = user THEN egld[holder] - call.payment
                                 ELSE IF holder = call.account THEN egld[holder] + call.payment
                                 ELSE egld[holder]
      BY <2>1 DEF InFlightFor, Keeper
    <3>3. /\ call.account \in Holders /\ Wrapper \in Holders /\ Wrapper # call.account
          /\ user # call.account /\ user # Wrapper
      BY <1>2, Parted
    <3>4. call.egld[call.account] = egld[call.account] + call.payment
          /\ egld[call.account] \in Nat
      BY <1>2, <3>2, <3>3
    <3>5. call.egld[call.account] >= call.payment
          /\ call.egld[call.account] - call.payment = egld[call.account]
      BY <1>2, <3>4
    <3>6. \A holder \in Holders :
             call'.egld[holder] = IF holder = call.account
                                  THEN call.egld[holder] - call.payment
                                  ELSE IF holder = Wrapper
                                  THEN call.egld[holder] + call.payment
                                  ELSE call.egld[holder]
      <4>1. PICK before, account, payment :
               before = call.egld /\ account = call.account /\ payment = call.payment
        OBVIOUS
      <4>2. /\ before \in [Holders -> Nat] /\ account \in Holders /\ Wrapper \in Holders
            /\ account # Wrapper /\ payment \in Nat /\ before[account] >= payment
        BY <1>2, <3>3, <3>5, <4>1
      <4>3. \A holder \in Holders :
               Transfer(before, account, Wrapper, payment)[holder] =
                  IF holder = account THEN before[holder] - payment
                  ELSE IF holder = Wrapper THEN before[holder] + payment
                  ELSE before[holder]
        BY <4>2, TransferLedger
      <4>. QED BY <3>1, <4>1, <4>3
    <3>. QED BY <3>2, <3>3, <3>5, <3>6
  <2>2. CASE call.pc # "wrap"
    BY <2>2 DEF GoesOn, InFlightFor, Keeper
  <2>. QED BY <2>1, <2>2
<1>6. /\ UNCHANGED userSmartAccount
      /\ Works(call.account) => Works(call.account)'
  BY <1>1 DEF registryVars, Works, RunsSmartAccount
<1>. QED BY <1>1, <1>3, <1>4, <1>5, <1>6 DEF InFlightFor

LEMMA DepositStarts ==
    ASSUME DeployerInv, NEW caller \in Users, NEW risk, NEW payment \in Deposits,
           Setup(caller, risk, payment)
    PROVE  caller \in Registered' /\ InFlightFor(caller)'
<1>. DEFINE account == userSmartAccount[caller]
            ledger  == Transfer(Transfer(egld, caller, Deployer, payment),
                                Deployer, account, payment)
<1>1. /\ account # NoAddress /\ egld[caller] >= payment /\ Works(account)
      /\ SetupSmartAccount(Deployer, account, risk, Offer(risk), payment, ledger)
      /\ UNCHANGED registryVars
  BY DEF Setup
<1>2. /\ call'.pc = "wrap" /\ call'.account = account /\ call'.payment = payment
      /\ call'.egld = ledger /\ egld' = egld
  BY <1>1 DEF SetupSmartAccount, ledgerVars
<1>3. \A holder \in Holders :
         ledger[holder] = IF holder = caller THEN egld[holder] - payment
                          ELSE IF holder = account THEN egld[holder] + payment
                          ELSE egld[holder]
  BY <1>1, DepositLedger
<1>4. userSmartAccount' = userSmartAccount
  BY <1>1 DEF registryVars
<1>5. Keeper' = account
  BY <1>2 DEF Keeper
<1>6. caller \in Registered'
  BY <1>1, <1>4 DEF Registered
<1>7. payment <= egld[caller]
  BY <1>1, LedgerFacts, Parted
<1>8. Works(call.account)'
  BY <1>1, <1>2 DEF registryVars, Works, RunsSmartAccount
<1>. HIDE DEF ledger, account
<1>9. userSmartAccount[caller] = account
  BY DEF account
<1>. QED BY <1>2, <1>3, <1>4, <1>5, <1>6, <1>7, <1>8, <1>9 DEF InFlightFor

LEMMA FlightHolds ==
    ASSUME DeployerInv, [DeployerNext]_deployerVars
    PROVE  DepositInFlight'
<1>1. ASSUME NEW caller \in Users, NEW payment \in Deposits, NEW risk,
             Setup(caller, risk, payment)
      PROVE  DepositInFlight'
  BY <1>1, DepositStarts DEF DepositInFlight
<1>2. ASSUME GoesOn, UNCHANGED registryVars
      PROVE  DepositInFlight'
  <2>1. PICK user \in Registered : InFlightFor(user)
    BY <1>2 DEF DeployerInv, DepositInFlight, GoesOn
  <2>2. user \in Users /\ UNCHANGED registryVars /\ UNCHANGED userSmartAccount
    BY <1>2 DEF Registered, registryVars
  <2>3. InFlightFor(user)'
    BY <1>2, <2>1, <2>2, FlightGoesOn
  <2>4. user \in Registered'
    BY <2>1, <2>2 DEF Registered
  <2>. QED BY <2>3, <2>4 DEF DepositInFlight
<1>3. ASSUME call' = NoCall PROVE DepositInFlight'
  BY <1>3 DEF DepositInFlight
<1>4. CASE CallStep /\ UNCHANGED <<registryVars, strategiesVars>>
  <2>1. GoesOn \/ Return \/ Fail
    BY <1>4, CallStepShape DEF DeployerInv
  <2>2. UNCHANGED registryVars
    BY <1>4
  <2>. QED BY <1>2, <1>3, <2>1, <2>2 DEF Return, Fail
<1>5. CASE UNCHANGED deployerVars
  <2>1. UNCHANGED <<userSmartAccount, code, smartAccountDeployerAddress, call, egld>>
    BY <1>5 DEF deployerVars, registryVars, accountVars, ledgerVars
  <2>. QED BY <2>1 DEF DeployerInv, DepositInFlight, InFlightFor, Keeper, Registered, Works,
                       RunsSmartAccount
<1>6. CASE call = NoCall /\ BookStep
  BY <1>3, <1>6 DEF BookStep, accountVars
<1>7. ASSUME call = NoCall, NEW template, UpdateSmartAccountTemplate(template)
      PROVE  DepositInFlight'
  BY <1>3, <1>7 DEF UpdateSmartAccountTemplate, accountVars
<1>8. ASSUME call = NoCall, NEW caller, NEW setting,
             SetFarmStakingAddressForToken(caller, setting)
      PROVE  DepositInFlight'
  BY <1>3, <1>8 DEF SetFarmStakingAddressForToken
<1>9. ASSUME call = NoCall, NEW caller, NEW payment, DeploySmartAccount(caller, payment)
      PROVE  DepositInFlight'
  BY <1>3, <1>9 DEF DeploySmartAccount, Deployed
<1>10. ASSUME call = NoCall, NEW caller, UpgradeSmartAccount(caller)
       PROVE  DepositInFlight'
  BY <1>3, <1>10 DEF UpgradeSmartAccount, accountVars
<1>11. ASSUME call = NoCall, NEW caller, NEW payment, NEW risk,
              HandedOver(caller, risk, payment)
       PROVE  DepositInFlight'
  BY <1>3, <1>11 DEF HandedOver
<1>. QED BY <1>1, <1>4, <1>5, <1>6, <1>7, <1>8, <1>9, <1>10, <1>11, InitializeCases
         DEF DeployerNext, DeployerStep

\* What a call that returns commits: the deposit has gone from the user to the wrapper.
LEMMA Committed ==
    ASSUME DeployerInv, Return
    PROVE  \E user \in Registered :
              /\ InFlightFor(user)
              /\ call.payment \in Nat /\ call.payment > 0
              /\ egld' \in [Holders -> Nat]
              /\ \A holder \in Holders :
                    egld'[holder] = IF holder = user THEN egld[holder] - call.payment
                                    ELSE IF holder = Wrapper THEN egld[holder] + call.payment
                                    ELSE egld[holder]
<1>1. call.pc = "return" /\ egld' = call.egld
  BY DEF Return
<1>2. call # NoCall /\ call.egld \in [Holders -> Nat] /\ call.payment \in Nat
  BY <1>1, LedgerFacts
<1>3. PICK user \in Registered : InFlightFor(user)
  BY <1>2 DEF DeployerInv, DepositInFlight
<1>4. Keeper = Wrapper
  BY <1>1 DEF Keeper
<1>. QED BY <1>1, <1>2, <1>3, <1>4 DEF InFlightFor

\* The deployer, and whoever runs a smart account's code.
Passing == {Deployer} \cup {account \in Accounts : RunsSmartAccount(account)}

LEMMA NothingStays ==
    ASSUME DeployerInv, [DeployerNext]_deployerVars, NEW holder \in Passing
    PROVE  egld'[holder] = egld[holder]
<1>. DEFINE Same == egld'[holder] = egld[holder]
<1>1. holder \in Holders /\ holder \in Accounts \cup {Deployer}
  BY Parted DEF Passing
<1>2. ASSUME NEW caller \in Users, NEW payment \in Deposits, DeploySmartAccount(caller, payment)
      PROVE  Same
  <2>1. StrategiesTypeOK
    BY DEF DeployerInv, BookInv
  <2>. QED BY <1>1, <1>2, <2>1, FeeLedger, Parted, AdminApart
<1>3. ASSUME Return PROVE Same
  <2>1. PICK user \in Registered :
           \A other \in Holders :
              egld'[other] = IF other = user THEN egld[other] - call.payment
                             ELSE IF other = Wrapper THEN egld[other] + call.payment
                             ELSE egld[other]
    BY <1>3, Committed
  <2>2. user \in Users
    BY DEF Registered
  <2>. QED BY <1>1, <2>1, <2>2, Parted
<1>4. CASE CallStep
  <2>1. GoesOn \/ Return \/ Fail
    BY <1>4, CallStepShape DEF DeployerInv
  <2>. QED BY <1>3, <2>1 DEF GoesOn, Fail, ledgerVars
<1>5. CASE UNCHANGED accountVars
  BY <1>5 DEF accountVars, ledgerVars
<1>6. CASE BookStep
  BY <1>5, <1>6 DEF BookStep
<1>7. ASSUME NEW template, UpdateSmartAccountTemplate(template)
      PROVE  Same
  BY <1>5, <1>7 DEF UpdateSmartAccountTemplate
<1>8. ASSUME NEW caller, NEW setting, SetFarmStakingAddressForToken(caller, setting)
      PROVE  Same
  BY <1>8 DEF SetFarmStakingAddressForToken, ledgerVars
<1>9. ASSUME NEW caller, NEW risk, NEW payment, Setup(caller, risk, payment)
      PROVE  Same
  BY <1>9 DEF Setup, SetupSmartAccount, ledgerVars
<1>10. ASSUME NEW caller \in Users, NEW risk, NEW payment, HandedOver(caller, risk, payment)
       PROVE  Same
  <2>1. holder # caller /\ holder # userSmartAccount[caller]
    BY <1>1, <1>10, Parted DEF HandedOver, Passing
  <2>. QED BY <1>1, <1>10, <2>1 DEF HandedOver
<1>11. ASSUME NEW caller, UpgradeSmartAccount(caller)
       PROVE  Same
  BY <1>5, <1>11 DEF UpgradeSmartAccount
<1>12. CASE UNCHANGED deployerVars
  BY <1>5, <1>12 DEF deployerVars
<1>. QED BY <1>2, <1>4, <1>6, <1>7, <1>8, <1>9, <1>10, <1>11, <1>12, InitializeCases
         DEF DeployerNext, DeployerStep

-----------------------------------------------------------------------------
(***************************************************************************)
(* Plans: the one in flight, and those the accounts work by.               *)
(***************************************************************************)

\* A call is opened with what is on offer, and lives on in one way only.
LEMMA CallShape ==
    ASSUME DeployerInv, [DeployerNext]_deployerVars, call' # NoCall
    PROVE  \/ /\ call # NoCall /\ call'.plan = call.plan /\ call'.risk = call.risk
              /\ UNCHANGED <<strategies, lastStrategyEpoch>>
           \/ /\ call' \in Call /\ call'.risk \in RiskLevels
              /\ Offer(call'.risk) # <<>> /\ call'.plan = Offer(call'.risk)
              /\ UNCHANGED <<strategies, lastStrategyEpoch>>
<1>1. ASSUME NEW caller, NEW risk, NEW payment, Setup(caller, risk, payment)
      PROVE  /\ call'.risk \in RiskLevels
             /\ Offer(call'.risk) # <<>> /\ call'.plan = Offer(call'.risk)
             /\ UNCHANGED <<strategies, lastStrategyEpoch>>
  BY <1>1 DEF Setup, SetupSmartAccount, strategiesVars
<1>2. CASE CallStep /\ UNCHANGED <<registryVars, strategiesVars>>
  <2>1. GoesOn \/ Return \/ Fail
    BY <1>2, CallStepShape DEF DeployerInv
  <2>. QED BY <1>2, <2>1 DEF GoesOn, SameCall, Return, Fail, strategiesVars
<1>3. CASE call = NoCall /\ BookStep
  BY <1>3 DEF BookStep, accountVars
<1>4. ASSUME call = NoCall, NEW template, UpdateSmartAccountTemplate(template) PROVE FALSE
  BY <1>4 DEF UpdateSmartAccountTemplate, accountVars
<1>5. ASSUME call = NoCall, NEW caller, NEW setting,
             SetFarmStakingAddressForToken(caller, setting)
      PROVE  FALSE
  BY <1>5 DEF SetFarmStakingAddressForToken
<1>6. ASSUME call = NoCall, NEW caller, NEW payment, DeploySmartAccount(caller, payment)
      PROVE  FALSE
  BY <1>6 DEF DeploySmartAccount, Deployed
<1>7. ASSUME call = NoCall, NEW caller, UpgradeSmartAccount(caller) PROVE FALSE
  BY <1>7 DEF UpgradeSmartAccount, accountVars
<1>8. CASE UNCHANGED deployerVars
  BY <1>8 DEF deployerVars, accountVars, strategiesVars
<1>9. call' \in Call
  BY AccountHolds DEF SmartAccountInv, SmartAccountTypeOK
<1>10. ASSUME call = NoCall, NEW caller, NEW risk, NEW payment, HandedOver(caller, risk, payment)
       PROVE  FALSE
  BY <1>10 DEF HandedOver
<1>. QED BY <1>1, <1>2, <1>3, <1>4, <1>5, <1>6, <1>7, <1>8, <1>9, <1>10, InitializeCases
         DEF DeployerNext, DeployerStep

LEMMA PlansHold ==
    ASSUME DeployerInv, [DeployerNext]_deployerVars
    PROVE  PlanInFlightIsOnOffer'
<1>. SUFFICES ASSUME call' # NoCall
              PROVE  (call.plan = Offer(call.risk) /\ Complete(call.plan))'
  BY DEF PlanInFlightIsOnOffer
<1>1. CASE /\ call # NoCall /\ call'.plan = call.plan /\ call'.risk = call.risk
           /\ UNCHANGED <<strategies, lastStrategyEpoch>>
  BY <1>1 DEF DeployerInv, PlanInFlightIsOnOffer, Offer
<1>2. CASE /\ call' \in Call /\ call'.risk \in RiskLevels
           /\ Offer(call'.risk) # <<>> /\ call'.plan = Offer(call'.risk)
           /\ UNCHANGED <<strategies, lastStrategyEpoch>>
  <2>1. Complete(call'.plan)
    BY <1>2, OfferIsComplete DEF DeployerInv
  <2>. QED BY <1>2, <2>1 DEF Offer
<1>. QED BY <1>1, <1>2, CallShape

\* The book only grows: what was published up to the last epoch still is.
LEMMA BookGrows ==
    ASSUME DeployerInv, [DeployerNext]_deployerVars,
           NEW e \in 0..lastStrategyEpoch, NEW risk \in RiskLevels, strategies[e][risk] # <<>>
    PROVE  e \in 0..lastStrategyEpoch' /\ strategies'[e][risk] = strategies[e][risk]
<1>1. [StrategiesNext]_strategiesVars
  BY BookAlone
<1>2. /\ StrategiesTypeOK /\ lastStrategyEpoch <= epoch
      /\ lastStrategyEpoch \in Nat /\ epoch \in Nat /\ lastStrategyEpoch <= MaxEpoch
  BY StrategiesAssumption DEF DeployerInv, BookInv, PointerIsNewest, StrategiesTypeOK, Epochs
<1>3. e \in Epochs
  BY <1>2, StrategiesAssumption DEF Epochs
<1>4. strategies'[e][risk] = strategies[e][risk]
  BY <1>1, <1>2, <1>3, FinalStep
<1>5. lastStrategyEpoch' = lastStrategyEpoch \/ lastStrategyEpoch' = epoch
  BY <1>1, StepShape DEF Writes
<1>. QED BY <1>2, <1>4, <1>5

\* Only a call that returns writes level and plan.
LEMMA StorageShape ==
    ASSUME DeployerInv, [DeployerNext]_deployerVars
    PROVE  \/ UNCHANGED <<userRiskTolerance, userStrategy>>
           \/ Return /\ UNCHANGED <<userSmartAccount, strategies, lastStrategyEpoch>>
<1>1. CASE CallStep /\ UNCHANGED <<registryVars, strategiesVars>>
  <2>1. GoesOn \/ Return \/ Fail
    BY <1>1, CallStepShape DEF DeployerInv
  <2>. QED BY <1>1, <2>1 DEF GoesOn, Fail, storageVars, strategiesVars, registryVars
<1>2. CASE BookStep
  BY <1>2 DEF BookStep, accountVars, storageVars
<1>3. ASSUME NEW template, UpdateSmartAccountTemplate(template)
      PROVE  UNCHANGED <<userRiskTolerance, userStrategy>>
  BY <1>3 DEF UpdateSmartAccountTemplate, accountVars, storageVars
<1>4. ASSUME NEW caller, NEW setting, SetFarmStakingAddressForToken(caller, setting)
      PROVE  UNCHANGED <<userRiskTolerance, userStrategy>>
  BY <1>4 DEF SetFarmStakingAddressForToken, storageVars
<1>5. ASSUME NEW caller, NEW payment, DeploySmartAccount(caller, payment)
      PROVE  UNCHANGED <<userRiskTolerance, userStrategy>>
  BY <1>5 DEF DeploySmartAccount, Deployed, storageVars
<1>6. ASSUME NEW caller, NEW risk, NEW payment, InitializeSmartAccount(caller, risk, payment)
      PROVE  UNCHANGED <<userRiskTolerance, userStrategy>>
  BY <1>6 DEF InitializeSmartAccount, CallSetup, CallOtherCode, SetupSmartAccount, storageVars
<1>7. ASSUME NEW caller, UpgradeSmartAccount(caller)
      PROVE  UNCHANGED <<userRiskTolerance, userStrategy>>
  BY <1>7 DEF UpgradeSmartAccount, accountVars, storageVars
<1>8. CASE UNCHANGED deployerVars
  BY <1>8 DEF deployerVars, accountVars, storageVars
<1>. QED BY <1>1, <1>2, <1>3, <1>4, <1>5, <1>6, <1>7, <1>8 DEF DeployerNext, DeployerStep

\* What a call that returns stores.
LEMMA StoredByReturn ==
    ASSUME DeployerInv, Return
    PROVE  /\ call.account \in Accounts /\ call.risk \in RiskLevels
           /\ call.plan = Offer(call.risk) /\ call.plan # <<>>
           /\ \A account \in Accounts :
                 /\ userRiskTolerance'[account] =
                       IF account = call.account THEN call.risk ELSE userRiskTolerance[account]
                 /\ userStrategy'[account] =
                       IF account = call.account THEN call.plan ELSE userStrategy[account]
<1>1. call.pc = "return" /\ call # NoCall /\ call.account \in Accounts
  BY LedgerFacts DEF Return
<1>2. call.risk \in RiskLevels
  BY <1>1 DEF DeployerInv, SmartAccountInv, ArgumentsChecked, Walking
<1>3. call.plan = Offer(call.risk) /\ call.plan # <<>>
  BY <1>1, CallFacts DEF DeployerInv, PlanInFlightIsOnOffer
<1>4. /\ userRiskTolerance \in [Accounts -> RiskLevels]
      /\ userStrategy \in [Accounts -> Seq(Strategy)]
  BY DEF DeployerInv, SmartAccountInv, SmartAccountTypeOK
<1>. QED BY <1>1, <1>2, <1>3, <1>4 DEF Return

LEMMA StoredHolds ==
    ASSUME DeployerInv, [DeployerNext]_deployerVars
    PROVE  StoredPlanWasPublished'
<1>. SUFFICES ASSUME NEW account \in Accounts, userStrategy'[account] # <<>>
              PROVE  \E e \in 0..lastStrategyEpoch' :
                        strategies'[e][userRiskTolerance'[account]] = userStrategy'[account]
  BY DEF StoredPlanWasPublished
<1>1. CASE /\ userRiskTolerance'[account] = userRiskTolerance[account]
           /\ userStrategy'[account] = userStrategy[account]
  <2>1. PICK e \in 0..lastStrategyEpoch :
           strategies[e][userRiskTolerance[account]] = userStrategy[account]
    BY <1>1 DEF DeployerInv, StoredPlanWasPublished
  <2>2. userRiskTolerance[account] \in RiskLevels
    BY DEF DeployerInv, SmartAccountInv, SmartAccountTypeOK
  <2>. QED BY <1>1, <2>1, <2>2, BookGrows
<1>2. CASE /\ Return /\ UNCHANGED <<strategies, lastStrategyEpoch>> /\ account = call.account
  <2>1. /\ userRiskTolerance'[account] = call.risk /\ userStrategy'[account] = call.plan
        /\ call.plan = Offer(call.risk)
    BY <1>2, StoredByReturn
  <2>2. lastStrategyEpoch \in 0..lastStrategyEpoch
    BY StrategiesAssumption DEF DeployerInv, BookInv, StrategiesTypeOK, Epochs
  <2>. QED BY <1>2, <2>1, <2>2 DEF Offer
<1>. QED BY <1>1, <1>2, StorageShape, StoredByReturn

\* Nothing is stored for an account before somebody has bought it.
LEMMA UnusedShrink ==
    ASSUME DeployerInv, [DeployerNext]_deployerVars
    PROVE  /\ Unused' \subseteq Unused
           /\ \A account \in Unused' :
                 smartAccountDeployerAddress'[account] = smartAccountDeployerAddress[account]
<1>. DEFINE Shrinks ==
        /\ Unused' \subseteq Unused
        /\ \A account \in Unused' :
              smartAccountDeployerAddress'[account] = smartAccountDeployerAddress[account]
<1>1. ASSUME UNCHANGED <<code, smartAccountDeployerAddress>> PROVE Shrinks
  BY <1>1 DEF Unused
<1>2. ASSUME NEW caller \in Users, NEW payment, DeploySmartAccount(caller, payment)
      PROVE  Shrinks
  <2>1. PICK smart_account \in Unused :
           /\ Unused' = Unused \ {smart_account}
           /\ smartAccountDeployerAddress' = Initialized(smart_account)
    BY <1>2, NewAccount DEF DeployerInv
  <2>2. smartAccountDeployerAddress \in [Accounts -> {Deployer, NoAddress}]
    BY DEF DeployerInv, RegistryInv, RegistryTypeOK
  <2>. QED BY <2>1, <2>2 DEF Initialized, Unused
<1>3. ASSUME NEW caller \in Users, UpgradeSmartAccount(caller)
      PROVE  Shrinks
  BY <1>3, UpgradeRegistry DEF DeployerInv, UpgradeSmartAccount
<1>4. CASE BookStep
  BY <1>1, <1>4 DEF BookStep, registryVars
<1>5. CASE CallStep /\ UNCHANGED <<registryVars, strategiesVars>>
  BY <1>1, <1>5 DEF registryVars
<1>6. ASSUME NEW template, UpdateSmartAccountTemplate(template) PROVE Shrinks
  BY <1>1, <1>6 DEF UpdateSmartAccountTemplate
<1>7. ASSUME NEW caller, NEW setting, SetFarmStakingAddressForToken(caller, setting)
      PROVE  Shrinks
  BY <1>1, <1>7 DEF SetFarmStakingAddressForToken, registryVars
<1>8. ASSUME NEW caller, NEW risk, NEW payment, InitializeSmartAccount(caller, risk, payment)
      PROVE  Shrinks
  BY <1>1, <1>8 DEF InitializeSmartAccount, registryVars
<1>9. CASE UNCHANGED deployerVars
  BY <1>1, <1>9 DEF deployerVars, registryVars
<1>. QED BY <1>2, <1>3, <1>4, <1>5, <1>6, <1>7, <1>8, <1>9 DEF DeployerNext, DeployerStep

LEMMA UnusedHolds ==
    ASSUME DeployerInv, [DeployerNext]_deployerVars
    PROVE  UnusedAreEmpty'
<1>. SUFFICES ASSUME NEW account \in Unused'
              PROVE  /\ userRiskTolerance'[account] = 0 /\ userStrategy'[account] = <<>>
                     /\ smartAccountDeployerAddress'[account] = NoAddress
  BY DEF UnusedAreEmpty
<1>1. /\ account \in Unused /\ account \in Accounts
      /\ userRiskTolerance[account] = 0 /\ userStrategy[account] = <<>>
      /\ smartAccountDeployerAddress'[account] = NoAddress
  BY UnusedShrink DEF DeployerInv, UnusedAreEmpty, Unused
<1>2. CASE Return
  <2>1. PICK user \in Registered : userSmartAccount[user] = call.account
    BY <1>2, Committed DEF InFlightFor
  <2>2. call.account \notin Unused
    BY <2>1 DEF DeployerInv, RegistryInv, EveryAccountHasItsUser
  <2>. QED BY <1>1, <1>2, <2>2, StoredByReturn
<1>. QED BY <1>1, <1>2, StorageShape

-----------------------------------------------------------------------------
LEMMA DeployerInitInv == DeployerInit => DeployerInv
<1>. SUFFICES ASSUME DeployerInit PROVE DeployerInv
  OBVIOUS
<1>. USE DEF DeployerInit
<1>1. BookInv
  BY TypeInit, CompleteInit, PointerInit DEF BookInv
<1>2. RegistryInv
  <2>1. Registered = {} /\ Unused = Accounts
    BY DEF Registered, Unused
  <2>2. RegistryTypeOK
    BY DEF RegistryTypeOK
  <2>. QED BY <2>1, <2>2 DEF RegistryInv, EveryAccountHasItsUser
<1>3. SmartAccountInv
  <2>1. /\ \A holder \in Holders : (IF holder \in Users THEN UserFunds ELSE 0) \in Nat
        /\ 0 \in RiskLevels
    BY DeployerAssumption DEF RiskLevels, MAX_RISK_TOLERANCE
  <2>2. SmartAccountTypeOK
    BY <2>1 DEF SmartAccountTypeOK
  <2>. QED BY <2>2, IdleInv
<1>4. UnusedAreEmpty
  BY DEF UnusedAreEmpty, Unused
<1>. QED BY <1>1, <1>2, <1>3, <1>4
         DEF DeployerInv, PlanInFlightIsOnOffer, StoredPlanWasPublished, DepositInFlight

LEMMA DeployerStepInv ==
    ASSUME NoOverflow, DeployerInv, [DeployerNext]_deployerVars
    PROVE  DeployerInv'
<1>1. BookInv' /\ RegistryInv'
  BY BookHolds, RegistryHolds DEF DeployerInv
<1>. QED BY <1>1, AccountHolds, PlansHold, StoredHolds, FlightHolds, UnusedHolds
         DEF DeployerInv

\* The invariant of the composition, provided no list that may be submitted adds up
\* beyond u64.
THEOREM DeployerInvariant == NoOverflow => (DeployerSpec => []DeployerInv)
<1>. SUFFICES ASSUME NoOverflow PROVE DeployerSpec => []DeployerInv
  OBVIOUS
<1>1. DeployerInv /\ [DeployerNext]_deployerVars => DeployerInv'
  BY DeployerStepInv
<1>. QED BY <1>1, DeployerInitInv, PTL DEF DeployerSpec

\* Storage and ledgers of all contracts, and the call in flight, keep their types: no
\* transfer of a fee or a deposit takes a balance below zero.
THEOREM DeployerTypeCorrect == NoOverflow => (DeployerSpec => []DeployerTypeOK)
<1>1. DeployerInv => DeployerTypeOK
  BY DEF DeployerInv, BookInv, SmartAccountInv, RegistryInv, RegistryTypeOK, DeployerTypeOK
<1>. QED BY <1>1, DeployerInvariant, PTL

\* Users and deployed accounts stay one to one, and no account is orphaned.
THEOREM RegistryOneToOne == NoOverflow => (DeployerSpec => []EveryAccountHasItsUser)
<1>1. DeployerInv => EveryAccountHasItsUser
  BY DEF DeployerInv, RegistryInv
<1>. QED BY <1>1, DeployerInvariant, PTL

\* No fee and no deposit gets stuck in the deployer or in an account that runs a smart
\* account's code, whatever call fails where and whatever was the template before.
THEOREM EgldGoesAllTheWay == NoOverflow => (DeployerSpec => NoEgldStaysBehind)
<1>1. DeployerInv /\ [DeployerNext]_deployerVars
        => [\A holder \in {Deployer} \cup {account \in Accounts : RunsSmartAccount(account)} :
               egld'[holder] = egld[holder]]_deployerVars
  BY NothingStays DEF Passing
<1>. QED BY <1>1, DeployerInvariant, PTL DEF DeployerSpec, NoEgldStaysBehind

\* The level and the plan an account works by belong together.
THEOREM StoredPlansPublished == NoOverflow => (DeployerSpec => []StoredPlanWasPublished)
<1>1. DeployerInv => StoredPlanWasPublished
  BY DEF DeployerInv
<1>. QED BY <1>1, DeployerInvariant, PTL

\* What the account takes on trust is true: it is only ever passed the complete
\* allocation on offer for the level.
THEOREM PlansOnOffer == NoOverflow => (DeployerSpec => []PlanInFlightIsOnOffer)
<1>1. DeployerInv => PlanInFlightIsOnOffer
  BY DEF DeployerInv
<1>. QED BY <1>1, DeployerInvariant, PTL

\* Hence in the composition, too, each transfer is paid for by its own deposit.
THEOREM DepositsCoverInFlight == NoOverflow => (DeployerSpec => []DepositCoversTransfers)
<1>1. DeployerInv => DepositCoversTransfers
  BY CoversTransfers DEF DeployerInv
<1>. QED BY <1>1, DeployerInvariant, PTL

-----------------------------------------------------------------------------
(***************************************************************************)
(* Fees: what the admins have is added up over the set of them, so that it *)
(* does not matter to whom of them a fee went.                             *)
(***************************************************************************)
Paid == Admins \ {ZeroAddress}

LEMMA PaidParties ==
    /\ IsFiniteSet(Paid) /\ Paid \subseteq Holders
    /\ Paid \cap Users = {} /\ Wrapper \notin Paid
<1>1. IsFiniteSet(Paid)
  BY DeployerAssumption, FS_Subset DEF Paid
<1>. QED BY <1>1, LedgerAssumption, DeployerAssumption DEF Paid, Holders

LEMMA RegisteredAreFinite == IsFiniteSet(Registered)
BY DeployerAssumption, FS_Subset DEF Registered

LEMMA FeesOfNobody == DeployerInit => OneFeePerAccount
<1>. SUFFICES ASSUME DeployerInit PROVE OneFeePerAccount
  OBVIOUS
<1>1. Registered = {}
  BY DEF DeployerInit, Registered
<1>2. \A admin \in Paid : egld[admin] = 0
  BY PaidParties DEF DeployerInit
<1>3. SumFunctionOnSet(egld, Paid) = 0
  BY <1>2, PaidParties, SumOfZeros
<1>4. Cardinality(Registered) = 0 /\ OpenFee * 0 = 0
  BY <1>1, FS_EmptySet, DeployerAssumption
<1>. QED BY <1>3, <1>4 DEF OneFeePerAccount, Paid

\* Nobody registers and no admin is paid.
LEMMA FeesStay ==
    ASSUME DeployerInv, OneFeePerAccount, UNCHANGED userSmartAccount,
           \A admin \in Paid : egld'[admin] = egld[admin]
    PROVE  OneFeePerAccount'
<1>1. Registered' = Registered
  BY DEF Registered
<1>2. PICK before, after : before = egld /\ after = egld'
  OBVIOUS
<1>3. \A admin \in Paid : before[admin] \in Int /\ after[admin] = before[admin]
  BY <1>2, LedgerFacts, PaidParties
<1>4. SumFunctionOnSet(after, Paid) = SumFunctionOnSet(before, Paid)
  BY <1>3, PaidParties, SumStays
<1>. QED BY <1>1, <1>2, <1>4 DEF OneFeePerAccount, Paid

\* One more user, and one more fee for the admin of the day.
LEMMA FeePaid ==
    ASSUME DeployerInv, OneFeePerAccount, NEW caller \in Users, NEW payment \in Deposits,
           DeploySmartAccount(caller, payment)
    PROVE  OneFeePerAccount'
<1>1. adminAddress \in Paid /\ caller \notin Paid
  BY PaidParties DEF DeployerInv, BookInv, StrategiesTypeOK, Paid
<1>2. /\ egld \in [Holders -> Nat] /\ egld' \in [Holders -> Nat] /\ OpenFee \in Nat
      /\ egld'[adminAddress] = egld[adminAddress] + OpenFee
      /\ \A admin \in Paid \ {adminAddress} : egld'[admin] = egld[admin]
  BY <1>1, FeeLedger, LedgerFacts, PaidParties, DeployerAssumption
<1>3. PICK before, after, admin : before = egld /\ after = egld' /\ admin = adminAddress
  OBVIOUS
<1>4. /\ \A other \in Paid : before[other] \in Int /\ after[other] \in Int
      /\ \A other \in Paid \ {admin} : after[other] = before[other]
      /\ admin \in Paid /\ before[admin] \in Int /\ after[admin] = before[admin] + OpenFee
  BY <1>1, <1>2, <1>3, PaidParties
<1>5. /\ SumFunctionOnSet(before, Paid) \in Int
      /\ SumFunctionOnSet(after, Paid)
            = SumFunctionOnSet(before, Paid)
                 + (IF admin \in Paid THEN after[admin] - before[admin] ELSE 0)
  BY <1>4, PaidParties, SumChangesAt
<1>6. SumFunctionOnSet(after, Paid) = SumFunctionOnSet(before, Paid) + OpenFee
  BY <1>2, <1>4, <1>5
<1>7. caller \notin Registered /\ Registered' = Registered \cup {caller}
  BY NewAccount DEF DeployerInv
<1>8. /\ Cardinality(Registered) \in Nat
      /\ Cardinality(Registered') = Cardinality(Registered) + 1
  BY <1>7, RegisteredAreFinite, FS_AddElement, FS_CardinalityType
<1>9. \A n \in Nat : OpenFee * (n + 1) = OpenFee * n + OpenFee
  BY <1>2
<1>. QED BY <1>3, <1>6, <1>8, <1>9 DEF OneFeePerAccount, Paid

LEMMA FeesHold ==
    ASSUME DeployerInv, OneFeePerAccount, [DeployerNext]_deployerVars
    PROVE  OneFeePerAccount'
<1>1. ASSUME UNCHANGED <<egld, userSmartAccount>> PROVE OneFeePerAccount'
  BY <1>1, FeesStay
<1>2. CASE CallStep /\ UNCHANGED <<registryVars, strategiesVars>>
  <2>1. GoesOn \/ Return \/ Fail
    BY <1>2, CallStepShape DEF DeployerInv
  <2>2. UNCHANGED userSmartAccount
    BY <1>2 DEF registryVars
  <2>3. CASE Return
    <3>1. PICK user \in Registered :
             \A holder \in Holders :
                egld'[holder] = IF holder = user THEN egld[holder] - call.payment
                                ELSE IF holder = Wrapper THEN egld[holder] + call.payment
                                ELSE egld[holder]
      BY <2>3, Committed
    <3>2. \A admin \in Paid : egld'[admin] = egld[admin]
      BY <3>1, PaidParties DEF Registered
    <3>. QED BY <2>2, <3>2, FeesStay
  <2>4. CASE GoesOn \/ Fail
    BY <1>1, <2>2, <2>4 DEF GoesOn, Fail, ledgerVars
  <2>. QED BY <2>1, <2>3, <2>4
<1>3. CASE UNCHANGED accountVars /\ UNCHANGED userSmartAccount
  BY <1>1, <1>3 DEF accountVars, ledgerVars
<1>4. CASE BookStep
  BY <1>3, <1>4 DEF BookStep, registryVars
<1>5. ASSUME NEW template, UpdateSmartAccountTemplate(template)
      PROVE  OneFeePerAccount'
  BY <1>3, <1>5 DEF UpdateSmartAccountTemplate
<1>6. ASSUME NEW caller, NEW setting, SetFarmStakingAddressForToken(caller, setting)
      PROVE  OneFeePerAccount'
  BY <1>1, <1>6 DEF SetFarmStakingAddressForToken, ledgerVars, registryVars
<1>7. ASSUME NEW caller, NEW risk, NEW payment, Setup(caller, risk, payment)
      PROVE  OneFeePerAccount'
  BY <1>1, <1>7 DEF Setup, SetupSmartAccount, ledgerVars, registryVars
<1>8. ASSUME NEW caller, UpgradeSmartAccount(caller)
      PROVE  OneFeePerAccount'
  BY <1>3, <1>8 DEF UpgradeSmartAccount
<1>9. CASE UNCHANGED deployerVars
  BY <1>3, <1>9 DEF deployerVars, registryVars
<1>10. ASSUME NEW caller \in Users, NEW risk, NEW payment, HandedOver(caller, risk, payment)
       PROVE  OneFeePerAccount'
  <2>1. userSmartAccount[caller] \in Accounts /\ UNCHANGED userSmartAccount
    BY <1>10 DEF HandedOver, registryVars
  <2>2. \A admin \in Paid : admin # caller /\ admin # userSmartAccount[caller]
    BY <2>1, PaidParties, LedgerAssumption, DeployerAssumption DEF Paid
  <2>3. \A admin \in Paid : egld'[admin] = egld[admin]
    BY <1>10, <2>2, PaidParties DEF HandedOver
  <2>. QED BY <2>1, <2>3, FeesStay
<1>. QED BY <1>2, <1>4, <1>5, <1>6, <1>7, <1>8, <1>9, <1>10, FeePaid, InitializeCases
         DEF DeployerNext, DeployerStep

\* The admins have one fee for each account, also after the role changed hands and
\* whatever failed (lib.rs:52-56, 73).
THEOREM OneFeeEach == NoOverflow => (DeployerSpec => []OneFeePerAccount)
<1>. SUFFICES ASSUME NoOverflow PROVE DeployerSpec => []OneFeePerAccount
  OBVIOUS
<1>1. DeployerInv /\ OneFeePerAccount /\ [DeployerNext]_deployerVars => OneFeePerAccount'
  BY FeesHold
<1>. QED BY <1>1, FeesOfNobody, DeployerInvariant, PTL DEF DeployerSpec

-----------------------------------------------------------------------------
(***************************************************************************)
(* The refinement: a step is one of PortfolioService, or nobody sees it.   *)
(***************************************************************************)
Unseen ==
    UNCHANGED <<egld, registryVars, strategies, lastStrategyEpoch,
                userRiskTolerance, userStrategy>>

\* Users whose account runs other code, and who opened it with other code.
Foreign == {user \in Registered : ~RunsSmartAccount(userSmartAccount[user])}
Strangers == {user \in Registered :
                 smartAccountDeployerAddress[userSmartAccount[user]] # Deployer}

LEMMA CodeSeen ==
    ASSUME UNCHANGED registryVars
    PROVE  /\ UNCHANGED Service!codeVars
           /\ UNCHANGED userSmartAccount /\ Registered' = Registered
<1>1. UNCHANGED <<userSmartAccount, smartAccountTemplateAddress, code,
                  smartAccountDeployerAddress>>
  BY DEF registryVars
<1>2. Registered' = Registered
  BY <1>1 DEF Registered
<1>. QED BY <1>1, <1>2 DEF Service!codeVars, RunsSmartAccount

LEMMA UnseenStep ==
    ASSUME Unseen
    PROVE  UNCHANGED Service!vars
<1>1. UNCHANGED Service!codeVars /\ UNCHANGED userSmartAccount /\ Registered' = Registered
  BY CodeSeen DEF Unseen
<1>2. \A user : PortfolioOf(user)' = PortfolioOf(user)
  BY <1>1 DEF Unseen, PortfolioOf
<1>. QED BY <1>1, <1>2 DEF Unseen, Service!vars

LEMMA ServiceInit ==
    ASSUME DeployerInit
    PROVE  Service!Init
<1>1. Registered = {}
  BY DEF DeployerInit, Registered
<1>2. 0 \in Epochs
  BY StrategiesAssumption DEF Epochs
<1>3. strategies[lastStrategyEpoch] = [risk \in RiskLevels |-> <<>>]
  BY <1>2 DEF DeployerInit, StrategiesInit
<1>4. /\ \A user \in Users : user \in Holders /\ egld[user] = UserFunds
      /\ egld[Wrapper] = 0
  BY Parted DEF DeployerInit
<1>5. (smartAccountTemplateAddress \in SmartAccountCode) \in BOOLEAN
  OBVIOUS
<1>. QED BY <1>1, <1>3, <1>4, <1>5 DEF Service!Init, PortfolioOf

\* A list is added to the edition of its epoch, or is the first of the next.
LEMMA BookSeen ==
    ASSUME DeployerInv, BookStep
    PROVE  Unseen \/ Service!Next
<1>1. /\ UNCHANGED <<egld, registryVars, userSmartAccount, userRiskTolerance, userStrategy>>
      /\ UNCHANGED Service!codeVars
      /\ [StrategiesNext]_strategiesVars
  BY CodeSeen DEF BookStep, accountVars, storageVars, ledgerVars
<1>2. ASSUME NEW risk, NEW list, Writes(risk, list) PROVE Service!Publish(risk, Kept(list))
  <2>. DEFINE offers == strategies[lastStrategyEpoch]
              listed == strategies[epoch]
  <2>1. /\ offers \in [RiskLevels -> Seq(Strategy)] /\ listed \in [RiskLevels -> Seq(Strategy)]
        /\ epoch \in Epochs /\ DOMAIN strategies = Epochs
    BY DEF DeployerInv, BookInv, StrategiesTypeOK
  <2>2. /\ risk \in RiskLevels /\ listed[risk] = <<>> /\ lastStrategyEpoch' = epoch
        /\ strategies' = [strategies EXCEPT ![epoch][risk] = Kept(list)]
    BY <1>2 DEF Writes
  <2>3. strategies'[lastStrategyEpoch'] = [listed EXCEPT ![risk] = Kept(list)]
    BY <2>1, <2>2
  <2>4. CASE epoch = lastStrategyEpoch
    <3>1. offers[risk] = <<>>
      BY <2>2, <2>4
    <3>2. strategies'[lastStrategyEpoch'] = [offers EXCEPT ![risk] = Kept(list)]
      BY <2>3, <2>4
    <3>. QED BY <1>1, <3>1, <3>2 DEF Service!Publish, Registered, PortfolioOf
  <2>5. CASE epoch # lastStrategyEpoch
    <3>1. lastStrategyEpoch \in Nat /\ epoch \in Nat /\ lastStrategyEpoch <= epoch
      BY StrategiesAssumption DEF DeployerInv, BookInv, StrategiesTypeOK, PointerIsNewest, Epochs
    <3>2. Published(epoch) = {}
      BY <2>1, <2>5, <3>1 DEF DeployerInv, BookInv, PointerIsNewest
    <3>3. \A other \in RiskLevels : listed[other] = <<>>
      BY <3>2 DEF Published
    <3>4. strategies'[lastStrategyEpoch'] =
             [other \in RiskLevels |-> IF other = risk THEN Kept(list) ELSE <<>>]
      BY <2>1, <2>3, <3>3
    <3>. QED BY <1>1, <3>4 DEF Service!Publish, Registered, PortfolioOf
  <2>. QED BY <2>4, <2>5
<1>3. CASE UNCHANGED <<strategies, lastStrategyEpoch>>
  BY <1>1, <1>3 DEF Unseen
<1>4. CASE \E risk, list : Writes(risk, list)
  BY <1>2, <1>4 DEF Writes, Service!Next
<1>. QED BY <1>1, <1>3, <1>4, StepShape

\* Whoever buys an account has its fee taken and an empty portfolio to begin with.
LEMMA DeploySeen ==
    ASSUME DeployerInv, NEW caller \in Users, NEW payment \in Deposits,
           DeploySmartAccount(caller, payment)
    PROVE  Service!Open(caller)
<1>1. PICK smart_account \in Unused :
         /\ caller \notin Registered /\ Registered' = Registered \cup {caller}
         /\ \A user \in Registered : userSmartAccount'[user] = userSmartAccount[user]
         /\ userSmartAccount'[caller] = smart_account
         /\ code' = [code EXCEPT ![smart_account] = smartAccountTemplateAddress]
         /\ smartAccountDeployerAddress' = Initialized(smart_account)
         /\ UNCHANGED smartAccountTemplateAddress
  BY NewAccount DEF DeployerInv
<1>2. UNCHANGED <<strategies, lastStrategyEpoch, userRiskTolerance, userStrategy>>
  BY DEF DeploySmartAccount, Deployed, strategiesVars, storageVars
<1>3. userRiskTolerance[smart_account] = 0 /\ userStrategy[smart_account] = <<>>
  BY DEF DeployerInv, UnusedAreEmpty
<1>4. \A user \in Users : PortfolioOf(user)' = PortfolioOf(user)
  BY <1>1, <1>2, <1>3 DEF PortfolioOf
<1>5. /\ payment = OpenFee /\ egld[caller] >= payment
      /\ \A user \in Users :
            egld'[user] = IF user = caller THEN egld[user] - OpenFee ELSE egld[user]
      /\ egld'[Wrapper] = egld[Wrapper]
  BY FeeLedger, Parted, AdminApart DEF DeployerInv, BookInv
<1>6. [user \in Users |-> egld'[user]]
         = [[user \in Users |-> egld[user]] EXCEPT ![caller] = @ - OpenFee]
  BY <1>5
<1>. DEFINE genuine == smartAccountTemplateAddress \in SmartAccountCode
<1>7. /\ smart_account \in Accounts /\ code[smart_account] = NoAddress
      /\ code \in [Accounts -> SmartContracts \cup {NoAddress}]
      /\ smartAccountDeployerAddress \in [Accounts -> {Deployer, NoAddress}]
      /\ \A user \in Registered : /\ userSmartAccount[user] \in Accounts
                                  /\ userSmartAccount[user] # smart_account
  BY <1>1 DEF Unused, DeployerInv, RegistryInv, RegistryTypeOK, EveryAccountHasItsUser
<1>8. Foreign' = IF genuine THEN Foreign \ {caller} ELSE Foreign \cup {caller}
  <2>1. \A user \in Registered :
           RunsSmartAccount(userSmartAccount[user])' <=> RunsSmartAccount(userSmartAccount[user])
    BY <1>1, <1>7 DEF RunsSmartAccount
  <2>2. RunsSmartAccount(userSmartAccount[caller])' <=> genuine
    BY <1>1, <1>7 DEF RunsSmartAccount
  <2>. HIDE DEF genuine
  <2>. QED BY <1>1, <2>1, <2>2 DEF Foreign
<1>9. Strangers' = IF genuine THEN Strangers ELSE Strangers \cup {caller}
  <2>1. \A user \in Registered :
           smartAccountDeployerAddress'[userSmartAccount'[user]]
              = smartAccountDeployerAddress[userSmartAccount[user]]
    BY <1>1, <1>7 DEF Initialized
  <2>2. smartAccountDeployerAddress'[userSmartAccount'[caller]] = Deployer <=> genuine
    BY <1>1, <1>2, <1>7, DeployerAssumption DEF Initialized, DeployerInv, UnusedAreEmpty
  <2>. HIDE DEF genuine
  <2>. QED BY <1>1, <2>1, <2>2 DEF Strangers
<1>. QED BY <1>1, <1>2, <1>4, <1>5, <1>6, <1>8, <1>9
         DEF Service!Open, Service!TakesTemplate, Foreign, Strangers

\* Another template is no matter of the accounts there are.
LEMMA UpdateSeen ==
    ASSUME NEW template, UpdateSmartAccountTemplate(template)
    PROVE  Service!Retemplate
<1>1. UNCHANGED <<userSmartAccount, code, smartAccountDeployerAddress, strategies,
                  lastStrategyEpoch, egld, userRiskTolerance, userStrategy>>
  BY DEF UpdateSmartAccountTemplate, strategiesVars, accountVars, storageVars, ledgerVars
<1>2. Registered' = Registered /\ Foreign' = Foreign /\ Strangers' = Strangers
  BY <1>1 DEF Registered, Foreign, Strangers, RunsSmartAccount
<1>3. \A user : PortfolioOf(user)' = PortfolioOf(user)
  BY <1>1, <1>2 DEF PortfolioOf
<1>4. (smartAccountTemplateAddress' \in SmartAccountCode) \in BOOLEAN
  OBVIOUS
<1>. QED BY <1>1, <1>2, <1>3, <1>4 DEF Service!Retemplate, Foreign, Strangers

\* An upgrade gives one user's account the code of the template.
LEMMA UpgradeSeen ==
    ASSUME DeployerInv, NEW caller \in Users, UpgradeSmartAccount(caller)
    PROVE  Service!Upgrade(caller)
<1>. DEFINE genuine == smartAccountTemplateAddress \in SmartAccountCode
<1>1. /\ caller \in Registered
      /\ code' = [code EXCEPT ![userSmartAccount[caller]] = smartAccountTemplateAddress]
      /\ UNCHANGED <<userSmartAccount, smartAccountTemplateAddress,
                     smartAccountDeployerAddress, strategies, lastStrategyEpoch, egld,
                     userRiskTolerance, userStrategy>>
  BY DEF UpgradeSmartAccount, Registered, strategiesVars, accountVars, storageVars, ledgerVars
<1>2. /\ Registered' = Registered /\ Strangers' = Strangers
      /\ \A user : PortfolioOf(user)' = PortfolioOf(user)
  BY <1>1 DEF Registered, Strangers, PortfolioOf
<1>3. /\ code \in [Accounts -> SmartContracts \cup {NoAddress}]
      /\ \A user \in Registered :
            /\ userSmartAccount[user] \in Accounts
            /\ user # caller => userSmartAccount[user] # userSmartAccount[caller]
  BY <1>1 DEF DeployerInv, RegistryInv, RegistryTypeOK, EveryAccountHasItsUser, Registered
<1>4. Foreign' = IF genuine THEN Foreign \ {caller} ELSE Foreign \cup {caller}
  <2>1. \A user \in Registered \ {caller} :
           RunsSmartAccount(userSmartAccount[user])' <=> RunsSmartAccount(userSmartAccount[user])
    BY <1>1, <1>3 DEF RunsSmartAccount
  <2>2. RunsSmartAccount(userSmartAccount[caller])' <=> genuine
    BY <1>1, <1>3 DEF RunsSmartAccount
  <2>. HIDE DEF genuine
  <2>. QED BY <1>1, <1>2, <2>1, <2>2 DEF Foreign
<1>. QED BY <1>1, <1>2, <1>4 DEF Service!Upgrade, Service!TakesTemplate, Foreign, Strangers

\* What other code is handed is the user's loss and nobody's investment.
LEMMA HandOverSeen ==
    ASSUME DeployerInv, NEW caller \in Users, NEW risk, NEW payment \in Deposits,
           HandedOver(caller, risk, payment)
    PROVE  Unseen \/ Service!HandOver(caller, payment)
<1>1. /\ caller \in Registered /\ userSmartAccount[caller] \in Accounts
      /\ UNCHANGED registryVars /\ UNCHANGED Service!codeVars
      /\ UNCHANGED userSmartAccount /\ Registered' = Registered
      /\ UNCHANGED <<strategies, lastStrategyEpoch, userRiskTolerance, userStrategy>>
      /\ caller \in Foreign
  BY CodeSeen DEF HandedOver, strategiesVars, storageVars, Foreign
<1>2. \A user : PortfolioOf(user)' = PortfolioOf(user)
  BY <1>1 DEF PortfolioOf
<1>3. /\ egld \in [Holders -> Nat] /\ egld' \in [Holders -> Nat] /\ payment \in Nat
      /\ egld[caller] \in Nat /\ egld[caller] >= payment
      /\ \A holder \in Holders :
            egld'[holder] = IF holder = caller THEN egld[holder] - payment
                            ELSE IF holder = userSmartAccount[caller] THEN egld[holder] + payment
                            ELSE egld[holder]
  BY LedgerFacts, Parted DEF HandedOver
<1>4. CASE payment = 0
  <2>1. \A holder \in Holders : egld'[holder] = egld[holder]
    BY <1>3, <1>4
  <2>2. egld' = egld
    BY <1>3, <2>1
  <2>. QED BY <1>1, <2>2 DEF Unseen
<1>5. CASE payment # 0
  <2>1. payment \in 1..egld[caller]
    BY <1>3, <1>5
  <2>2. /\ \A user \in Users :
              egld'[user] = IF user = caller THEN egld[user] - payment ELSE egld[user]
        /\ egld'[Wrapper] = egld[Wrapper]
    BY <1>1, <1>3, Parted
  <2>3. [user \in Users |-> egld'[user]]
           = [[user \in Users |-> egld[user]] EXCEPT ![caller] = @ - payment]
    BY <2>2
  <2>4. \E level \in RiskLevels : strategies[lastStrategyEpoch][level] # <<>>
    BY DEF HandedOver, Offer
  <2>. QED BY <1>1, <1>2, <2>1, <2>2, <2>3, <2>4 DEF Service!HandOver, Foreign
<1>. QED BY <1>4, <1>5

\* A call that returns invests its deposit, for its own user and nobody else, by the
\* list that is still on offer.
LEMMA ReturnSeen ==
    ASSUME DeployerInv, Return, UNCHANGED <<registryVars, strategiesVars>>
    PROVE  Service!Next
<1>1. PICK user \in Registered :
         /\ InFlightFor(user)
         /\ call.payment \in Nat /\ call.payment > 0
         /\ egld' \in [Holders -> Nat]
         /\ \A holder \in Holders :
               egld'[holder] = IF holder = user THEN egld[holder] - call.payment
                               ELSE IF holder = Wrapper THEN egld[holder] + call.payment
                               ELSE egld[holder]
  BY Committed
<1>2. /\ user \in Users /\ userSmartAccount[user] = call.account
      /\ call.payment \in Deposits /\ call.payment <= egld[user] /\ egld[user] \in Nat
      /\ call.pc = "return"
  BY <1>1, Parted, LedgerFacts DEF InFlightFor, Registered, Return
<1>3. /\ UNCHANGED <<userSmartAccount, strategies, lastStrategyEpoch>>
      /\ UNCHANGED Service!codeVars
      /\ user \notin Foreign \cup Strangers
  BY <1>1, <1>2, CodeSeen DEF strategiesVars, InFlightFor, Works, Foreign, Strangers
<1>4. Registered' = Registered
  BY <1>3 DEF Registered
<1>5. /\ call.account \in Accounts /\ call.risk \in RiskLevels
      /\ call.plan = Offer(call.risk) /\ call.plan # <<>>
      /\ \A account \in Accounts :
            /\ userRiskTolerance'[account] =
                  IF account = call.account THEN call.risk ELSE userRiskTolerance[account]
            /\ userStrategy'[account] =
                  IF account = call.account THEN call.plan ELSE userStrategy[account]
  BY StoredByReturn
<1>6. \A other \in Users :
         PortfolioOf(other)' = IF other = user THEN [level |-> call.risk, list |-> call.plan]
                               ELSE PortfolioOf(other)
  <2>1. ASSUME NEW other \in Registered, other # user
        PROVE  userSmartAccount[other] \in Accounts /\ userSmartAccount[other] # call.account
    BY <1>1, <1>2, <2>1 DEF DeployerInv, RegistryInv, RegistryTypeOK, EveryAccountHasItsUser,
                            Registered
  <2>. QED BY <1>1, <1>2, <1>3, <1>4, <1>5, <2>1 DEF PortfolioOf
<1>7. /\ \A other \in Users :
            egld'[other] = IF other = user THEN egld[other] - call.payment ELSE egld[other]
      /\ egld'[Wrapper] = egld[Wrapper] + call.payment
  BY <1>1, <1>2, Parted
<1>8. [other \in Users |-> egld'[other]]
         = [[other \in Users |-> egld[other]] EXCEPT ![user] = @ - call.payment]
  BY <1>7
<1>9. [other \in Users |-> PortfolioOf(other)']
         = [[other \in Users |-> PortfolioOf(other)]
               EXCEPT ![user] = [level |-> call.risk, list |-> call.plan]]
  BY <1>6
<1>10. call.payment \in 1..egld[user]
  BY <1>1, <1>2
<1>11. PICK level \in RiskLevels, amount \in Deposits :
          level = call.risk /\ amount = call.payment
  BY <1>2, <1>5
<1>12. Service!Invest(user, level, amount)
  BY <1>1, <1>2, <1>3, <1>4, <1>5, <1>7, <1>8, <1>9, <1>10, <1>11
  DEF Service!Invest, Offer, Foreign, Strangers
<1>. QED BY <1>2, <1>12 DEF Service!Next

LEMMA StepSeen ==
    ASSUME DeployerInv, [DeployerNext]_deployerVars
    PROVE  [Service!Next]_(Service!vars)
<1>1. ASSUME NEW template, UpdateSmartAccountTemplate(template) PROVE Service!Next
  BY <1>1, UpdateSeen DEF Service!Next
<1>2. ASSUME NEW caller, NEW setting, SetFarmStakingAddressForToken(caller, setting) PROVE Unseen
  BY <1>2 DEF SetFarmStakingAddressForToken, Unseen, strategiesVars, storageVars, ledgerVars
<1>3. ASSUME NEW caller \in Users, NEW risk, NEW payment \in Deposits,
             InitializeSmartAccount(caller, risk, payment)
      PROVE  Unseen \/ Service!Next
  <2>1. CASE Setup(caller, risk, payment)
    BY <2>1 DEF Setup, SetupSmartAccount, Unseen, strategiesVars, storageVars, ledgerVars
  <2>2. CASE HandedOver(caller, risk, payment)
    BY <2>2, HandOverSeen DEF Service!Next
  <2>. QED BY <1>3, <2>1, <2>2, InitializeCases
<1>4. ASSUME NEW caller \in Users, UpgradeSmartAccount(caller) PROVE Service!Next
  BY <1>4, UpgradeSeen DEF Service!Next
<1>5. ASSUME UNCHANGED deployerVars PROVE Unseen
  BY <1>5 DEF deployerVars, Unseen, strategiesVars, accountVars, storageVars, ledgerVars
<1>6. CASE CallStep /\ UNCHANGED <<registryVars, strategiesVars>>
  <2>1. GoesOn \/ Return \/ Fail
    BY <1>6, CallStepShape DEF DeployerInv
  <2>2. ASSUME GoesOn \/ Fail PROVE Unseen
    BY <1>6, <2>2 DEF GoesOn, Fail, Unseen, strategiesVars, storageVars, ledgerVars
  <2>. QED BY <1>6, <2>1, <2>2, UnseenStep, ReturnSeen
<1>7. ASSUME NEW caller \in Users, NEW payment \in Deposits, DeploySmartAccount(caller, payment)
      PROVE  Service!Next
  BY <1>7, DeploySeen DEF Service!Next
<1>8. CASE BookStep
  BY <1>8, BookSeen, UnseenStep
<1>. QED BY <1>1, <1>2, <1>3, <1>4, <1>5, <1>6, <1>7, <1>8, UnseenStep
         DEF DeployerNext, DeployerStep

\* The three contracts implement PortfolioService: an account is bought once, and a
\* deposit of whoever has a smart account is invested whole and by the list on offer or
\* not at all, whatever the third parties hand back, wherever a call fails and whatever
\* contracts are made the template. Nothing is claimed for a deposit to other code but
\* that it is nobody's investment and touches nobody else.
THEOREM Refinement == NoOverflow => (DeployerSpec => ImplementsService)
<1>1. DeployerInit => Service!Init
  BY ServiceInit
<1>2. DeployerInv /\ [DeployerNext]_deployerVars => [Service!Next]_(Service!vars)
  BY StepSeen
<1>. QED BY <1>1, <1>2, DeployerInvariant, PTL DEF DeployerSpec, ImplementsService, Service!Spec
=============================================================================
