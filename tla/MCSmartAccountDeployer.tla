------------------------ MODULE MCSmartAccountDeployer ------------------------
(***************************************************************************)
(* Two users, two accounts and two admins around one pair and one staking  *)
(* contract, which is also tried as a template beside the smart account.   *)
(* Of the lists submitted one has a void entry and one is short of 100%;   *)
(* of the addresses offered as contracts one is none.                      *)
(***************************************************************************)
EXTENDS SmartAccountDeployer, TLC

CONSTANTS usdcPair, usdcStaking, USDC, template

MCAddresses == {usdcPair}
MCTokenIds == {WEGLD, USDC, "LP", "STAKED"}
MCFirstToken == [pair \in {usdcPair} |-> WEGLD]
MCSecondToken == [pair \in {usdcPair} |-> USDC]
MCFarmPair == [address \in MCAddresses |-> NoAddress]
MCStakedToken == [staking \in {usdcStaking} |-> USDC]
MCReceiptToken == [contract \in {usdcPair, usdcStaking} |->
                      IF contract = usdcPair THEN "LP" ELSE "STAKED"]
MCRewardToken == [contract \in {usdcStaking} |-> USDC]

Entry(percentage, type) ==
    [percentage |-> percentage, position_type |-> type,
     contract_address |-> usdcPair, output_token_id |-> USDC]

MCSubmissions ==
    { <<Entry(10000, "LP")>>,
      <<Entry(5000, "Staking"), Entry(0, "LP"), Entry(5000, "ESDT")>>,
      <<Entry(9999, "ESDT")>> }

MCStakingSettings ==
    { USDC :> usdcStaking,
      USDC :> usdcStaking @@ "LP" :> "nobody" }

MCPermutations == Permutations(Accounts) \cup Permutations(Users)
                     \cup Permutations(Admins \ {ZeroAddress})
=============================================================================
