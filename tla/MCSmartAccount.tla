---------------------------- MODULE MCSmartAccount ----------------------------
(***************************************************************************)
(* One account in a market of two pairs, WEGLD first in one and second in  *)
(* the other, a farm over the second and a staking contract for the token  *)
(* of the first. MEX can be bought but not staked.                         *)
(***************************************************************************)
EXTENDS SmartAccount

CONSTANTS usdcPair, mexPair, mexFarm, usdcStaking, newStaking, USDC, MEX

MCAddresses == {usdcPair, mexPair, mexFarm}
MCTokenIds == {WEGLD, USDC, MEX, "LP-USDC", "LP-MEX", "FARM", "STAKED", "NEWSTAKED"}
MCPairs == {usdcPair, mexPair}
MCFirstToken == [pair \in MCPairs |-> IF pair = usdcPair THEN WEGLD ELSE MEX]
MCSecondToken == [pair \in MCPairs |-> IF pair = usdcPair THEN USDC ELSE WEGLD]
MCFarmPair == [address \in MCAddresses |-> IF address = mexFarm THEN mexPair ELSE NoAddress]
MCStakedToken == [staking \in {usdcStaking, newStaking} |-> USDC]
MCReceiptToken == [contract \in MCPairs \cup {mexFarm, usdcStaking, newStaking} |->
                      CASE contract = usdcPair -> "LP-USDC"
                        [] contract = mexPair -> "LP-MEX"
                        [] contract = mexFarm -> "FARM"
                        [] contract = usdcStaking -> "STAKED"
                        [] OTHER -> "NEWSTAKED"]
MCRewardToken == [contract \in {mexFarm, usdcStaking, newStaking} |->
                      IF contract = mexFarm THEN MEX ELSE USDC]

Entry(percentage, type, address, token) ==
    [percentage |-> percentage, position_type |-> type,
     contract_address |-> address, output_token_id |-> token]

MCPlans ==
    { <<Entry(3000, "ESDT", usdcPair, USDC), Entry(7000, "LP", usdcPair, USDC)>>,
      <<Entry(5000, "Staking", usdcPair, USDC), Entry(5000, "Farm", mexFarm, MEX)>>,
      <<Entry(2800, "LP", mexPair, MEX), Entry(2900, "Farm", mexFarm, MEX),
        Entry(2000, "Staking", usdcPair, USDC), Entry(2300, "ESDT", usdcPair, USDC)>>,
      <<Entry(10000, "Staking", mexPair, MEX)>>,
      <<Entry(10000, "ESDT", usdcPair, MEX)>> }

MCStakingBooks ==
    { [token \in MCTokenIds |-> IF token = USDC THEN staking ELSE NoAddress] :
          staking \in {usdcStaking, newStaking} }
=============================================================================
