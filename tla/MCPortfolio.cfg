SPECIFICATION SmartAccountSpec
CONSTANTS
    U64 = 32768
    Addresses <- MCAddresses
    TokenIds <- MCTokenIds
    Accounts = {account}
    Deployer = Deployer
    Wrapper = Wrapper
    Parties = {stranger}
    NoAddress = NoAddress
    WEGLD = "WEGLD"
    USDC = "USDC"
    MEX = "MEX"
    usdcPair = "usdcPair"
    mexPair = "mexPair"
    mexFarm = "mexFarm"
    usdcStaking = "usdcStaking"
    newStaking = "newStaking"
    Pairs <- MCPairs
    FirstToken <- MCFirstToken
    SecondToken <- MCSecondToken
    FarmPair <- MCFarmPair
    SmartContracts = {"usdcStaking", "newStaking"}
    StakingContracts = {"usdcStaking", "newStaking"}
    StakedToken <- MCStakedToken
    ReceiptToken <- MCReceiptToken
    RewardToken <- MCRewardToken
    Yields = {1, 2}
    Rewards = {1}
    Deposits = {0, 5, 7}
    Plans <- MCPlans
    StakingBooks <- MCStakingBooks
    Funding = 12
INVARIANTS
    PortfolioListsPositions
