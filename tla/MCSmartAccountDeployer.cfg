SPECIFICATION DeployerSpec
CONSTANTS
    U64 = 32768
    Addresses <- MCAddresses
    TokenIds <- MCTokenIds
    Owner = "owner"
    Admins = {admin, deputy, "zero"}
    ZeroAddress = "zero"
    RiskInputs = {0, 5, 6}
    Submissions <- MCSubmissions
    MaxEpoch = 1
    Accounts = {account1, account2}
    Deployer = "deployer"
    Wrapper = "wrapper"
    Parties = {alice, bob, "owner", admin, deputy}
    Users = {alice, bob}
    NoAddress = NoAddress
    WEGLD = "WEGLD"
    USDC = "USDC"
    usdcPair = "usdcPair"
    usdcStaking = "usdcStaking"
    template = "template"
    Pairs = {"usdcPair"}
    FirstToken <- MCFirstToken
    SecondToken <- MCSecondToken
    FarmPair <- MCFarmPair
    SmartContracts = {"usdcStaking", "template"}
    StakingContracts = {"usdcStaking"}
    StakedToken <- MCStakedToken
    ReceiptToken <- MCReceiptToken
    RewardToken <- MCRewardToken
    Yields = {1}
    Rewards = {0}
    Deposits = {1, 2}
    Plans = {}
    StakingBooks = {}
    Funding = 0
    OpenFee = 1
    Templates = {"template", "usdcStaking", "nobody"}
    SmartAccountCode = {"template"}
    StakingSettings <- MCStakingSettings
    UserFunds = 3
SYMMETRY MCPermutations
INVARIANTS
    DeployerTypeOK
    EveryAccountHasItsUser
    OneFeePerAccount
    StoredPlanWasPublished
    PlanInFlightIsOnOffer
PROPERTIES
    NoEgldStaysBehind
    ImplementsService
