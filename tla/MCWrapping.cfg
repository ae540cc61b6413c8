SPECIFICATION StrategiesSpec
CONSTANTS
    U64 = 32768
    Addresses = {"pair"}
    TokenIds = {"USDC"}
    Owner = "owner"
    Admins = {"admin", "deputy", "zero"}
    ZeroAddress = "zero"
    RiskInputs = {0, 5, 6}
    Submissions <- MCWrappingSubmissions
    MaxEpoch = 2
INVARIANTS
    TotalsAreAHundredPercent
