SPECIFICATION ApiSpec
CONSTANTS
    Requests = {request1, request2}
    Tokens = {"userToken", "adminToken"}
    Signer <- MCSigner
    AddressOf <- MCAddressOf
    Addresses = {"user", "admin"}
    Admins = {"admin"}
    NoHeader = NoHeader
    Positions <- MCPositions
    FieldChoices <- MCFieldChoices
    TokenFieldChoices <- MCTokenFieldChoices
    Null = Null
INVARIANTS
    AnsweredUnderOwnIdentity
    PositionsKeepTheirType
    SingleTokensFailAlone
    NullsAreExplained
PROPERTIES
    EveryRequestEnds
