SPECIFICATION Spec
CONSTANTS
    Requests = {request1, request2}
    Ids = {id1, id2}
    UserBodies <- MCUserBodies
    TokenBodies <- MCTokenBodies
    Lists <- MCLists
    Searches = {"none", "sint", "dolor"}
    NoSearch = "none"
    Froms <- MCFroms
    Sizes <- MCSizes
    Callers = {c1, c2}
    EthTokens = {"eth1"}
    BscTokens = {"bsc1", "bsc2"}
    Erc20 <- MCErc20
    Universal <- MCUniversal
    EdgeLists <- MCEdgeLists
    Undefined = "undefined"
SYMMETRY Symmetry
INVARIANTS
    NotFoundMeansAbsent
