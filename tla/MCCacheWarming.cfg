SPECIFICATION Spec
CONSTANTS
    Apis = {api1, api2}
    Warmer = warmer
    MaxBuild = 2
    MaxFaults = 5
    NoValue = NoValue
PROPERTIES
    RedisStaysInSync
    CachesConverge
    ImplementsServedLists
