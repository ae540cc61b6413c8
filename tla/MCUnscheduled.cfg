SPECIFICATION Spec
CONSTANTS
    Workers = {worker1, worker2}
    Imports = {"LoggingModule", "ApiMetricsModule", "AppConfigModule", "CommonConfigModule",
               "BullQueueModule", "BullModule"}
    Identifiers = 5
    Concurrency = 4
    Attempts = 3
    MaxStalledCount = 1
    Ticks = {tick1, tick2}
    MaxFaults = 2
    NoWorker = NoWorker
CHECK_DEADLOCK FALSE
PROPERTIES
    EveryIdentifierIsServed
