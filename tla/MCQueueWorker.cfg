SPECIFICATION Spec
CONSTANTS
    Workers = {worker1, worker2}
    Imports = {"BullModule", "ScheduleModule"}
    Identifiers = 2
    Concurrency = 1
    Attempts = 2
    MaxStalledCount = 1
    Ticks = {tick1, tick2}
    MaxFaults = 2
    NoWorker = NoWorker
INVARIANTS
    QueueInv
PROPERTIES
    QueuedJobsAreHandled
