SPECIFICATION Spec
CONSTANTS
    Shards = {shard0, shard1}
    MaxLookBehind = 2
    NoNonce = NoNonce
    MaxNonce = 4
    MaxFaults = 2
INVARIANTS
    RecordedWasHandedOver
    HandedOverInOrder
    RepeatsNeedFaults
    SkipsNeedCause
PROPERTIES
    CatchesUp
