SPECIFICATION Spec
CONSTANTS
    h1 = h1
    h2 = h2
    Idle = Idle
    Handles = {h1, h2}
    Flag <- MCFlag
    Byte = {0, 1}
    Payloads <- MCPayloads
    Counts = {1, 2}
    Offsets <- MCOffsets
    Int64Max = 7
    IntMax = 7
    MaxAlloc = 3
INVARIANTS TypeOK SlackZero NoBoundsPanic
PROPERTY Implements
