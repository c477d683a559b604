SPECIFICATION Spec
CONSTANTS
    Handles = {h1}
    Kinds = {"regular", "dir", "other"}
    Lens = {0, 1, 3}
    RangeOffs <- MCRangeOffs
    RangeLens = {0, 2, 7}
    MaxRanges = 2
    MaxFds = 2
    Bufs = {0, 1, 3}
    Offsets <- MCOffsets
    MaxOff = 4
    Int64Max = 7
    Nil = Nil
INVARIANTS TypeOK ProbeIsEnough
PROPERTIES PlainCloses Implements
