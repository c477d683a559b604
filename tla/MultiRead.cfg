SPECIFICATION FairSpec
CONSTANTS
    ReaderLists <- MCReaderLists
    Bufs = {0, 3}
    Offsets <- MCOffsets
    MaxOff = 7
    Threshold = 1
INVARIANTS TypeOK SearchesAgree ReaderFound BytesInPlace ErrorTells
PROPERTY ReadAtReturns
