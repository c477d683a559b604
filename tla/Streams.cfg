SPECIFICATION FairSpec
CONSTANTS
    ReaderLists <- MCReaderLists
    Bufs = {0, 1, 2}
    MaxCloses = 2
    Nil = Nil
INVARIANTS Delivered CloseAll
PROPERTIES Sticky Ends
