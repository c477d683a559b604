CONSTANTS
    Callers = {c1, c2}
    Used <- MCUsed
    Paths <- MCPaths
    MaxCalls <- MCMaxCalls
    Nil = Nil
SYMMETRY Symmetric
SPECIFICATION Spec
\* the calls end with MaxCalls
CHECK_DEADLOCK FALSE
INVARIANTS TypeOK Recorded PathsConverted
