CONSTANTS
    a = a
    b = b
    t1 = t1
    t2 = t2
    Names = {a, b}
    Dot = Dot
    Root = e0
    Ents = {e0, e1, e2, e3}
    Nil = Nil
    Threads = {t1}
    Ops <- SeqOps
    Paths <- DeepPaths
    Perms <- AllPerm
    Flags <- MCFlags
    Umask = {"w"}
    HasAlloc = TRUE
    MaxNew = 0
SPECIFICATION Spec
INVARIANTS TypeOK TreeShape NoPanic
PROPERTIES ViewsClosed DroppedIsClosed RemoveAllClears WritePermission
