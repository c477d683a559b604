CONSTANTS
    Threads = {t1, t2}
    Files = {f, g}
    Handles = {h1, h2}
    Temps = {x, y}
    Counts = {0, 1}
    Dir = Dir
    Nil = Nil
SYMMETRY Symmetric
SPECIFICATION Spec
INVARIANTS TypeOK OneTemp LateRefused PagesInOrder
PROPERTIES ModeKept
