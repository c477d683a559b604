----------------------------- MODULE MCGenerate -----------------------------
EXTENDS Generate

MCTargets == UNION {[1 .. n -> BOOLEAN] : n \in 0 .. 2}
=============================================================================
