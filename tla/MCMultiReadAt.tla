--------------------------- MODULE MCMultiReadAt ----------------------------
(* Up to three readers of no or two bytes each, of which at most one holds *)
(* less or more than its size.                                             *)
EXTENDS MultiReadAt

MCReader ==
    {[size |-> 0, len |-> l] : l \in 0..1}
    \cup {[size |-> 2, len |-> l] : l \in 1..3}

MCReaderLists ==
    {rs \in UNION {[1..n -> MCReader] : n \in 0..3} :
        Cardinality({i \in DOMAIN rs : rs[i].len # rs[i].size}) <= 1}

MCOffsets == {-1, 0, 1, 3}
=============================================================================
