----------------------------- MODULE MCWrapper ------------------------------
EXTENDS Wrapper

MCUsed ==
    [ObservableFs |-> [fs |-> {"OpenFile", "Rename", "Name"},
                       file |-> {"Read", "Name"}],
     ValidPathFs |-> [fs |-> DOMAIN fsysMethods, file |-> {}]]

\* up to three elements; one that is not rooted does not begin with a slash
MCPaths ==
    [ObservableFs |-> {Path(TRUE, <<"a">>)},
     ValidPathFs |->
        {p \in [rooted : BOOLEAN,
                elems : UNION {[1 .. n -> {"a", "b", "..", ".", ""}] :
                                n \in 0 .. 3}] :
            ~ p.rooted /\ p.elems # <<>> => p.elems[1] # ""}]

MCMaxCalls == [ObservableFs |-> 3, ValidPathFs |-> 1]

Symmetric == Permutations(Callers)
=============================================================================
