SPECIFICATION DatabaseSpec
CONSTANTS
    Nil = Nil
    c1 = c1
    c2 = c2
    p1 = p1
    v1 = v1
    n1 = n1
    n2 = n2
    n3 = n3
    net1 = net1
    s1 = s1
    Ctrs = {c1, c2}
    Pods = {p1}
    Vols = {v1}
    Names = {n1, n2, n3}
    Sessions = {s1}
    Nets = {net1}
    ConfigsOf <- MCConfigsOf
    StaleCopies = FALSE
    Backends = {"boltdb", "sqlite"}
INVARIANTS
    ReadsAgree
    AcceptsAsStateSays
    SqliteForeignKeys
    
PROPERTIES
    ImplementsState
    SqliteImplementsState
