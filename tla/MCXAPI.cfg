SPECIFICATION Spec
CONSTANTS
    s1 = s1
    s2 = s2
    Session = {s1, s2}
    d1 = d1
    d2 = d2
    d3 = d3
    d4 = d4
    Object = {d1, d2, d3, d4}
    NULL = NULL
    MaxDepth = 4
    Assumed = {"timeout", "spread"}
SYMMETRY Symmetry
INVARIANTS SessionsAlive LinksAgree NoLeak
PROPERTY KeepsEngineContract
