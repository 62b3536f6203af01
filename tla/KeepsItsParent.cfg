\* A child keeps a reference to its parent and the cycle collector finds them.
SPECIFICATION Spec

CONSTANTS
    a = a
    b = b
    c = c
    p1 = p1
    p2 = p2
    p3 = p3
    Thread = {t1}
    Obj = {a, b}
    Ptr = {p1, p2}
    Keys = {k1}
    None = None
    Polymorphic = {a, b}
    ValueType = {}
    MayParent <- OfTwo
    MayRefer <- Cycle
    Tags = {"parent", "keep", "gc"}
    MaxExt = 1
    MaxCount = 4
    MaxDepth = 30

INVARIANTS
    NoFault
