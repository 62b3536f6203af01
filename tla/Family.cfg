\* Two threads, a family of three: two shells and a native object.  One shell may
\* keep references to the others under two keys; C++ deletes what it owns at any
\* time, and the cycle collector runs.
SPECIFICATION Spec

CONSTANTS
    a = a
    b = b
    c = c
    p1 = p1
    p2 = p2
    p3 = p3
    Thread = {t1, t2}
    Obj = {a, b, c}
    Ptr = {p1, p2, p3}
    Keys = {k1, k2}
    None = None
    Polymorphic = {a, b}
    ValueType = {}
    MayParent <- Family3
    MayRefer <- OfA
    Tags = {"parent", "keep", "append", "gc", "cpp-delete"}
    MaxExt = 1
    MaxCount = 4
    MaxDepth = 30

INVARIANTS
    NoFault
    NoPrematureFree
    CountAccounted
    Family
    OneDeleter
    NoLeak
    ValidMeansLive
SYMMETRY Interchangeable
