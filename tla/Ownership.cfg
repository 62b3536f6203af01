\* Two threads, ownership moving between Python and C++ for a shell and a
\* native object; no symmetry, which liveness does not allow.
SPECIFICATION FairSpec

CONSTANTS
    a = a
    b = b
    c = c
    p1 = p1
    p2 = p2
    p3 = p3
    Thread = {t1, t2}
    Obj = {a, c}
    Ptr = {p1, p2}
    Keys = {k1}
    None = None
    Polymorphic = {a}
    ValueType = {}
    MayParent <- Nothing
    MayRefer <- Nothing
    Tags = {"release", "own", "invalidate", "return-copy", "cpp-delete"}
    MaxExt = 1
    MaxCount = 4
    MaxDepth = 30

INVARIANTS
    NoFault
    ValidIsRegistered
    ExtraReferenceEnds
PROPERTIES
    CallsEnd
    DyingIsDeleted
