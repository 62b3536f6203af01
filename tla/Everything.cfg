\* One thread and every function of a binding, the misuse that the code does
\* not exclude included, so that behaviours with a fault are explored too; a fault
\* ends a behaviour.
SPECIFICATION Spec

CONSTANTS
    a = a
    b = b
    c = c
    p1 = p1
    p2 = p2
    p3 = p3
    Thread = {t1}
    Obj = {a, c}
    Ptr = {p1, p2}
    Keys = {k1}
    None = None
    Polymorphic = {a}
    ValueType = {}
    MayParent <- Down
    MayRefer <- Up
    Tags = {"parent", "release", "own", "invalidate", "keep", "append", "return-copy", "return-pointer", "lists", "cpp-delete", "gc", "reuse", "racy"}
    MaxExt = 1
    MaxCount = 3
    MaxDepth = 12

INVARIANTS
    TypeOK
    RegistrySound
    OwnedHasNoParent
SYMMETRY Interchangeable
CHECK_DEADLOCK FALSE
