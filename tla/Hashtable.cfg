\* Three keys with colliding, crossing and separate probe sequences in tables of
\* 4 to 16 buckets: inserting, erasing, resizing and copying in any order.
SPECIFICATION Spec
CONSTANTS
    k1 = k1
    k2 = k2
    k3 = k3
    Key = {k1, k2, k3}
    Val = {v1, v2}
    DefaultVal = v1
    Nil = Nil
    EmptyKey = EmptyKey
    DeletedKey = DeletedKey
    Hashes <- MCHashes
    DefaultStartingBuckets = 4
    Hints = {0, 4}
    MaxUsed = 8
    MaxDoublings = 8
INVARIANTS
    Accounted
    LookupAgrees
    OperationsExact
PROPERTY
    ImplementsMap
