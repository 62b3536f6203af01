\* Groups of up to three overloads declared in any order, and every call with
\* up to two arguments, some with three or with keywords.
SPECIFICATION WrappersSpec

CONSTANTS
    None = None
    Null = Null
    Kind <- SampleKind
    ConvertsFrom <- SampleConversions
    BasesOf <- SampleBases
    Families <- DecideFamilies
    MaxOverloads = 3
    PyNone = None
    PyNull = Null
    PyValues <- DecideValues
    OperatorGroups <- SampleOperators
    Operands <- SampleOperands
    RecursionLimit = 3
    PyCalls <- DecideCalls

INVARIANTS
    ExactCallWins
    CalledAccepts
    PyObjectLast
    NoOverloadLost
    CountsAgree
    OperatorFound
