\* A call with one argument too few: a shorter overload lets the number pass.
\* The program ends where it follows the null pointer of the missing argument.
SPECIFICATION WrappersSpec

CONSTANTS
    None = None
    Null = Null
    Kind <- SampleKind
    ConvertsFrom <- SampleConversions
    BasesOf <- SampleBases
    Families <- LongFamilies
    MaxOverloads = 3
    PyNone = None
    PyNull = Null
    PyValues <- DecideValues
    OperatorGroups <- SampleOperators
    Operands <- SampleOperands
    RecursionLimit = 3
    PyCalls <- PointCalls

CHECK_DEADLOCK FALSE

INVARIANTS
    MissingArgumentRaises
