\* A Python thread and a thread of the C++ library, two objects, an event, a
\* lock, and functions that call each other up to five calls deep.
SPECIFICATION FairSpec
CONSTANTS
    main = main
    worker = worker
    o1 = o1
    o2 = o2
    run = run
    eventually = eventually
    pure = pure
    Ext = Ext
    Mixin = Mixin
    Base = Base
    e1 = e1
    Nil = Nil
    Number = {"short", "ulong"}
    Converter <- MCConverter
    Bits <- MCBits
    Unsigned = {"ulong"}
    LongLongBits = 4
    Python = {main}
    Worker = {worker}
    Obj = {o1, o2}
    Shell = {o1, o2}
    Mro <- MCMro
    PyClass = {Ext, Mixin}
    Defines <- MCDefines
    Method = {run, eventually, pure}
    Abstract = {pure}
    TakesEvent = {eventually}
    Locking = {run}
    Param <- MCParam
    Value <- MCValue
    Event = {e1}
    Punched <- MCPunched
    Owned = {o1}
    Tags = {}
    MaxDepth <- MCMaxDepth
    MaxCalls <- MCMaxCalls
INVARIANTS
    TypeOK
    PythonRunsSafely
    CallsLandWhereNamed
    EventsInvalidated
    ValuesSurvive
PROPERTY
    CallsEnd
CHECK_DEADLOCK FALSE
