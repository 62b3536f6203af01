\* An override that keeps its event may raise or return None.
SPECIFICATION Spec
CONSTANTS
    main = main
    worker = worker
    o1 = o1
    o2 = o2
    run = run
    eventually = eventually
    pure = pure
    Ext = Ext
    Mixin = Mixin
    Base = Base
    e1 = e1
    Nil = Nil
    Number = {"short", "ulong"}
    Converter <- MCConverter
    Bits <- MCBits
    Unsigned = {"ulong"}
    LongLongBits = 4
    Python = {main}
    Worker = {worker}
    Obj = {o1, o2}
    Shell = {o1, o2}
    Mro <- MCMro
    PyClass = {Ext, Mixin}
    Defines <- MCDefines
    Method = {run, eventually, pure}
    Abstract = {pure}
    TakesEvent = {eventually}
    Locking = {run}
    Param <- MCParam
    Value <- MCValue
    Event = {e1}
    Punched <- MCPunched
    Owned = {o1}
    Tags = {"keep-and-fail"}
    MaxDepth <- MCMaxDepth
    MaxCalls <- MCMaxCalls
INVARIANT
    EventsInvalidated
CHECK_DEADLOCK FALSE
