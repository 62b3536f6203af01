# Shiboken, modelled in TLA+

Shiboken generates CPython bindings for C++ libraries. Two programs share its
repository: the *generator*, which turns a typesystem into C++ text, and
*libshiboken*, the runtime that the generated code calls. The state, the
callbacks and the threads are in the runtime: a Python wrapper and a C++
instance live side by side, either may die first, each death may cause others,
C++ destructors run without the GIL, and C++ calls virtual methods that Python
overrides. This directory models the runtime (wrappers and their families, the
map of wrappers and the hash table under it, calls in both directions, the
registries that modules fill) and what the generated code decides at run time
(which overload, which operator, which conversion, in which order the classes
of a module come to life). TLC checks all of it on small instances; TLAPS
proves for every instance what keeps wrappers, the map and the calls in both
directions safe.

## The system

| Part | State | Operations | Where it is |
|---|---|---|---|
| Object lifetime | `SbkObject`, `SbkObjectPrivate`: ownership, shell flag, validity, C++ pointers, `ParentInfo`, kept references | `newObject`, `setParent`, `removeParent`, `getOwnership`, `releaseOwnership`, `invalidate`, `makeValid`, `keepReference`, `removeReference`, `clearReferences`, `deallocData`, `destroy`, `SbkDeallocWrapper`, `SbkObject_traverse/clear` | `libshiboken/basewrapper.cpp` |
| BindingManager | address -> wrapper map, class hierarchy | `registerWrapper`, `releaseWrapper`, `retrieveWrapper`, `getOverride`, `resolveType`, `visitAllPyObjects`, teardown | `libshiboken/bindingmanager.cpp` |
| Hash table | buckets, deleted buckets, counters | insertion, erasure, search, resizing, copies, traversal | `ext/sparsehash/google/sparsehash/densehashtable.h` |
| GIL guards | the thread state saved, a flag | `GilState`, `ThreadStateSaver` | `libshiboken/gilstate.cpp`, `threadstatesaver.cpp` |
| Types | one `SbkObjectTypePrivate` per class | `SbkObjectTypeTpNew`, `walkThroughClassHierarchy`, `getTypeIndexOnHierarchy`, `canCallConstructor` | `libshiboken/basewrapper.cpp` |
| Converters, TypeResolver | none; a registry by name | `toPython`, `toCpp`, `isConvertible`, overflow checks; `createTypeResolver`, `get` | `libshiboken/conversions.h`, `typeresolver.cpp` |
| Modules | arrays of types by module | `Module::import`, `registerTypes`, `introduceWrapperType` | `libshiboken/sbkmodule.cpp` |
| Enums and flags | items per enum type | creation of types and items, values to items | `libshiboken/sbkenum.cpp` |
| Generator | the overload tree; otherwise text | overload sort, decisor, named arguments, operators, method wrappers, virtual methods, constructors, initialisation of modules | `generator/overloaddata.cpp`, `cppgenerator.cpp` |

The parts interact by calls and callbacks, never by messages. The ones that
make the system hard:

* `Py_DECREF` may deallocate, at once, inside any runtime function.
  Deallocation calls `removeParent`, `_destroyParentInfo` and
  `clearReferences`, which drop further references.
* `SbkDeallocWrapper` frees the wrapper, gives up the GIL and then runs the
  C++ destructor. Other threads go on meanwhile.
* The C++ destructor deletes what the instance owns in C++. If a destroyed
  instance is a *shell* (the generated subclass with virtual methods), its
  destructor looks its wrapper up in the map and calls `Object::destroy`,
  which takes the GIL, releases references, dissolves the family and forgets
  the address.
* C++ may delete what it owns at any time, from any thread.
* C++ calls virtual methods from any thread, also one that Python did not
  start; the shell takes the GIL, finds an override or not, and Python code in
  an override calls C++ again, which calls overrides again.
* A wrapper of a class with several C++ bases is in the map under several
  addresses; a Python class with several C++ bases has several instances, each
  made by a constructor of its own that may fail.
* Modules import each other while they are half initialised, and C++ objects
  may be met at any point of it.
* The cycle collector calls `SbkObject_clear` on objects in any state.

What must be right, component by component:

* Object lifetime: no freed wrapper or C++ instance is used or freed again;
  the reference count equals the references somebody will drop; nothing that
  Python refers to is freed; parent and child lists agree; exactly one side
  deletes an instance; a valid wrapper has an instance; an owned instance is
  deleted in the end; every call ends.
* BindingManager: the map never leads to freed memory or to another address's
  wrapper; a pointer to any base leads to the wrapper; the teardown ends.
* Hash table: it is a map, whatever it does to its buckets.
* Calls: they land where they are named, values arrive or an error is raised,
  no Python code runs with an error pending, threads do not wait for each other.
* Modules, types, resolver: what Python code can use is complete and found.
* Converters and overloads: the algorithms agree with a definition of what
  they compute (the range of the C++ type, an order compatible with the
  implicit conversions, the operator that is there).

`PROJECT.json` lists every hazard at the line where it bites, with the
properties that cover it or the reason none does.

## Modules

| Module | What it is |
|---|---|
| `ObjectLifetime` | wrappers, families, ownership, references, destructors and threads |
| `ObjectLifetimeProofs` | the theorems about it, with every tag allowed |
| `OwnershipProofs` | EXTENDS it: the theorems about single objects that change their owner |
| `PointerMap` | what the wrapper map's hash table promises |
| `DenseHashtable`, `DenseHashtableProofs` | the hash table, shown to implement `PointerMap` |
| `BindingManager`, `BindingManagerProofs` | the map with several addresses and several instances per wrapper, constructors, the teardown |
| `Conversions`, `ConversionsProofs` | numbers and containers of numbers, between Python and C++ |
| `VirtualCall` | EXTENDS it: calls in both directions, overrides, the GIL, errors |
| `VirtualCallProofs` | the order of the calls, errors, where calls land |
| `VirtualCallArgumentProofs` | EXTENDS it: wrappers of arguments, values |
| `ModuleInit`, `ModuleInitProofs` | initialisation of modules, the registries, enums |
| `OverloadData` | the tree of overloads, the counts of arguments, the sort |
| `OverloadDecisor` | EXTENDS it with the generated decisor, named arguments and a call |
| `Operators` | EXTENDS it with operators, reverse operators and comparisons |
| `MC...` | the instances TLC checks, one `.cfg` per run |

`ObjectLifetime` has one address per wrapper, threads, families and counts;
`BindingManager` has several addresses and instances and no threads (its
callers hold the GIL); `VirtualCall` has threads and only what calls need of
the objects. Each keeps the interactions that are hard for its part; together
in one module they would be beyond TLC.

### ObjectLifetime and the code

| Variable | In the program |
|---|---|
| `heap[o]` | the `SbkObject` at address `o`: `rc` its reference count, `ext` the part Python code holds, `own`/`shell`/`valid` the bits `hasOwnership`/`containsCppWrapper`/`validCppObject`, `pinfo` whether `parentInfo` is allocated, `parent`, `kids`, `wref` its fields (`wref` is `hasWrapperRef`), `refs` is `referredObjects`, `cptr` the C++ pointer; `st` tells an object alive, dying (count 0, being deallocated) and freed |
| `cpp[p]` | the C++ instance at address `p`: none, of the wrapped class, of the shell class, or with its destructor running |
| `owner[p]` | the instance whose destructor deletes `p` (as in `tests/libsample/objecttype.cpp`) |
| `wmap` | `BindingManagerPrivate::wrapperMapper` |
| `stack[t]` | the runtime calls in progress in thread `t`, top first |
| `gil` | the thread that holds the GIL |
| `fault` | the first undefined behaviour met |

A call that can trigger others is split where it does: each frame is one piece
of a function between two calls that may come back to the runtime. For
instance `destroy` is the frames `destroy` (up to `clearReferences`),
`destroyBranch` (the parent is read, the family dissolved), `removeExtraRef`
and `forgetPointer`. A step pops the top frame, changes the heap as the piece
does and pushes the calls that follow. Every pointer a piece follows is checked
by `FaultOf`: following one to a freed wrapper, dropping a reference below 0, a
null pointer, deleting an instance twice and recursion beyond `MaxDepth` set
`fault`, and the behaviour ends. So the model says nothing after undefined
behaviour.

`removeParent` never comes back to the runtime before its last statement, so it
is one step (`Unparent`) and then the deallocation it may cause. `setParent` is
one step as well: it holds a reference of its own to the child until the end.
`makeValid` calls only itself; `Revived` is the set it reaches.

Threads interleave where a thread can lose the GIL: a thread keeps it while its
calls need it, gives it up for a C++ destructor (`cppDtor`, `cppDtorBody`) and
takes it again for the next call that needs it. `CppDtor` reads the map
without the GIL, as the generated destructor does.

Operations (`Construct`, `ReturnCopy`, `ReturnPointer`, `Drop`, `SetParent`,
`ReleaseOwnership`, `GetOwnership`, `InvalidateArgument`, `KeepReference`,
`RemoveReference`, `TpClear`, `CppDelete`) start on an empty stack. `Tags`
says which of them the functions of the program's binding make, so that a run
can study a kind of binding. What the program is assumed to do:

* Parents are given without cycles (`MayParent`): a cycle in the C++ library
  deletes its instances twice whatever the binding does.
* C++ does not delete on its own an instance without a shell while a valid
  wrapper of it exists; doc/ownership.rst lines 29-32 says such deletions are
  not noticed, and `releaseOwnership` invalidates for that reason.
* Without the tag `racy`, no thread passes an object whose instance a
  destructor in progress is going to delete.
* Without the tag `reuse`, a new instance does not get the address that a stale
  wrapper still holds.
* Without the tag `lists`, arguments are valid wrappers:
  `writeArgumentConversion` checks each argument, but not the items of a
  sequence.
* Two threads do not replace the references kept under one key of one object
  at the same time (`KeptAlone`), see "Seen while modelling".
* Methods with `__del__` or an override that calls the binding back from inside
  a runtime call are left out: operations do not nest.

The run `everything` drops the tagged ones.

### DenseHashtable, PointerMap and the code

`table` is a `dense_hash_map`: `n` is `num_buckets`, `bucket` the array,
`elements` and `deleted` are `num_elements` and `num_deleted`, and the two flags
`consider_shrink` and `use_deleted`. `pos` is the bucket an iterator points to,
`hash` the hash function, any of a set given. Each action is a public operation with
everything it causes (`resize_delta`, `maybe_shrink`, copying, rehashing, squashing
of deleted buckets). `PointerMap` is the map and the keys a traversal has still
to show; the refinement maps the buckets at and after `pos` that are in use to
these. The action `EraseAt` erases under the iterator, which the users of the
table do.

### BindingManager and the code

| Variable | In the program |
|---|---|
| `typeData[t]` | `SbkObjectTypePrivate`: `mi_init`, `mi_offsets` (by the class they are the offsets of), `mi_specialcast`, `is_multicpp` |
| `wrapperMapper[a]` | `BindingManagerPrivate::wrapperMapper` |
| `wrapper[o]` | type, `cptr` (one pointer per C++ base, 0 is null), `validCppObject`, `cppObjectCreated`, `hasOwnership` |
| `cpp[s]` | the instance that begins at `s`: class, whether of a shell, whether of a class without wrapper |
| `dying` | addresses that `DtorCallerVisitor` still has to delete, the wrapper being freed |
| `ctors` | constructors between `copyMultimpleheritance` and their end |
| `destroying` | `~BindingManager` runs |

An instance covers `Extent` addresses, its bases are at `Shift`, and `Offsets`
gives what the generated initializer writes in `mi_offsets`. A constructor is
two actions, since the conversions of its arguments may run any Python code:
`CtorBegin` and one of `CtorFails`, `CtorRefused`, `CtorSucceeds`,
`CtorOfDestroyed`. `Return` is `toPython` of a pointer: the dynamic type, type
discovery along the hierarchy, and a new wrapper. Excluded, because the code
goes wrong there (see "Seen while modelling"), by tags: `reset`, `base-init`,
`second-base`; only `reset` has a run.

### Conversions, VirtualCall and the code

Numbers have small widths (`Bits`); a converter is `PyInt`, `PyLong` or
`PyULongInt` with the checks of range of `OverFlowChecker`; a pair is converted
item by item. `ToCpp` returns every outcome the build can produce, with whether
an error is left pending.

| Variable | In the program |
|---|---|
| `stack[t]` | the calls in progress: Python code, a generated function called from Python (`binding`), C++ code, a virtual method of a shell (`virtual`), `SbkDeallocWrapper` (`dealloc`) |
| `gil`, `error[t]` | who holds the GIL, whether `PyErr_Occurred` |
| `lock` | a recursive lock of the C++ library that some methods take |
| `wrapper[o]`, `instance[o]` | alive, with count 0, gone; C++ instance alive, waiting for calls before it is destroyed, gone |
| `dict` | the methods that Python assigned to the instance |
| `event[e]` | a C++ object that lives as long as one call (`invalidate-after-use`): whether it lives, whether a valid wrapper of it is registered, whether Python kept one |

A frame has the C++ value in transit (`items`) and what Python meant by it
(`meant`), which `ValuesSurvive` compares. `BindingCall`/`BindingReturn` are
`writeMethodWrapper`, `VirtualSkipped`, `VirtualPure`, `VirtualBase`,
`VirtualOverride`, `OverrideFailed`, `OverrideReturned` and `VirtualBaseReturn`
the paths through `writeVirtualMethodNative`, `GetOverride` is
`BindingManager::getOverride`. A frame's `had` is what `GilState` remembers.
`Callee` calls the C++ class's method on a shell and lets a native object's
vtable decide, which has no overrides. By tags Python code may do what the
binding does not stand: an override that keeps its event and fails
(`keep-and-fail`, a finding), and a thread that passes on an event that a call
in progress in another thread was given (`share-event`), which ends with that
call. A virtual method of a shell is one that a wrapped class in its mro defines
(`MroAssumption`): the generator overrides no others.

### ModuleInit and the code

| Variable | In the program |
|---|---|
| `imports` | the `init` functions in progress and the place in each: `require`, `create`, `class`, `enum`, `register`, as `finishGeneration` writes them |
| `module`, `moduleTypes`, `api` | `sys.modules`, the registry of arrays of types, the pointers modules have to the arrays of others |
| `types`, `ready` | pointers in the array, types after `PyType_Ready` |
| `classHierarchy`, `discovery` | `addClassInheritance`, `setTypeDiscoveryFunctionV2` |
| `resolvers`, `behaviour` | the `TypeResolver`, `type_behaviour` |
| `enums`, `count`, `refs`, `made` | enum types created, counts of items, those that Python has, items made for other values |
| `process`, `pending` | `Py_FatalError` or a crash; an error that is pending |

### The overload modules and the code

| Variable | In the program |
|---|---|
| `overloads`, `minArgs`, `maxArgs` | `m_overloads`, `m_minArgs`, `m_maxArgs` of the root `OverloadData` |
| `next[n]` | `m_nextOverloadData` of the node that the argument types `n` lead to |
| `phase` | whether the constructor is still reading functions |
| `args`, `kwds`, `pyargs` | the tuple, the dictionary, and the slots (`pyargs[]`) that arguments are read from |
| `node`, `chosen`, `called`, `pc` | the place in the nested `if`s of the decisor, `overloadId`, the case of the `switch` that ran |
| `operators` | the overloads of each operator function, in the order of its checks |
| `question`, `wrappers`, `answer` | what Python evaluates, the operator functions in progress, the answer or error |

`AddOverload` is one turn of the constructor's loop and `SortNextOverloads` its
end. The sort builds the graph as the code does, edge by edge and child by
child, because some edges are added only if the reverse edge is not there and
others remove it; `Graph::topologicalSort` is external, so every order that
agrees with the graph is tried. The functions may be read in any order.

A step of a call is one nesting level of the generated code: `DecideLast`,
`DecideDefault` and `DecideBranch` are the three ways
`writeOverloadedFunctionDecisorEngine` goes on from a node, and the guard of
the latter is the `else if` chain. A Python object is named after the C++ type
it is an instance of; `Accepts` is what the generated check of a type answers,
`CheckNull` what it answers for an argument that was not passed (`pc = "null"`
where it follows the null pointer). The keywords are read after the decisor
has answered, as the code does.

An operator is a stack of wrappers: each finds which operand is its own
(`writeCppSelfDefinition`), asks the other operand's class by its reverse
method first, and decides when that one declined. Which function CPython calls
first is external (`RightFirst`).

## Runs

| Run | Instance | What it asks and shows |
|---|---|---|
| `family` | 2 threads, 2 shells and 1 native | Parents, kept references under 2 keys, the cycle collector and C++ deletions, in every order: no fault, counts and families agree, one deleter per instance, nothing is left behind, nothing in use is freed. 144 thousand states, up to symmetry |
| `ownership` | 2 threads, 1 shell and 1 native | `releaseOwnership`, `getOwnership`, `invalidate` and copies. Validity, the map and the extra reference; under `FairSpec` every call ends and owned instances are deleted |
| `everything` | 1 thread, 1 shell and 1 native | Every operation and every tagged misuse: the invariants that are proved hold even in behaviours that end in a fault |
| `hashtable` | 3 keys, 2 values, 3 hash functions, 4 to 16 buckets | The table is the map its operations say, in every order of them; keys that all collide, two that collide and a third on their probes, keys apart |
| `binding_manager` | 2 wrappers, 2 places in memory, 4 C++ classes, 2 Python classes | Classes with two C++ bases, a Python class with two C++ instances, constructors that fail or are refused, C++ making and deleting instances, and the teardown |
| `virtual_call` | 1 Python thread, 1 C++ thread, 2 objects, 3 methods, 1 event | Calls in both directions up to five deep, overrides of every kind, errors, numbers out of range, a lock of the library, a wrapper that dies: 170 thousand states |
| `module_init` | 5 modules, 10 classes, 2 enums | Every order of imports with a module that is missing and a class that cannot be made ready, objects and enum values converted at any point: 22 thousand states |
| `decide` | 10 groups of functions, 8 of operators | Every order of declaration of up to three overloads of a group, every order the sort leaves open, every call with one argument of 14 kinds, with two of 10 kinds, some with three or with keywords, and every operator on 11 operands: 309 thousand states |
| `keeps_its_parent` | 1 thread, 2 shells | Violation, see Findings |
| `missing_argument` | 3 overloads | Violation |
| `offsets_reset` | as `binding_manager` | Violation |
| `invalidate_after_use` | as `virtual_call` | Violation |

### Properties

Each is broken by at least one mutant of the code, named in `PROJECT.json`.

`ObjectLifetime`

* `TypeOK`: types; and frames have what the step that runs them uses.
* `NoFault`: no undefined behaviour.
* `CountAccounted`: between calls the count of a wrapper is the number of those
  who will drop a reference.
* `NoPrematureFree`: what Python refers to is not deallocated.
* `NoLeak`: a wrapper nobody needs is gone.
* `Family`: parent pointers and child lists agree in every step.
* `OneDeleter`, `OwnedHasNoParent`: one side deletes an instance.
* `ValidMeansLive`, `ValidIsRegistered`: validity, instance and map agree.
* `RegistrySound`: the map never leads to freed memory or to the wrapper of
  another address.
* `ExtraReferenceEnds`: the reference `releaseOwnership` takes ends with the
  shell's destructor.
* `CallsEnd`, `DyingIsDeleted`: liveness.

`DenseHashtable`

* `Accounted`: the counters say what the buckets hold, and every search ends.
* `LookupAgrees`: a search finds the only bucket with the key, across deleted
  buckets; `size()` counts the keys that are found; a traversal shows each entry
  once.
* `OperationsExact`: an operation changes its own key's entry only.
* `ImplementsMap`: the refinement of `PointerMap`, iterators included.

`BindingManager`

* `TypeOK`: a wrapper has a pointer for each C++ base of its type.
* `MapSound`: every address leads to a live wrapper that will erase it.
* `EveryBaseFound`: a pointer to any base of an instance leads to its wrapper.
* `CppPointerFits`: the pointer a function gets is the part of the class it
  asked for.
* `TeardownShrinks`: each destroy of the teardown takes at least one address out
  of the map and nothing puts one in; the addresses are computed anew from the
  wrapper and its type, which may have changed since they were registered.
* `TeardownEnds`: the map gets empty, with fairness of the loop only.
* `EntriesAlive`: the part of `MapSound` that `offsets_reset` refutes.

`VirtualCall`

* `TypeOK`: types; and a thread has the lock only by a call of its own.
* `PythonRunsSafely`: no Python code runs with an error pending, no override
  for an object that is dying.
* `CallsLandWhereNamed`: a virtual call from C++ lands where it would in Python,
  a call of the binding in the C++ class.
* `EventsInvalidated`: no valid wrapper of an event that has ended, none taken
  from an override that has it.
* `ValuesSurvive`: values arrive as they were meant or an error is pending.
* `CallsEnd`: liveness: the GIL, the lock and destructors do not wait for each
  other.

`ModuleInit`

* `TypesFound`: a module that Python has is complete; its classes are found by
  every name and have the behaviour of their kind.
* `ObjectsTyped`: the wrapper of an object is of the most derived class that is
  ready, never of a class it is not of.
* `ItemsLive`: items outlive their references.

Overloads

* `ExactCallWins`: the one overload declared for exactly the types passed is
  called, whatever else converts.
* `CalledAccepts`: no check is skipped on the way to an overload, and named
  arguments land in their own slots.
* `PyObjectLast`, `NoOverloadLost`: the sort tries the most generic type last
  and keeps every overload.
* `CountsAgree`: the bounds on the number of arguments are those of the
  declarations.
* `OperatorFound`: evaluating an operator of unrelated operands finds the C++
  operator that is there, reverse ones first.
* `MissingArgumentRaises`: what `missing_argument` refutes.

### Bounds

* `ObjectLifetime`: three wrappers and three addresses are a parent, a child
  and a grandchild, or two parents that a child moves between; two for
  ownership, which relates a wrapper to its instance and to Python. `MaxExt`:
  references Python code holds to a wrapper; one is enough since code that
  holds two only delays the drop. `MaxCount`: no call starts on a wrapper with
  a higher count; it is above the number of other objects in the run plus the
  extra references, so it only cuts `releaseOwnership`/`getOwnership`
  repetitions. `MaxDepth`: calls in progress in one thread; 30 is never
  reached, and in `everything` 12 is reached by `invalidate` on a cycle of
  native objects, which recurses for ever in the code as well.
* `DenseHashtable`: `MaxUsed` buckets in use, with tables from 4 buckets: the
  table grows twice, shrinks, and is full of deleted buckets. `Hints` are the
  sizes asked for. `MaxDoublings`: sizes up to 1024 buckets, more than the run
  reaches; an assumption of the module asks for enough of them. The real table starts with 32 buckets and grows and
  shrinks at the same ratios.
* `BindingManager`: two places (`Starts`) two addresses apart, `Extent` 2: a
  second base lies within its instance and instances do not overlap, so that
  addresses meet only by reuse. `MaxCtors`: one constructor in progress, which
  anything may interrupt.
* `VirtualCall`: `MaxDepth` 5 frames per thread: Python, binding, C++, virtual,
  Python; `MaxCalls`: the C++ method of each kind makes 2, 1 or 0 calls. Widths
  of 3 and 4 bits, with values inside, outside and at the sign (`LongLongBits`
  is 4).
* `ModuleInit`: `MaxRefs` 1 reference of Python to each item: more are the
  same step again.
* Overloads: `MaxOverloads` 3 is enough for two edges of the graph to disagree
  about a third type; each group mixes types with rules of their own (numbers
  and enums, values with conversions, containers, inheritance, generic Python
  types) or lengths (default values, removed arguments, no argument).
  `RecursionLimit` 3 stands for CPython's 1000: wrappers of operators inside
  each other; three tells a recursion that goes on for ever from the two that
  a proper answer takes.
* Symmetry: C++ addresses and threads of `ObjectLifetime` are interchangeable;
  wrappers are not (they have classes). Runs with liveness use no symmetry.

### Fairness

`ObjectLifetime!FairSpec` asks strong fairness of each thread's steps,
`VirtualCall!FairSpec` strong fairness of each thread's progress in the calls
it has begun. A step is disabled when another thread holds the GIL or the lock
and enabled again when it is given up; CPython's GIL is handed to waiting
threads again and again, and the operating system runs every thread. Nothing is
asked of the operations: the program may stop calling. With weak fairness a
thread could wait for a GIL that is free again and again. `BindingManager` asks
weak fairness of the loop of the destructor, which nothing interrupts.

## Proofs

Each theorem holds for any sets of threads, objects, classes, addresses and
values, any typing of them and any bounds. Beside the assumptions on the
constants, which say what the sets and functions are and that `Nil` is none of
their elements, the table names what else a theorem rests on.

| Theorem | What it says | Hypotheses |
|---|---|---|
| `ObjectLifetimeProofs!TypeCorrect` | `TypeOK`: every frame a step pushes has what the step that runs it uses, only real wrappers enter the map or a list | |
| `ObjectLifetimeProofs!WrapperMapIsSound`, `OneOwner` | `RegistrySound`, `OwnedHasNoParent`, with every tag allowed | |
| `OwnershipProofs!OwnershipMovesSafely` | `NoFault` | `OnlyMoving` |
| `OwnershipProofs!ReferredStaysAlive`, `NothingLeaks` | `NoPrematureFree`, `NoLeak` | `OnlyMoving` |
| `OwnershipProofs!ReferencesAccounted`, `ExtraReferenceEndsAlways` | `CountAccounted`, `ExtraReferenceEnds` | `OnlyMoving` |
| `OwnershipProofs!ValidLeadsToInstance`, `ValidIsFound` | `ValidMeansLive`, `ValidIsRegistered` | `OnlyMoving` |
| `DenseHashtableProofs!AlwaysAccounted`, `AlwaysFound`, `AlwaysExact` | `Accounted`, `LookupAgrees`, `OperationsExact`, with any hash function and any number of buckets | |
| `DenseHashtableProofs!TableImplementsMap` | the table implements `PointerMap`, iterators included | |
| `BindingManagerProofs!TypeCorrect`, `MapIsSound` | `TypeOK`, `MapSound` | no `reset` |
| `BindingManagerProofs!TeardownLeavesLess` | `TeardownShrinks` | no `reset` |
| `ConversionsProofs!ConversionsExact`, `ResultsExact` | a converted item is exact or leaves an error; results are exact | `PowersAssumption` |
| `VirtualCallProofs!TypeCorrect`, `PythonIsSafe`, `CallsLand` | `TypeOK`, `PythonRunsSafely`, `CallsLandWhereNamed`, with every tag allowed | `MroAssumption` |
| `VirtualCallArgumentProofs!WrappersOfEvents` | `EventsInvalidated` | no `keep-and-fail`, no `share-event` |
| `VirtualCallArgumentProofs!ValuesArrive` | `ValuesSurvive` | `Convertible` |
| `ModuleInitProofs!ImportedIsUsable`, `ItemsStay` | `TypesFound`, `ItemsLive`, whatever import or class fails | `RequiresAssumption`, `NamesAssumption` |
| `ModuleInitProofs!ObjectsHaveTheirType` | `ObjectsTyped` | these and `HierarchyAssumption` |

`OnlyMoving` says which functions the binding has: constructors, functions that
return a copy, parameters that are given to C++ or taken from it, arguments that are
invalidated, instances that C++ deletes by itself, and the cycle collector (the tags
of the run `ownership` and `gc`, in any combination); and that `MaxDepth`, the
bound on a stack, is at least 6, the deepest of theirs. What it leaves out is said
below.
`PowersAssumption` is arithmetic: powers of two are positive and double. The
prover knows nothing of exponents; TLC evaluates the assumption for the widths
of the run. The hypotheses on tags are the cases in which the property is false,
each with a run that refutes it or an entry below. `Convertible` leaves out the
two conversions that the language or the converter does not define: a double out
of the range of a long, and a number other than an int for a char.
`RequiresAssumption` says that no module requires itself, by whatever way: the
generator reads the typesystems of required modules before the one that requires
them. `NamesAssumption` says that no two types share a name. C++ sees to that
for the names of types. The lookup names (`reduceTypeName`) come from the type
database, which is not in the repository; where two of them coincide, the first
type keeps the name (`createTypeResolver`) and `TypesFound` is false for the
second. `HierarchyAssumption` says of the C++ library that there are finitely many
modules, that a class without a wrapper derives from one that has one, and that a class
with a polymorphic base is polymorphic.

**ObjectLifetime.** `OwnedHasNoParent` is not inductive: `getOwnership` tests
`parentInfo && parentInfo->parent`, so a parent pointer left in a wrapper
whose `ParentInfo` was deleted would come back with the next `setParent`.
`IInv` adds that a wrapper without a `ParentInfo` has no parent pointer
(`Parentless`), next to `TypeOK` and `RegistrySound`. The
proof goes function by function: lemmas say what `Unparent`, `Adopted`,
`DecRef` and the others do to a single wrapper, and a step keeps `RegistrySound`
because it changes `st`, `cptr` and `wmap` only in `Free`, `ForgetPointer`,
`Invalidate` and where a wrapper is made.

**Ownership.** None of the seven properties is inductive. A thread is stopped anywhere
between the calls of a deallocation or a destructor while others go on, so what a
step may rely on has to be said of every such place. `OwnershipProofs` gives a thread an
*activity*: which call it is in, of which wrapper, at which address and what
comes next. `MovingInv` says that there are activities of all the threads of which
these hold:

* `Control`: each stack is the one that belongs to the activity (`StackOf`), a
  thread in the middle of a call that needs the GIL has it, there is no fault.
* `WrapperSound`, `OneWrapper`: a valid wrapper, and the one of a shell, is in the map at
  its address and its instance is there or about to be deleted; no two wrappers
  have the same address.
* `CountSound`: the count of a wrapper is what Python holds and one more while the
  instance of a shell belongs to C++ (`Lent`), but for the time from where the
  destructor drops that reference until it forgets the instance (`Dropped`); a
  wrapper without references is in a deallocation in progress.
* `Relies`: what the remaining calls of each activity take for granted. For instance
  a destructor past `retrieveWrapper`, which it calls without the GIL, still
  finds its wrapper alive and owned by C++ (`Served`) or, if it found none, none comes.
* `OneDestructor`, `OwnerDeletes`, `DyingEnds`: one thread at most destroys an
  instance, only the deallocation of the wrapper destroys one that Python owns, and one
  that is being destroyed is in some thread's hands.

The heart is `Relies` of another thread's activity. `getOwnership` of a wrapper
whose destructor runs would break it, and cannot be called: a program does not pass
an instance that it is deleting (`racy` leaves that assumption out). TLC checked
`MovingInv` before it was proved, with the activities read off the stacks.
With `gc`, `NothingToCollect` shows that there is never garbage: without families and
references no wrapper refers to another.

**DenseHashtable.** A search stops at the first empty bucket, so that a key is
found only if no bucket between its first probe and its own is empty. That is
the heart of the invariant (`OnPath`, in `TableInv`); next to it stand
that a key is in one bucket at most, that the counters are the cardinalities of the
sets they count, that a deleted bucket is recognised as one
(`use_deleted`), and that the number of buckets is a power of two and at most half of
them are in use. The last two are what makes a search end: the probes are
triangular numbers modulo the number of buckets, no two of the first `n` of them are
the same (`ProbesDiffer`: where `j - i` and `i + j + 1` multiply to a multiple of
`2 * n`, one of the factors is odd and the other one is too small), hence they visit
every bucket (`ProbesCover`) and one that is empty. Then one lemma per function:
`PutIs` and `KilledIs` for a bucket written or marked deleted, `CopyOfIs` for
the copy to a table of another size, `ResizeDeltaIs`, `InsertedAllIs`, and from
those the steps and their images in `PointerMap` (`EveryStep`).

The prover has no induction rule that takes a formula. An induction over numbers is
stated for a set instead: a set of naturals that has 0 and the successor of each
of its elements is all of them (`Induct`), and the set is the numbers for which the
claim holds. In the same way `StepsExist` shows that a function that a recursion
defines step by step exists, from which `Doubled`, `CopyOf` and `InsertedAll` may
be unfolded.

**BindingManager.** `MapSound` says that the wrapper in the map will erase the
address. `releaseWrapper` computes the addresses to erase anew, from the
offsets that the type has by then, so the invariant is about the type as well.
`Inv` says of an entry that it is held by a pointer that is not null (`MapHeld`,
the offsets of a type may be set while its wrappers have no instance), that
a wrapper with pointers is of a type that exists (`InUse`), and that the
number of pointers agrees with the walk through the bases and with `is_multicpp`
(`Shape`). The step to look at is `registerWrapper`, which sets the
offsets of a type once: from then on they only stay (`reset` is the exception).
`TeardownLeavesLess` follows: the wrapper at an address erases the address, and
while the map is torn down no destructor is left to come (`NothingDying`) and
nothing registers. The loop of `~BindingManager` thus runs at most once for each
address; that it does run is the fairness of `TeardownEnds`.
`EveryBaseFound` and `CppPointerFits` are not theorems, since they are false in
general: a Python class with two C++ instances registers the second one under the
offsets of the other class too, beyond its own extent and, where
instances lie side by side, on the base of a neighbour. They hold where instances are apart as in the run.

**VirtualCall.** `Inv` says which call is made by which (`Stacked`, `CalledBy`),
what each kind has (`Placed`), that Python code and `SbkDeallocWrapper` on top
have no error pending (`Clear`), that a virtual method that has not called yet
leaves room for one call (`Room`), that a lock is held by the thread with a
`locked` frame, and that the frames' objects are alive, dying or without a
Python class as their step left them (`Held`). `PythonRunsSafely` and
`CallsLandWhereNamed` are read off the stack. `Held` for a frame of another
thread is kept because only `Drop` makes an object die, and only when no call
uses it.

`EventsInvalidated` needs to know who ends an event. `EventInv` says that an
event lives exactly while a call of one thread has it as its temporary (`Apart`,
`EventsOK`), that its wrapper is valid exactly while an override's arguments
hold it, that a call has an event only above the call that ends it, and is to
invalidate it exactly when no override below has it (`Nested`), and that an
override that failed did not keep its event (`Unkept`). Without `Nested` an
override could be left with an event of a call that is over.

`ValuesSurvive` is not inductive either: after an error, C++ code goes on with a
default value, calls other virtual methods with it and returns it. `ValueInv` says
that every call has its exact value, except the ones above the last
Python code or override when an error is pending (`Sound`); they end without
calling Python (`VirtualSkipped`), and the error is still there when the
function of the binding below looks for it. That no step clears it in between is
what `Through` expresses.

**ModuleInit.** A module is usable because of what an initialisation does up to
its end, so the invariant says what each step that has been passed has achieved
(`Progress`: a pointer to the types of a required module, a class that is ready),
unless an error is pending; at the end there is none, or `Py_FatalError` stops the
program (`FinishStep`). A required module that is in `sys.modules` might be half
initialised. It is not, since the initialisations in progress each require the
next one's module, so that their ranks increase (`Stacked`), and a module of the rank of
one in progress is not required by it (`RequiredBelow`). That the first name
of a class tells its behaviour needs all its names to be new when it is made: it is
made once (`MadeBySteps`, `StepsOnce`), and the names that are known are of other
types (`NamesKnown`).

`ObjectsTyped` is about two recursions: the classes that a class inherits from, and
`identifyType`, which asks along the hierarchy that the modules have registered
so far. Both are unfolded by `RankRecursion`, which shows that a recursion that
goes to elements of lower rank defines a function. The rank of a class is its
`Depth`; that there is one follows from the order of initialisation, which puts bases in
front, in the same module or in a required one (`DepthExists`). The invariant needed
beside `Inv` is `HierarchyKept`: a ready class has an edge from each of its bases, there are
no other edges than from bases, and a ready polymorphic class with bases has a discovery
function. From there: the bases of a ready class are ready, so that from a polymorphic
root a chain of edges leads to every ready class below it, and a class at the end of it that
can be discovered is found (`DiscoveredIsFound`); and the class that answers is one
that nobody below it answers for (`AnswersAreLast`). A class that is in the hierarchy
and not ready, which `ClassUnready` leaves there, has no discovery function and is passed over.

Model-checked only:

* liveness, and the fairness it rests on: outside the prover's logic;
* the properties of `ObjectLifetime` with families, references and returned
  pointers (the runs `family` and `everything`), `Family` and `OneDeleter` among them.
  There a count is compared with the number of
  references in lists, frames and maps, and sums over finite sets are defined by
  a recursion that the provers cannot unfold; the stack of a deallocation grows with
  the family, so that it has no few shapes; and with `return-pointer`, `reuse` or
  `racy` more than one wrapper has an address, or a destructor loses its wrapper,
  which `MovingInv` excludes;
* `EveryBaseFound`, `CppPointerFits` of `BindingManager`, for the reason above;
* the overloads, whose operators are folds and recursive definitions over trees.

## Findings

* `missing_argument`. `decisor_test.py:37` wants a TypeError for a missing last
  argument. The number of arguments is not compared in a branch of a single
  check that several overloads share; a shorter overload makes the number
  valid, and the check of the missing argument follows a null pointer
  (`cppgenerator.cpp:1800`).
* `keeps_its_parent`. A child that keeps a reference to its parent (a
  `reference-count` tag on a getter or setter of the parent) and the cycle
  collector: `clearReferences` releases the parent while the list still holds
  it, the parent's C++ destructor deletes the child's instance, and its
  `destroy` releases the same list again (`basewrapper.cpp:1288`).
* `offsets_reset`. A constructor of a class with several C++ bases, called for
  a Python class that derives from it, copies the class's `mi_offsets` over the
  type's, and the class has none until an instance of exactly that class is
  registered. When the constructor raises, an older instance of the type is
  released under its first address only (`basewrapper.cpp:665`).
* `invalidate_after_use`. doc/ownership.rst:57 promises that arguments are
  invalidated right after the Python function returns; a virtual method returns
  early when the override raised or returned the wrong type
  (`cppgenerator.cpp:796`), and an event that the override kept stays valid.

## Seen while modelling, without a run

Object lifetime

* `keepReference` (`basewrapper.cpp:1251`) releases the old list before it
  replaces it; two threads replacing the references of one key, or one doing so
  while another destroys the object, use a list that is gone.
* `toPython` (`conversions.h:217`) increments the count of the wrapper in the
  map, which may be 0 and in the middle of its deallocation.
* `releaseOwnership` of an object that gets a parent afterwards: `destroy` reads
  `hasParent` as true and leaves the extra reference (`basewrapper.cpp:830`).
* A native wrapper that `releaseOwnership` invalidated keeps its C++ address;
  its deallocation erases whoever is registered there by then.
* `invalidate` recurses without end on native objects that refer to each other
  in a cycle; `removeParent` on a child without a parent deletes a `ParentInfo`
  that still lists children; `action="remove"` of `reference-count` generates a
  call that does nothing.

Addresses and types

* `newObject` for a pointer to a base that is not the first takes the type of
  the derived class but keeps the address of the base (`second-base`).
* `visitAllPyObjects` asks whether an address is registered, not by whom: when a
  visitor frees a wrapper and makes another that gets its address, the freed one
  is visited (`bindingmanager.cpp:305`). Nothing in the repository calls it.
* A wrapper of a Python class with several C++ classes has one flag
  `cppObjectCreated`, which the first constructor sets (`basewrapper.cpp:950`):
  `isValid` accepts the wrapper then, and a function of a class whose constructor
  did not run follows a null pointer.
* The offsets of such a class are those of its first C++ class, and
  `registerWrapper` adds them to the address of the second instance too
  (`bindingmanager.cpp:194`). A `Point` of a Python class of `MDerived2` and `Point`
  is registered 32 bytes further as well, where the heap may have an `MDerived2`;
  that one's wrapper is then not found (`multiple_derived_test.py:131` wants it).
* `Base.__init__` on an instance of a class derived from it in C++ registers an
  instance of the base for it (`base-init`).
* `__init__` on a wrapper whose C++ instance was deleted follows a null pointer
  (`CtorOfDestroyed` ends the behaviour).
* A Python class with two C++ classes of several bases each has one list of
  offsets, the last one; `mi_specialcast` of a second C++ base is the first's.
* When C++ deletes one instance of a Python class with several, the wrapper
  forgets the others, which nobody deletes.

Calls and values

* Python may pass the wrapper of an invalidate-after-use argument to another
  thread; the call it is from ends, and invalidates it, while that thread is in
  C++ code with the pointer (`share-event`).
* In a thread that Python did not start, the error of an override is lost with
  the thread state (`ErrorAfter`).
* Comparisons, operators and getters call C++ with the GIL
  (`cppgenerator.cpp:2988-3095`); C++ code that waits for a thread which needs
  the GIL waits for ever.
* A comparison leaks its result when an error is pending, and replaces an error
  of a conversion by NotImplementedError (`cppgenerator.cpp:3086-3093`).
* A pair is accepted when one of its items is convertible (`conversions.h:603`),
  where both would have to be; a char converter makes 0 of a Python long without
  an error.
* `getOverride` leaves an AttributeError pending where `PyObject_GetAttr` fails.

Modules and enums

* Items of enums have counts one or two too low for the dictionaries that hold
  them; `ItemsLive` holds because nothing removes them from there.
* `SbkEnumObject_name` reads a null name for an item made for another value
  (`sbkenum.cpp:70`); `!=`, `<` and `>` of an item with itself are True;
  arithmetic reads `ob_value` of operands that are no enum.
* The registry of modules is keyed by the address of the module object, names
  in the TypeResolver may collide when they are shortened, and `type_behaviour`
  is a signed field of two bits.
* Type discovery starts from roots only: a pointer of a polymorphic static type
  that has a base itself is not resolved.

Overloads and operators

* The check of a `PyInt` type accepts every Python number, trusting the sort
  to try floats and bools first (`cppgenerator.cpp:1536`), which the sort does
  for signed integers only.
* The decisor looks at positional arguments only; keywords of no overload or
  of another one are ignored (`cppgenerator.cpp:1931`), and the first overload
  with a default value is taken for a call that names another's.
* A const overload with a twin and a longer overload: an argument too many is
  dropped (`cppgenerator.cpp:1765`, `1800`), and `overloadId` and the case
  labels count differently (`1733`).
* `derived + base` where only the base has the binary operator asks itself by
  `__radd__` until RuntimeError (`cppgenerator.cpp:1181`); `base + derived` with
  operators of its own in the derived class raises NotImplementedError. That is
  why `OperatorFound` is about unrelated operands.
* A type with a direct and a reverse operator has sort edges for one of them
  only (`overloaddata.cpp:105`): `Point * double` may be passed to the operator
  for int.
* A reverse operator that takes the other operand by conversion wins over an
  exact direct one. `None + object` reads None as a wrapper.

## Not modelled

* The generator's text, its reading of the typesystem and of headers
  (vendored), documentation generation: one pass without state at run time.
* Strings, buffers, void pointers, user-defined conversion rules, injected code:
  calls of CPython, or code that the typesystem's author writes.
* Flags and the numbers of enum objects (arithmetic on a long), sequence and
  mapping protocols, getters and setters, in-place and unary operators, variadic
  functions, type replacements, containers with several parameters.
* An interpreter that is not initialised, `release()` called by hand.
* `visitAllPyObjects` and `getAllPyObjects`, which read the map of `BindingManager`
  and change nothing: no promise says what a visitor may do.
* Swapping, comparing, reading and writing hash tables, changed load factors:
  the binding does not use them.
* CPython itself (except counts, the GIL, the calls it makes of the binding and
  what the collector may do), `ob_dict` and weak references.

## Plan

1. Theorems about `ObjectLifetime` with families: `MovingInv` with activities that
   are trees of deallocations, and `Family` from it.
2. Flags, and the races of `keepReference` with a run of their own.
