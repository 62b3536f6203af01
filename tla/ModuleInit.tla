----------------------------- MODULE ModuleInit -----------------------------
(***************************************************************************)
(* What the import of generated modules leaves in libshiboken: the code of *)
(* a module's initialisation (cppgenerator.cpp finishGeneration,           *)
(* writeClassRegister, writeEnumInitialization, writeRegisterType), the    *)
(* registry of modules, introduceWrapperType, the TypeResolver, the class  *)
(* hierarchy, and the enums with their items.                              *)
(***************************************************************************)
EXTENDS Integers, Sequences, SequencesExt

CONSTANTS
    Nil,
    Module,         \* generated modules
    Requires,       \* [Module -> Seq(modules)]: required target imports
    Missing,        \* modules that cannot be imported
    Class,          \* wrapped classes
    Order,          \* [Module -> Seq(classes)]: the order of initialisation
    Bases,          \* [Class -> Seq(classes)]
    Enclosing,      \* [Class -> Class or Nil]
    ValueType,      \* the classes that are value types
    Polymorphic,    \* the classes with virtual methods
    HasShell,       \* the classes with a generated subclass
    Unready,        \* the classes for which PyType_Ready fails
    Hidden,         \* C++ classes without a wrapper
    HiddenBase,     \* [Hidden -> Class]
    Enum,
    Scope,          \* [Enum -> Class or Module]
    LookupName,     \* [Class or Enum -> Name or Nil]: when it is not the name
    Values,         \* [Enum -> Seq(Int)]: the values of the items
    Value,          \* the values that an enum may have in C++
    MaxRefs         \* bound: references Python code has to an item

RangeOf(s) == {s[i] : i \in DOMAIN s}
Item == {<<e, i>> : e \in Enum, i \in UNION {DOMAIN Values[x] : x \in Enum}}
Items(e) == {<<e, i>> : i \in DOMAIN Values[e]}
ValueOf(item) == Values[item[1]][item[2]]
Package(c) == CHOOSE m \in Module : c \in RangeOf(Order[m])

\* A class and those it inherits from.
Ancestors[c \in Class \cup Hidden] ==
    {c} \cup UNION {Ancestors[b] : b \in IF c \in Hidden THEN {HiddenBase[c]} ELSE RangeOf(Bases[c])}

\* Modules require others first, and the generator writes the initialisation of
\* a class once, after those of its bases and of the class around it.
ASSUME ModuleInitAssumption ==
    /\ Requires \in [Module -> Seq(Module)] /\ Order \in [Module -> Seq(Class)]
    /\ Bases \in [Class -> Seq(Class)] /\ Enclosing \in [Class -> Class \cup {Nil}]
    /\ Values \in [Enum -> Seq(Int)] /\ Scope \in [Enum -> Class \cup Module]
    /\ IsFiniteSet(Enum) /\ Class \cap (Module \cup Enum) = {} /\ Nil \notin Class \cup Enum
    /\ Missing \subseteq Module /\ ValueType \cup Polymorphic \cup HasShell \cup Unready \subseteq Class
    /\ \A c \in Class : \E m \in Module : c \in RangeOf(Order[m])
    /\ \A m, n \in Module : m # n => RangeOf(Order[m]) \cap RangeOf(Order[n]) = {}
    /\ \A m \in Module : \A i \in DOMAIN Order[m] :
           LET before == {Order[m][j] : j \in 1..(i - 1)}
               c == Order[m][i]
           IN  /\ c \notin before
               /\ Enclosing[c] \in before \cup {Nil}
               /\ \A b \in RangeOf(Bases[c]) : b \in before \/ Package(b) \in RangeOf(Requires[m])
    /\ MaxRefs \in Nat

\* No module requires itself, by whatever way.
ASSUME RequiresAssumption ==
    \E rank \in [Module -> 1..Cardinality(Module)] :
        \A m \in Module : \A r \in RangeOf(Requires[m]) : rank[r] < rank[m]

\* A C++ class is polymorphic when one of its bases is, and one without a wrapper
\* derives from a class that has one.
ASSUME HierarchyAssumption ==
    /\ IsFiniteSet(Module) /\ Hidden \cap Class = {} /\ HiddenBase \in [Hidden -> Class]
    /\ \A c \in Class : RangeOf(Bases[c]) \cap Polymorphic # {} => c \in Polymorphic

\* No two types have a name in common.
NamesOf(x) == {x, LookupName[x]} \ {Nil}
ASSUME NamesAssumption ==
    \A x, y \in Class \cup Enum : x # y => NamesOf(x) \cap NamesOf(y) = {}

VARIABLES
    process,        \* "running", "aborted" by Py_FatalError, or "crashed"
    module,         \* of each module: "absent", "created" (in sys.modules) or
                    \*   "loaded"
    imports,        \* the initialisations in progress, the latest first
    pending,        \* whether a Python error is pending
    moduleTypes,    \* modules whose arrays of types are registered
    api,            \* <<m, r>>: m has a pointer to the array of types of r
    types,          \* classes in the arrays of types
    ready,          \* classes whose Python types are initialised
    classHierarchy, \* pairs of a class and one derived from it
    discovery,      \* classes with a type discovery function
    resolvers,      \* the TypeResolver: from names to classes or "int"
    behaviour,      \* type_behaviour of each class
    enums,          \* enums created
    count,          \* reference counts of the items of enums
    refs,           \* those of them that Python code has
    made            \* other objects of enums that Python code has

importVars == <<process, module, imports, pending, moduleTypes, api, types>>
typeVars == <<ready, classHierarchy, discovery, resolvers, behaviour>>
enumVars == <<enums, count>>
pythonVars == <<refs, made>>
vars == <<importVars, typeVars, enumVars, pythonVars>>

-----------------------------------------------------------------------------
(* The initialisation function of a module.                                *)

Ops(op, s) == [i \in DOMAIN s |-> [op |-> op, of |-> s[i]]]
GlobalEnums(m) == SetToSeq({e \in Enum : Scope[e] = m})

Program(m) ==
    Ops("require", Requires[m]) \o Ops("create", <<m>>) \o Ops("class", Order[m])
        \o Ops("enum", GlobalEnums(m)) \o Ops("register", <<m>>)

Current == Program(Head(imports).mod)[Head(imports).pc]
At(op) ==
    /\ process = "running" /\ imports # <<>>
    /\ Head(imports).pc \in DOMAIN Program(Head(imports).mod) /\ Current.op = op
Continued == <<[Head(imports) EXCEPT !.pc = @ + 1]>> \o Tail(imports)

\* Python code imports a module.
Import ==
    /\ process = "running" /\ imports = <<>>
    /\ \E m \in Module \ Missing :
       /\ module[m] = "absent"
       /\ imports' = <<[mod |-> m, pc |-> 1]>>
    /\ UNCHANGED <<process, module, pending, moduleTypes, api, types, typeVars, enumVars, pythonVars>>

\* Mutant: sys.modules is not looked at.
RequireLoadsAgain ==
    /\ At("require") /\ Current.of \notin Missing
    /\ imports' = <<[mod |-> Current.of, pc |-> 1]>> \o imports
    /\ UNCHANGED <<process, module, pending, moduleTypes, api, types, typeVars, enumVars, pythonVars>>

\* Module::import of a module that has to be loaded.
RequireLoads ==
    /\ At("require") /\ Current.of \notin Missing /\ module[Current.of] = "absent"
    /\ imports' = <<[mod |-> Current.of, pc |-> 1]>> \o imports
    /\ UNCHANGED <<process, module, pending, moduleTypes, api, types, typeVars, enumVars, pythonVars>>

\* Module::import finds it in sys.modules, and getTypes the array of its types.
RequireFound ==
    /\ At("require") /\ module[Current.of] # "absent"
    /\ api' = IF Current.of \in moduleTypes THEN api \cup {<<Head(imports).mod, Current.of>>} ELSE api
    /\ imports' = Continued
    /\ UNCHANGED <<process, module, pending, moduleTypes, types, typeVars, enumVars, pythonVars>>

\* It cannot be loaded: SBK_MODULE_INIT_ERROR is written without a return, and
\* the pointer to its types is NULL.
RequireFails ==
    /\ At("require") /\ Current.of \in Missing
    /\ pending' = TRUE
    /\ imports' = Continued
    /\ UNCHANGED <<process, module, moduleTypes, api, types, typeVars, enumVars, pythonVars>>

Create ==
    /\ At("create")
    /\ module' = [module EXCEPT ![Current.of] = "created"]
    /\ api' = api \cup {<<Current.of, Current.of>>}
    /\ imports' = Continued
    /\ UNCHANGED <<process, pending, moduleTypes, types, typeVars, enumVars, pythonVars>>

Register ==
    /\ At("register")
    /\ moduleTypes' = moduleTypes \cup {Current.of}
    /\ imports' = Continued
    /\ UNCHANGED <<process, module, pending, api, types, typeVars, enumVars, pythonVars>>

\* The end: Py_FatalError if an error is pending.
Finish ==
    /\ process = "running" /\ imports # <<>>
    /\ Head(imports).pc \notin DOMAIN Program(Head(imports).mod)
    /\ IF pending
       THEN process' = "aborted" /\ UNCHANGED <<module, imports>>
       ELSE /\ module' = [module EXCEPT ![Head(imports).mod] = "loaded"]
            /\ imports' = Tail(imports)
            /\ UNCHANGED process
    /\ UNCHANGED <<pending, moduleTypes, api, types, typeVars, enumVars, pythonVars>>

-----------------------------------------------------------------------------
(* TypeResolver.  Names are those of C++ types, with a star for pointers,  *)
(* and the names that typeid gives.                                        *)

Named(x, star) == [kind |-> "name", of |-> x, star |-> star]
TypeId(kind, x) == [kind |-> kind, of |-> x, star |-> FALSE]

\* type_behaviour has two bits and a sign.
BEHAVIOUR_VALUETYPE == 1
BEHAVIOUR_OBJECTTYPE == 2
TwoBits(n) == ((n + 2) % 4) - 2

\* createTypeResolver for some names: the first type of a name stays.
CreateTypeResolvers(known, names, type) ==
    [n \in DOMAIN known \cup names |-> IF n \in DOMAIN known THEN known[n] ELSE type]

BothNames(x, star) ==
    <<Named(x, star)>> \o (IF LookupName[x] = Nil THEN <<>> ELSE <<Named(LookupName[x], star)>>)
TypeIds(c) ==
    <<TypeId("class", c)>> \o (IF c \in HasShell THEN <<TypeId("shell", c)>> ELSE <<>>)

\* Mutant: the names of an object type come first.
RegisterObjectFirst(c) ==
    BothNames(c, TRUE) \o (IF c \in ValueType THEN BothNames(c, FALSE) ELSE <<>>) \o TypeIds(c)

\* writeRegisterType: the names of a value type come first.
RegisterType(c) ==
    (IF c \in ValueType THEN BothNames(c, FALSE) ELSE <<>>) \o BothNames(c, TRUE) \o TypeIds(c)

\* createTypeResolver: the first of its names that is new tells the behaviour.
TypeBehaviour(known, c) ==
    LET names == RegisterType(c)
        new == {i \in DOMAIN names : names[i] \notin DOMAIN known}
    IN  IF new = {} \/ behaviour[c] # 0 THEN behaviour
        ELSE [behaviour EXCEPT ![c] = TwoBits(IF names[Min(new)].star THEN BEHAVIOUR_OBJECTTYPE
                                              ELSE BEHAVIOUR_VALUETYPE)]

-----------------------------------------------------------------------------
(* Enums.                                                                  *)

\* The names of enums lead to int.
RegisterEnums(known, es) ==
    CreateTypeResolvers(known, UNION {RangeOf(BothNames(e, FALSE)) : e \in es}, "int")

\* createEnumItem: newItem, which puts the item among the values, the entry in
\* the dict of the type, and a release.
CreateEnumItem == 1 + 1 + 1 - 1

\* The dict of a class takes a reference, and PyModule_AddObject takes over one;
\* then each gives one up.
ItemCount(e) == IF Scope[e] \in Class THEN CreateEnumItem + 1 - 1 ELSE CreateEnumItem - 1

Created(es) ==
    /\ enums' = enums \cup es
    /\ count' = [x \in Item |-> IF x[1] \in es /\ x \in Items(x[1]) THEN ItemCount(x[1]) ELSE count[x]]

GlobalEnum ==
    /\ At("enum")
    /\ Created({Current.of})
    /\ resolvers' = RegisterEnums(resolvers, {Current.of})
    /\ imports' = Continued
    /\ UNCHANGED <<process, module, pending, moduleTypes, api, types,
                   ready, classHierarchy, discovery, behaviour, pythonVars>>

\* The items with a value, the first of which in the dict of values is found.
WithValue(e, v) == {x \in Items(e) : ValueOf(x) = v}

\* Mutant: the reference is borrowed.
BorrowedItem(x) == count
GetEnumItemFromValue(x) == [count EXCEPT ![x] = @ + 1]

\* A C++ value becomes a Python object: newItem without a name.
ToPython ==
    /\ process = "running"
    /\ \E e \in enums, v \in Value :
       \/ \E x \in WithValue(e, v) :
          /\ refs[x] < MaxRefs
          /\ count' = GetEnumItemFromValue(x)
          /\ refs' = [refs EXCEPT ![x] = @ + 1]
          /\ UNCHANGED made
       \/ /\ WithValue(e, v) = {}
          /\ made' = made \cup {[enum |-> e, value |-> v, name |-> Nil]}
          /\ UNCHANGED <<count, refs>>
    /\ UNCHANGED <<importVars, typeVars, enums>>

\* SbkEnum_tp_new: a new object, with the name of the item that has the value.
TpNew ==
    /\ process = "running"
    /\ \E e \in enums, v \in Value :
       \/ \E x \in WithValue(e, v) :
          /\ count' = [GetEnumItemFromValue(x) EXCEPT ![x] = @ - 1]
          /\ made' = made \cup {[enum |-> e, value |-> v, name |-> x]}
       \/ /\ WithValue(e, v) = {}
          /\ made' = made \cup {[enum |-> e, value |-> v, name |-> Nil]}
          /\ UNCHANGED count
    /\ UNCHANGED <<importVars, typeVars, enums, refs>>

Release ==
    /\ process = "running"
    /\ \/ \E x \in Item :
          /\ refs[x] > 0
          /\ refs' = [refs EXCEPT ![x] = @ - 1]
          /\ count' = [count EXCEPT ![x] = @ - 1]
          /\ UNCHANGED made
       \/ /\ \E o \in made : made' = made \ {o}
          /\ UNCHANGED <<count, refs>>
    /\ UNCHANGED <<importVars, typeVars, enums>>

-----------------------------------------------------------------------------
(* The initialisation of a class.                                          *)

\* The bases are read from the arrays of types.
BasesFound(c) ==
    \A b \in RangeOf(Bases[c]) : <<Head(imports).mod, Package(b)>> \in api /\ b \in types
EnclosingFound(c) == Enclosing[c] = Nil \/ Enclosing[c] \in ready

\* introduceWrapperType
Readied(c) == c \notin Unready /\ RangeOf(Bases[c]) \subseteq ready

ClassCrashes ==
    /\ At("class")
    /\ ~BasesFound(Current.of) \/ ~EnclosingFound(Current.of)
    /\ process' = "crashed"
    /\ UNCHANGED <<module, imports, pending, moduleTypes, api, types, typeVars, enumVars, pythonVars>>

\* addClassInheritance for each base.
Linked(c) == classHierarchy \o [i \in DOMAIN Bases[c] |-> <<Bases[c][i], c>>]

\* The function returns early when the type cannot be made ready.
ClassUnready ==
    /\ At("class")
    /\ LET c == Current.of IN
       /\ BasesFound(c) /\ EnclosingFound(c) /\ ~Readied(c)
       /\ types' = types \cup {c}
       /\ classHierarchy' = Linked(c)
    /\ pending' = TRUE
    /\ imports' = Continued
    /\ UNCHANGED <<process, module, moduleTypes, api, ready, discovery, resolvers, behaviour,
                   enumVars, pythonVars>>

ClassReady ==
    /\ At("class")
    /\ LET c == Current.of
           es == {e \in Enum : Scope[e] = c}
           withEnums == RegisterEnums(resolvers, es)
       IN
       /\ BasesFound(c) /\ EnclosingFound(c) /\ Readied(c)
       /\ types' = types \cup {c}
       /\ classHierarchy' = Linked(c)
       /\ ready' = ready \cup {c}
       /\ discovery' = IF c \in Polymorphic /\ Bases[c] # <<>> THEN discovery \cup {c} ELSE discovery
       /\ Created(es)
       /\ resolvers' = CreateTypeResolvers(withEnums, RangeOf(RegisterType(c)), c)
       /\ behaviour' = TypeBehaviour(withEnums, c)
    /\ imports' = Continued
    /\ UNCHANGED <<process, module, pending, moduleTypes, api, pythonVars>>

-----------------------------------------------------------------------------
(* The wrapper type of a C++ object (Object::newObject).                   *)

Roots(c) == {a \in Ancestors[c] : Bases[a] = <<>>}

\* The function that writeTypeDiscoveryFunction writes: it knows addresses
\* that are of a root of the hierarchy.
Discovers(c, x, base) ==
    c \in discovery /\ base \in Roots(c) \cap Polymorphic /\ c \in Ancestors[x]

\* The first answer of the classes derived from c, in the order of the hierarchy.
FirstDerived(c, identified) ==
    LET found == {i \in DOMAIN classHierarchy :
                     classHierarchy[i][1] = c /\ identified[classHierarchy[i][2]] # Nil}
    IN  IF found = {} THEN Nil ELSE identified[classHierarchy[Min(found)][2]]

\* Mutant: a class is asked before those derived from it.
IdentifyBaseFirst(x, base) ==
    LET identified[c \in Class] ==
            IF Discovers(c, x, base) THEN c ELSE FirstDerived(c, identified)
    IN  identified[base]

\* Graph::identifyType
IdentifyType(x, base) ==
    LET identified[c \in Class] ==
            IF FirstDerived(c, identified) # Nil THEN FirstDerived(c, identified)
            ELSE IF Discovers(c, x, base) THEN c ELSE Nil
    IN  identified[base]

ResolveType(x, base) ==
    IF IdentifyType(x, base) # Nil THEN IdentifyType(x, base) ELSE base

\* The type for an object of class x (of the shell of it, if any) that C++ code
\* has as a base.
NewObjectType(x, base) ==
    IF x \in Class /\ TypeId("class", x) \in DOMAIN resolvers THEN resolvers[TypeId("class", x)]
    ELSE ResolveType(x, base)

-----------------------------------------------------------------------------

Init ==
    /\ process = "running" /\ module = [m \in Module |-> "absent"]
    /\ imports = <<>> /\ pending = FALSE
    /\ moduleTypes = {} /\ api = {} /\ types = {} /\ ready = {}
    /\ classHierarchy = <<>> /\ discovery = {}
    /\ resolvers = [n \in {} |-> Nil] /\ behaviour = [c \in Class |-> 0]
    /\ enums = {} /\ count = [x \in Item |-> 0]
    /\ refs = [x \in Item |-> 0] /\ made = {}

Next ==
    \/ Import \/ RequireLoads \/ RequireFound \/ RequireFails
    \/ Create \/ Register \/ Finish
    \/ ClassCrashes \/ ClassUnready \/ ClassReady \/ GlobalEnum
    \/ ToPython \/ TpNew \/ Release

Spec == Init /\ [][Next]_vars

-----------------------------------------------------------------------------
(* Properties.                                                             *)

\* The tables hold what they are for, and initialisations that wait for others
\* are of modules not loaded yet.
TypeOK ==
    /\ process \in {"running", "aborted", "crashed"}
    /\ module \in [Module -> {"absent", "created", "loaded"}]
    /\ \A i \in DOMAIN imports :
           imports[i].mod \in Module /\ imports[i].pc \in Nat /\ module[imports[i].mod] # "loaded"
    /\ pending \in BOOLEAN /\ moduleTypes \subseteq Module /\ api \subseteq Module \X Module
    /\ ready \subseteq types /\ types \subseteq Class /\ discovery \subseteq ready
    /\ RangeOf(classHierarchy) \subseteq Class \X Class
    /\ RangeOf(resolvers) \subseteq Class \cup {"int"} /\ behaviour \in [Class -> -2..1]
    /\ enums \subseteq Enum /\ count \in [Item -> Int] /\ refs \in [Item -> 0..MaxRefs]

\* The types are right, and in whatever order modules are imported and whatever
\* fails, Python code only has modules that it can use: all their classes and the bases of these are
\* ready, and their types can be found by modules that require them; every name
\* of a ready class leads to it, and its behaviour is that of its kind, which
\* decides whether it can be owned by C++ (the note in createTypeResolver).
TypesFound ==
    /\ TypeOK
    /\ \A m \in Module : module[m] = "loaded" =>
           /\ m \in moduleTypes /\ \A r \in RangeOf(Requires[m]) : <<m, r>> \in api
           /\ RangeOf(Order[m]) \subseteq ready
    /\ \A c \in ready :
           /\ RangeOf(Bases[c]) \subseteq ready
           /\ \A n \in RangeOf(RegisterType(c)) : resolvers[n] = c
           /\ behaviour[c] = BEHAVIOUR_VALUETYPE <=> c \in ValueType

\* The wrapper of a C++ object is of the most derived of the classes of the
\* object that are ready, also while its own module is not imported or is half
\* initialised, when C++ code has it as a polymorphic root of its hierarchy;
\* it is never of a class that the object is not of.
ObjectsTyped ==
    \A base \in ready : \A x \in {y \in Class \cup Hidden : base \in Ancestors[y]} :
        LET type == NewObjectType(x, base) IN
        /\ type \in ready \cap Ancestors[x] /\ base \in Ancestors[type]
        /\ base \in Polymorphic /\ Bases[base] = <<>> =>
               ~ \E c \in ready \cap Ancestors[x] : c # type /\ type \in Ancestors[c]

\* An item lives as long as Python code has references to it, and beyond, as
\* the dictionaries lead to it; a new object of an enum has the name of an item
\* of its value when there is one.
ItemsLive ==
    /\ \A e \in enums : \A x \in Items(e) : count[x] > refs[x]
    /\ \A o \in made :
           IF WithValue(o.enum, o.value) = {} THEN o.name = Nil
           ELSE o.name \in WithValue(o.enum, o.value)
=============================================================================
