--------------------------- MODULE BindingManager ---------------------------
(***************************************************************************)
(* Shiboken::BindingManager and the instances it maps: wrappers of classes *)
(* with several C++ bases, which are registered under the address of every *)
(* base, Python classes that inherit from several C++ classes, which have  *)
(* one C++ instance for each, their constructors and destructors, and the  *)
(* teardown of the map (libshiboken/bindingmanager.cpp).                   *)
(* Families, reference counts and threads are in ObjectLifetime.           *)
(***************************************************************************)
EXTENDS Integers, Sequences, SequencesExt, FiniteSets

CONSTANTS
    Obj,            \* wrappers
    Nil,
    Class,          \* wrapped C++ classes
    CppBases,       \* [Class -> Seq(Class)]: their bases, in order
    Shift,          \* Shift[c][b]: where b begins in an instance of c
    Extent,         \* [Class -> Nat]: the size of an instance
    Shells,         \* classes with a generated C++ wrapper class
    Polymorphic,    \* classes with virtual methods
    PyClass,        \* classes written in Python
    Bases,          \* [PyClass -> sequence of classes and Python classes]
    Used,           \* bound: the types the program makes instances of
    Starts,         \* addresses that operator new returns
    MaxAddr,        \* bound: the last address
    Tags,           \* misuses and coincidences the instance allows
    MaxCtors        \* bound: constructors in progress

AllTags ==
    {"reset",               \* a derived type loses its offsets with instances alive
     "base-init",           \* Base.__init__ of an instance of a wrapped class
     "second-base"}         \* native instances returned by a base that is not the first

Type == Class \cup PyClass
Addr == 0..MaxAddr

ASSUME BindingManagerAssumption ==
    /\ Nil \notin Obj \cup Class /\ Class \cap PyClass = {}
    /\ CppBases \in [Class -> Seq(Class)] /\ Extent \in [Class -> 1..MaxAddr]
    /\ Shells \subseteq Class /\ Polymorphic \subseteq Class
    /\ Bases \in [PyClass -> Seq(Type)] /\ Used \subseteq Type
    /\ MaxAddr \in Nat /\ Starts \subseteq 1..MaxAddr /\ MaxCtors \in Nat
    /\ Tags \subseteq AllTags

\* SbkObjectTypePrivate, SbkObject, and instances of C++ classes.
TypeData ==
    [miInit : Class \cup {Nil}, miOffsets : Class \cup {Nil}, cast : Class \cup {Nil},
     isMulticpp : BOOLEAN]
Wrapper ==
    [type : Type, cptr : Seq(Addr), valid : BOOLEAN, created : BOOLEAN, owns : BOOLEAN]
CppInstance == [class : Class, shell : BOOLEAN, hidden : BOOLEAN]

\* A null pointer is none of them.
ASSUME NilAssumption == Nil \notin TypeData \cup Wrapper \cup CppInstance

VARIABLES
    typeData,         \* SbkObjectTypePrivate of each type, Nil before it exists
    wrapperMapper,    \* the wrapper registered at each address
    wrapper,          \* the wrappers: Nil when there is none
    cpp,              \* the C++ instance that begins at each address
    dying,            \* addresses a deallocation still has to delete
    ctors,            \* constructors in progress: <<wrapper, class>>
    destroying,       \* ~BindingManager runs
    fault             \* undefined behaviour

managerVars ==
    <<typeData, wrapperMapper, wrapper, cpp, dying, ctors, destroying, fault>>

-----------------------------------------------------------------------------
(* The classes.                                                            *)

BasesOf(t) == IF t \in Class THEN CppBases[t] ELSE Bases[t]

TypeAncestors[t \in Type] ==
    ToSet(BasesOf(t)) \cup UNION {TypeAncestors[b] : b \in ToSet(BasesOf(t))}

\* PyType_IsSubtype.
IsSubtype(t, u) == t = u \/ u \in TypeAncestors[t]

\* walkThroughClassHierarchy: the C++ classes of a Python class, each time one
\* is met.
Walk[t \in PyClass] ==
    FlattenSeq([i \in 1..Len(Bases[t]) |->
                    IF Bases[t][i] \in PyClass THEN Walk[Bases[t][i]] ELSE <<Bases[t][i]>>])

\* getMultipleInheritingClass: the first class on the way up with several bases.
MultipleInheriting[c \in Class] ==
    IF CppBases[c] = <<>> THEN Nil
    ELSE IF Len(CppBases[c]) > 1 THEN c
    ELSE MultipleInheriting[Head(CppBases[c])]

\* What the initializer of a class writes in mi_offsets: the distance of every
\* ancestor, and that of every base within the class that inherits from it as
\* if that class began at the start.
Offsets(c) ==
    ({Shift[c][b] : b \in TypeAncestors[c]}
        \cup UNION {{Shift[l][b] : b \in ToSet(CppBases[l])} : l \in TypeAncestors[c]}) \ {0}

GeneratedType(c) ==
    [miInit |-> MultipleInheriting[c], miOffsets |-> Nil,
     cast |-> IF MultipleInheriting[c] = Nil THEN Nil ELSE c, isMulticpp |-> FALSE]

\* SbkObjectTypeTpNew: a class with one C++ base has the data of its base.
SubType(t) ==
    IF Len(Walk[t]) = 1
    THEN typeData[Head(Walk[t])]
    ELSE [miInit |-> Nil, miOffsets |-> Nil, cast |-> Nil, isMulticpp |-> TRUE]

\* Mutant: all the data of the class is copied.
CopiedAll(t, c) == [typeData EXCEPT ![t] = typeData[c]]

\* copyMultimpleheritance.
CopiedFrom(t, c) ==
    [typeData EXCEPT ![t].miInit = typeData[c].miInit,
                     ![t].miOffsets = typeData[c].miOffsets,
                     ![t].cast = typeData[c].cast]

\* A class has a finite number of ancestors, which are classes, and a Python
\* class inherits from some class.
ASSUME HierarchyAssumption ==
    /\ TypeAncestors \in [Type -> SUBSET Type] /\ \A c \in Class : TypeAncestors[c] \subseteq Class
    /\ MultipleInheriting \in [Class -> Class \cup {Nil}]
    /\ \A t \in PyClass : Walk[t] \in Seq(Class) \ {<<>>}

\* Instances are in memory, and the parts of an instance are in it.
ASSUME LayoutAssumption ==
    \A c \in Class :
        /\ \A s \in Starts : s + Extent[c] - 1 \in Addr
        /\ \A b \in {c} \cup TypeAncestors[c] : Shift[c][b] \in 0..Extent[c] - 1

-----------------------------------------------------------------------------
(* Wrappers.                                                               *)

\* getNumberOfCppBaseClasses; SbkObjectTpNew has a pointer for each.
NumBases(t) == IF typeData[t].isMulticpp THEN Len(Walk[t]) ELSE 1

\* getTypeIndexOnHierarchy: the first class that is a c, otherwise the last one.
IndexFor(t, c) ==
    IF ~typeData[t].isMulticpp THEN 1
    ELSE Min({Len(Walk[t])} \cup {i \in DOMAIN Walk[t] : IsSubtype(Walk[t][i], c)})

\* The function that writeSpecialCastFunction writes for the class source.
SpecialCast(source, c, ptr) ==
    IF c \in TypeAncestors[source] THEN ptr + Shift[source][c] ELSE ptr

\* Mutant: the pointer is not cast.
ToCppUncast(o, c) == wrapper[o].cptr[IndexFor(wrapper[o].type, c)]

\* The pointer for c of a wrapper; where its type has one, the cast of multiple
\* inheritance.
CppPointer(o, c) == wrapper[o].cptr[IndexFor(wrapper[o].type, c)]

\* ObjectTypeConverter::toCpp.
ToCpp(o, c) ==
    LET source == typeData[wrapper[o].type].cast
    IN  IF source = Nil THEN CppPointer(o, c) ELSE SpecialCast(source, c, CppPointer(o, c))

NewWrapper(t) ==
    [type |-> t, cptr |-> [i \in 1..NumBases(t) |-> 0], valid |-> FALSE,
     created |-> FALSE, owns |-> TRUE]

\* Where an instance of c at p is registered for a wrapper of type t, given the
\* offsets of the type.
WithOffsets(data, t, p) ==
    {p} \cup (IF data[t].miOffsets = Nil THEN {}
              ELSE {p + off : off \in Offsets(data[t].miOffsets)})

\* registerWrapper: the offsets are computed when the first instance of a type
\* is registered.
Initialized(data, t) ==
    IF data[t].miInit # Nil /\ data[t].miOffsets = Nil
    THEN [data EXCEPT ![t].miOffsets = data[t].miInit] ELSE data

\* Mutant: the address of the instance only.
AssignedFirst(data, o, t, p) ==
    [a \in Addr |-> IF a = p /\ wrapperMapper[a] = Nil THEN o ELSE wrapperMapper[a]]

\* assignWrapper leaves the entries that are there.
Assigned(data, o, t, p) ==
    [a \in Addr |->
        IF a \in WithOffsets(data, t, p) /\ wrapperMapper[a] = Nil THEN o ELSE wrapperMapper[a]]

RegisterWrapper(o, t, p) ==
    LET data == Initialized(typeData, t) IN
    /\ typeData' = data
    /\ wrapperMapper' = Assigned(data, o, t, p)

\* The addresses releaseWrapper erases, whatever wrapper they lead to.
AddressesOf(o) ==
    UNION {WithOffsets(typeData, wrapper[o].type, wrapper[o].cptr[i]) :
               i \in DOMAIN wrapper[o].cptr}

\* Mutant: the addresses of the first C++ instance.
ReleasedFirst(o) ==
    [a \in Addr |-> IF \E i \in DOMAIN wrapper[o].cptr \cap {1} :
                           a \in WithOffsets(typeData, wrapper[o].type, wrapper[o].cptr[i])
                    THEN Nil ELSE wrapperMapper[a]]

\* releaseWrapper.
Released(o) ==
    [a \in Addr |-> IF a \in AddressesOf(o) THEN Nil ELSE wrapperMapper[a]]

-----------------------------------------------------------------------------
(* C++ instances.                                                          *)

Live(s) == cpp[s] # Nil
Occupied(s) == s..s + Extent[cpp[s].class] - 1

\* Room for an instance of c.
Vacant(c) ==
    {s \in Starts : \A r \in Starts : Live(r) => Occupied(r) \cap s..s + Extent[c] - 1 = {}}

Instance(c, shell, hidden) == [class |-> c, shell |-> shell, hidden |-> hidden]

\* Mutant: the teardown destroys the wrappers and keeps their addresses.
DestroyedMapped(o, p) ==
    IF o # Nil /\ wrapperMapper[p] # Nil
    THEN /\ wrapperMapper' = IF destroying THEN wrapperMapper ELSE Released(o)
         /\ wrapper' = [wrapper EXCEPT ![o].cptr = <<>>, ![o].valid = FALSE, ![o].owns = FALSE]
    ELSE UNCHANGED <<wrapperMapper, wrapper>>

\* The part of Object::destroy that concerns the map, called for address p.
Destroyed(o, p) ==
    IF o # Nil /\ wrapperMapper[p] # Nil
    THEN /\ wrapperMapper' = Released(o)
         /\ wrapper' = [wrapper EXCEPT ![o].cptr = <<>>, ![o].valid = FALSE, ![o].owns = FALSE]
    ELSE UNCHANGED <<wrapperMapper, wrapper>>

\* The end of an instance: the destructor of a shell looks for its wrapper.
Deleted(s) ==
    /\ IF cpp[s].shell THEN Destroyed(wrapperMapper[s], s)
       ELSE UNCHANGED <<wrapperMapper, wrapper>>
    /\ cpp' = [cpp EXCEPT ![s] = Nil]

-----------------------------------------------------------------------------
(* Operations.                                                             *)

Running == ~destroying /\ ~fault
Alive(o) == wrapper[o] # Nil

\* A class statement of Python.
DefineType(t) ==
    /\ Running
    /\ typeData[t] = Nil
    /\ \A u \in TypeAncestors[t] : typeData[u] # Nil
    /\ typeData' = [typeData EXCEPT ![t] = SubType(t)]
    /\ UNCHANGED <<wrapperMapper, wrapper, cpp, dying, ctors, destroying, fault>>

\* Calling a type: tp_new.
New(o, t) ==
    /\ Running
    /\ ~Alive(o)
    /\ typeData[t] # Nil
    /\ wrapper' = [wrapper EXCEPT ![o] = NewWrapper(t)]
    /\ UNCHANGED <<typeData, wrapperMapper, cpp, dying, ctors, destroying, fault>>

\* Whether a constructor of c takes the offsets of the type t away while there
\* are instances registered with them.
TakesOffsets(t, c) ==
    /\ typeData[t].miOffsets \notin {Nil, typeData[c].miOffsets}
    /\ \E o \in Obj : Alive(o) /\ wrapper[o].type = t /\ \E i \in DOMAIN wrapper[o].cptr : wrapper[o].cptr[i] # 0

CanCallConstructor(t, c) == c \in ToSet(Walk[t])

\* c.__init__(o), up to the conversion of the arguments, which may run any
\* Python code.
CtorBegin(o, c) ==
    /\ Running
    /\ Alive(o) /\ Cardinality(ctors) < MaxCtors
    /\ LET t == wrapper[o].type
           copies == Len(CppBases[c]) > 1 /\ t # c
       IN
       /\ IsSubtype(t, c)
       /\ t \in Class \ {c} => "base-init" \in Tags
       /\ copies /\ TakesOffsets(t, c) => "reset" \in Tags
       /\ typeData' = IF copies THEN CopiedFrom(t, c) ELSE typeData
       /\ ctors' = IF t \in PyClass /\ ~CanCallConstructor(t, c) THEN ctors
                   ELSE ctors \cup {<<o, c>>}
    /\ UNCHANGED <<wrapperMapper, wrapper, cpp, dying, destroying, fault>>

\* No overload accepts the arguments.
CtorFails(o, c) ==
    /\ Running
    /\ <<o, c>> \in ctors
    /\ ctors' = ctors \ {<<o, c>>}
    /\ UNCHANGED <<typeData, wrapperMapper, wrapper, cpp, dying, destroying, fault>>

\* setCppPointer on a wrapper whose instance C++ deleted, before the constructor
\* or during it, follows a null pointer.
CtorOfDestroyed(o, c) ==
    /\ Running
    /\ <<o, c>> \in ctors
    /\ wrapper[o].cptr = <<>>
    /\ fault' = TRUE
    /\ UNCHANGED <<typeData, wrapperMapper, wrapper, cpp, dying, ctors, destroying>>

AlreadyInitialized(o, c) == wrapper[o].cptr[IndexFor(wrapper[o].type, c)] # 0

\* The instance is made and then deleted, because an exception is set or the
\* wrapper has an instance of the class: the shell's destructor looks for a
\* wrapper at its address.
CtorRefused(o, c, s) ==
    /\ Running
    /\ <<o, c>> \in ctors
    /\ s \in Vacant(c) /\ wrapper[o].cptr # <<>>
    /\ LET found == IF c \in Shells THEN wrapperMapper[s] ELSE Nil
           marked == [wrapper EXCEPT ![o].created = @ \/ AlreadyInitialized(o, c)]
       IN  IF found = Nil
           THEN wrapper' = marked /\ UNCHANGED wrapperMapper
           ELSE /\ wrapperMapper' = Released(found)
                /\ wrapper' = [marked EXCEPT ![found].cptr = <<>>, ![found].valid = FALSE,
                                             ![found].owns = FALSE]
    /\ ctors' = ctors \ {<<o, c>>}
    /\ UNCHANGED <<typeData, cpp, dying, destroying, fault>>

CtorSucceeds(o, c, s) ==
    /\ Running
    /\ <<o, c>> \in ctors
    /\ s \in Vacant(c) /\ wrapper[o].cptr # <<>>
    /\ ~AlreadyInitialized(o, c)
    /\ LET t == wrapper[o].type IN
       /\ wrapper' = [wrapper EXCEPT ![o].cptr[IndexFor(t, c)] = s,
                                     ![o].created = TRUE, ![o].valid = TRUE]
       /\ RegisterWrapper(o, t, s)
    /\ cpp' = [cpp EXCEPT ![s] = Instance(c, c \in Shells, FALSE)]
    /\ ctors' = ctors \ {<<o, c>>}
    /\ UNCHANGED <<dying, destroying, fault>>

\* tp_dealloc.  A wrapper with several instances deletes them one by one, each
\* without the GIL, after it is freed (DtorCallerVisitor).
Dealloc(o) ==
    /\ Running
    /\ Alive(o) /\ \A c \in Class : <<o, c>> \notin ctors
    /\ wrapperMapper' = Released(o)
    /\ wrapper' = [wrapper EXCEPT ![o] = Nil]
    /\ dying' = IF wrapper[o].owns /\ wrapper[o].valid
                THEN dying \cup (ToSet(wrapper[o].cptr) \ {0}) ELSE dying
    /\ UNCHANGED <<typeData, cpp, ctors, destroying, fault>>

CppDtor(s) ==
    /\ s \in dying \cap Starts
    /\ Deleted(s)
    /\ dying' = dying \ {s}
    /\ UNCHANGED <<typeData, ctors, destroying, fault>>

\* C++ code makes an instance, perhaps of a class that derives from c and is
\* not wrapped.
CppNew(s, c, hidden) ==
    /\ Running
    /\ s \in Vacant(c)
    /\ hidden => c \in Polymorphic
    /\ cpp' = [cpp EXCEPT ![s] = Instance(c, FALSE, hidden)]
    /\ UNCHANGED <<typeData, wrapperMapper, wrapper, dying, ctors, destroying, fault>>

\* C++ code deletes an instance: a shell tells its wrapper, an instance without
\* one is not deleted while Python has a valid wrapper for it.
CppDelete(s) ==
    /\ Running
    /\ s \notin dying /\ Live(s)
    /\ ~cpp[s].shell => \A o \in Obj : Alive(o) /\ wrapper[o].valid => s \notin ToSet(wrapper[o].cptr)
    /\ Deleted(s)
    /\ UNCHANGED <<typeData, dying, ctors, destroying, fault>>

-----------------------------------------------------------------------------
(* Finding the type of an instance that C++ returns.                       *)

Children(c) == {d \in Class : c \in ToSet(CppBases[d])}
Roots(d) == {r \in TypeAncestors[d] : CppBases[r] = <<>>}

\* The type discovery function of d, given a pointer of static type c to the
\* instance s, by dynamic_cast.
Discovers(d, c, s) ==
    /\ CppBases[d] # <<>> /\ c \in Roots(d) \cap Polymorphic
    /\ IsSubtype(cpp[s].class, d)

\* The types Graph::identifyType may find: it asks the children of a class first,
\* so none is an ancestor of another that claims the instance.
Identified(c, s) ==
    LET found == {d \in Class : IsSubtype(d, c) /\ Discovers(d, c, s)}
    IN  {d \in found : \A e \in found : d \notin TypeAncestors[e]}

\* newObject: the type by the name of the dynamic type, which is registered
\* unless it is hidden, or else by resolveType, which also moves the pointer to
\* the beginning of the type it finds.
Resolved(c, s) ==
    LET here == s + Shift[cpp[s].class][c] IN
    IF c \notin Polymorphic THEN {<<c, here>>}
    ELSE IF ~cpp[s].hidden THEN {<<cpp[s].class, here>>}
    ELSE IF Identified(c, s) = {} THEN {<<c, here>>}
    ELSE {<<d, s + Shift[cpp[s].class][d]>> : d \in Identified(c, s)}

\* ObjectTypeConverter::toPython of a pointer to a c that has no wrapper.
Return(o, s, c) ==
    /\ Running
    /\ ~Alive(o)
    /\ Live(s) /\ s \notin dying /\ ~cpp[s].shell
    /\ IsSubtype(cpp[s].class, c)
    /\ wrapperMapper[s + Shift[cpp[s].class][c]] = Nil
    /\ \E r \in Resolved(c, s) :
          /\ r[2] # s + Shift[cpp[s].class][r[1]] => "second-base" \in Tags
          /\ wrapper' = [wrapper EXCEPT ![o] =
                [NewWrapper(r[1]) EXCEPT !.cptr[1] = r[2], !.valid = TRUE, !.owns = FALSE]]
          /\ RegisterWrapper(o, r[1], r[2])
    /\ UNCHANGED <<cpp, dying, ctors, destroying, fault>>

-----------------------------------------------------------------------------
(* Teardown.                                                               *)

\* Static destruction, at the end of the program.
Exit ==
    /\ Running
    /\ ctors = {} /\ dying = {}
    /\ destroying' = TRUE
    /\ UNCHANGED <<typeData, wrapperMapper, wrapper, cpp, dying, ctors, fault>>

\* ~BindingManager destroys what its iterator shows first until nothing is left.
Teardown ==
    /\ destroying
    /\ \E a \in Addr :
          /\ wrapperMapper[a] # Nil
          /\ Destroyed(wrapperMapper[a], a)
    /\ UNCHANGED <<typeData, cpp, dying, ctors, destroying, fault>>

Init ==
    /\ typeData = [t \in Type |-> IF t \in Class THEN GeneratedType(t) ELSE Nil]
    /\ wrapperMapper = [a \in Addr |-> Nil]
    /\ wrapper = [o \in Obj |-> Nil]
    /\ cpp = [s \in Starts |-> Nil]
    /\ dying = {}
    /\ ctors = {}
    /\ destroying = FALSE
    /\ fault = FALSE

Next ==
    \/ \E t \in PyClass : DefineType(t)
    \/ \E o \in Obj :
          \/ \E t \in Used : New(o, t)
          \/ Dealloc(o)
          \/ \E c \in Class :
                \/ CtorBegin(o, c) \/ CtorFails(o, c) \/ CtorOfDestroyed(o, c)
                \/ \E s \in Starts : CtorRefused(o, c, s) \/ CtorSucceeds(o, c, s) \/ Return(o, s, c)
    \/ \E s \in Starts :
          \/ CppDtor(s) \/ CppDelete(s)
          \/ \E c \in Class \cap Used, hidden \in BOOLEAN : CppNew(s, c, hidden)
    \/ Exit \/ Teardown

\* The loop of the teardown is left to nothing else.
Spec == Init /\ [][Next]_managerVars /\ WF_managerVars(Teardown)

-----------------------------------------------------------------------------
(* Properties.                                                             *)

TypeOK ==
    /\ typeData \in [Type -> TypeData \cup {Nil}] /\ \A c \in Class : typeData[c] # Nil
    /\ wrapperMapper \in [Addr -> Obj \cup {Nil}]
    /\ wrapper \in [Obj -> Wrapper \cup {Nil}]
    /\ \A o \in Obj : Alive(o) => Len(wrapper[o].cptr) \in {0, NumBases(wrapper[o].type)}
    /\ cpp \in [Starts -> CppInstance \cup {Nil}]
    /\ dying \subseteq Addr /\ ctors \subseteq Obj \X Class
    /\ fault \in BOOLEAN /\ destroying \in BOOLEAN

\* Every address in the map leads to a wrapper that is alive and that will erase
\* the address when it is released, so that toPython never touches a freed
\* wrapper and the teardown comes to an end, whatever the order in which classes
\* are defined, constructors run, fail or run again, and instances die.
MapSound ==
    \A a \in Addr : wrapperMapper[a] # Nil =>
        /\ Alive(wrapperMapper[a])
        /\ a \in AddressesOf(wrapperMapper[a])

\* No address in the map leads to a freed wrapper: toPython increments the count
\* of what it finds there.
EntriesAlive == \A a \in Addr : wrapperMapper[a] # Nil => Alive(wrapperMapper[a])

\* A pointer to any base of an instance that a valid wrapper holds leads back to
\* this wrapper, also for a Python class with several C++ instances (the casts
\* of tests/samplebinding/multiple_derived_test.py).
EveryBaseFound ==
    \A o \in Obj : Alive(o) /\ wrapper[o].valid =>
        \A s \in ToSet(wrapper[o].cptr) \cap Starts :
            \A b \in {cpp[s].class} \cup TypeAncestors[cpp[s].class] :
                wrapperMapper[s + Shift[cpp[s].class][b]] = o

\* The pointer that a binding function of class c gets from a wrapper, by the
\* index of the class and the cast of multiple inheritance, points to the part c
\* of a live instance, once the constructor for it has run.
CppPointerFits ==
    \A o \in Obj, c \in Class :
        Alive(o) /\ wrapper[o].valid /\ IsSubtype(wrapper[o].type, c)
            /\ wrapper[o].cptr[IndexFor(wrapper[o].type, c)] # 0 =>
        \E s \in Starts :
            /\ Live(s) /\ IsSubtype(cpp[s].class, c)
            /\ ToCpp(o, c) = s + Shift[cpp[s].class][c]

\* Each destroy of the teardown leaves less in the map: it erases at least the
\* address it is called for, computed anew from the wrapper and its type, and
\* nothing registers an address any more.  A step that erases nothing would be
\* repeated for ever by the loop of ~BindingManager.
Registered == {a \in Addr : wrapperMapper[a] # Nil}
TeardownShrinks ==
    [][destroying => Registered' \subseteq Registered /\ Registered' # Registered]_managerVars

\* The teardown of the map ends: each destroy removes the address it is called
\* for, with the others of its wrapper.
TeardownEnds == destroying ~> (\A a \in Addr : wrapperMapper[a] = Nil)
=============================================================================
