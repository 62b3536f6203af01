------------------------ MODULE BindingManagerProofs ------------------------
(***************************************************************************)
(* The map of BindingManager is sound and its teardown always gets on, for *)
(* every class hierarchy, layout and number of wrappers.                   *)
(***************************************************************************)
EXTENDS BindingManager, FiniteSetTheorems, TLAPS

-----------------------------------------------------------------------------
(* The inductive invariant.                                                *)

\* A type has the C++ classes of the walk, and tells whether there are several.
Shape ==
    \A t \in Type : typeData[t] # Nil =>
        (typeData[t].isMulticpp <=> t \in PyClass /\ Len(Walk[t]) # 1)

\* Wrappers are of types that exist, and constructors run on wrappers that do.
InUse ==
    /\ \A o \in Obj : Alive(o) => typeData[wrapper[o].type] # Nil
    /\ \A o \in Obj, c \in Class : <<o, c>> \in ctors => Alive(o)

\* The address is one that an instance of the wrapper is registered under: null
\* pointers do not count, as the offsets of a type may still change while its
\* wrappers have no instance.
Holds(o, a) ==
    \E i \in DOMAIN wrapper[o].cptr :
        wrapper[o].cptr[i] # 0 /\ a \in WithOffsets(typeData, wrapper[o].type, wrapper[o].cptr[i])

\* The wrappers are of types that exist and have a pointer for each instance.
WrappersFit ==
    /\ wrapper \in [Obj -> Wrapper \cup {Nil}]
    /\ \A o \in Obj : Alive(o) =>
          /\ Len(wrapper[o].cptr) \in {0, NumBases(wrapper[o].type)}
          /\ typeData[wrapper[o].type] # Nil

\* Every address in the map leads to a wrapper that has an instance there.
MapHeld ==
    \A a \in Addr : wrapperMapper[a] # Nil =>
        Alive(wrapperMapper[a]) /\ Holds(wrapperMapper[a], a)

Inv == TypeOK /\ Shape /\ InUse /\ MapHeld

-----------------------------------------------------------------------------
(* Operators.                                                              *)

\* A set of natural numbers that is not empty has a least one.
LEMMA MinIn ==
    ASSUME NEW S, S \subseteq Nat, S # {}
    PROVE  Min(S) \in S
<1> DEFINE T == {1..x : x \in S}
<1>1. T \subseteq FiniteSubsetsOf(Nat)
  <2> SUFFICES ASSUME NEW x \in S
               PROVE  1..x \in FiniteSubsetsOf(Nat)
    OBVIOUS
  <2> QED BY FS_Interval DEF FiniteSubsetsOf
<1>2. T # {}
  OBVIOUS
<1>3. PICK m \in T : \A n \in T : <<n, m>> \notin StrictSubsetOrdering(Nat)
  <2> HIDE DEF T
  <2> QED BY <1>1, <1>2, FS_StrictSubsetOrderingWellFounded, WFMin
<1>4. PICK x \in S : m = 1..x
  BY <1>3
<1>5. ASSUME NEW y \in S
      PROVE  x <= y
  <2>1. 1..y \in T
    BY <1>5
  <2>2. ~(1..y \subseteq 1..x /\ 1..y # 1..x)
    <3>1. <<1..y, 1..x>> \notin StrictSubsetOrdering(Nat)
      BY <2>1, <1>3, <1>4
    <3>2. 1..y \in SUBSET Nat /\ 1..x \in SUBSET Nat
      OBVIOUS
    <3> QED BY <3>1, <3>2 DEF StrictSubsetOrdering
  <2>3. ASSUME y < x
        PROVE  FALSE
    <3>1. 1..y \subseteq 1..x /\ x \in 1..x /\ x \notin 1..y
      BY <2>3
    <3> QED BY <3>1, <2>2
  <2> QED BY <2>3
<1> QED BY <1>5 DEF Min

\* getTypeIndexOnHierarchy finds one of the pointers of a wrapper.
LEMMA IndexType ==
    ASSUME TypeOK, Shape, NEW t \in Type, typeData[t] # Nil, NEW c \in Class
    PROVE  NumBases(t) \in Nat \ {0} /\ IndexFor(t, c) \in 1..NumBases(t)
<1>1. CASE ~typeData[t].isMulticpp
  BY <1>1 DEF NumBases, IndexFor
<1>2. CASE typeData[t].isMulticpp
  <2>1. t \in PyClass /\ Walk[t] \in Seq(Class) /\ Walk[t] # <<>>
    BY <1>2, HierarchyAssumption DEF Shape
  <2>2. Len(Walk[t]) \in Nat \ {0} /\ DOMAIN Walk[t] = 1..Len(Walk[t])
    BY <2>1
  <2> DEFINE S == {Len(Walk[t])} \cup {i \in DOMAIN Walk[t] : IsSubtype(Walk[t][i], c)}
  <2>3. S \subseteq 1..Len(Walk[t]) /\ S # {}
    BY <2>2
  <2>4. Min(S) \in S
    <3>1. S \subseteq Nat
      BY <2>2, <2>3
    <3> HIDE DEF S
    <3> QED BY <3>1, <2>3, MinIn
  <2>5. IndexFor(t, c) = Min(S) /\ NumBases(t) = Len(Walk[t])
    BY <1>2 DEF IndexFor, NumBases
  <2> HIDE DEF S
  <2> QED BY <2>2, <2>3, <2>4, <2>5
<1> QED BY <1>1, <1>2

\* What SbkObjectTpNew makes is a wrapper without instances.
LEMMA NewWrapperType ==
    ASSUME TypeOK, Shape, NEW t \in Type, typeData[t] # Nil
    PROVE  /\ NewWrapper(t) \in Wrapper /\ NewWrapper(t).type = t
           /\ Len(NewWrapper(t).cptr) = NumBases(t)
           /\ \A i \in DOMAIN NewWrapper(t).cptr : NewWrapper(t).cptr[i] = 0
<1>1. NumBases(t) \in Nat
  <2>1. CASE t \in PyClass
    BY <2>1, HierarchyAssumption DEF NumBases
  <2>2. CASE t \in Class
    BY <2>2, BindingManagerAssumption DEF NumBases, Shape
  <2> QED BY <2>1, <2>2 DEF Type
<1>2. 0 \in Addr
  BY BindingManagerAssumption DEF Addr
<1> QED BY <1>1, <1>2 DEF NewWrapper, Wrapper

\* Registering an instance gives a map of wrappers.
LEMMA AssignedType ==
    ASSUME TypeOK, NEW o \in Obj, NEW data, NEW t, NEW p
    PROVE  Assigned(data, o, t, p) \in [Addr -> Obj \cup {Nil}]
BY DEF TypeOK, Assigned

\* Computing the offsets of a type changes nothing else, and adds addresses.
LEMMA InitializedType ==
    ASSUME TypeOK, NEW t \in Type, typeData[t] # Nil
    PROVE  /\ Initialized(typeData, t) \in [Type -> TypeData \cup {Nil}]
           /\ \A u \in Type :
                 /\ Initialized(typeData, t)[u] = Nil <=> typeData[u] = Nil
                 /\ typeData[u] # Nil =>
                        Initialized(typeData, t)[u].isMulticpp = typeData[u].isMulticpp
                 /\ \A p : WithOffsets(typeData, u, p)
                               \subseteq WithOffsets(Initialized(typeData, t), u, p)
<1>1. typeData \in [Type -> TypeData \cup {Nil}] /\ typeData[t] \in TypeData
  BY DEF TypeOK
<1>2. CASE Initialized(typeData, t) = typeData
  BY <1>1, <1>2
<1>3. CASE /\ Initialized(typeData, t) = [typeData EXCEPT ![t].miOffsets = typeData[t].miInit]
           /\ typeData[t].miOffsets = Nil
  <2> DEFINE d == [typeData[t] EXCEPT !.miOffsets = typeData[t].miInit]
  <2>1. d \in TypeData /\ d.isMulticpp = typeData[t].isMulticpp
    BY <1>1 DEF TypeData
  <2>2. Initialized(typeData, t) = [typeData EXCEPT ![t] = d]
    BY <1>1, <1>3
  <2>3. d # Nil
    BY <2>1, NilAssumption
  <2> HIDE DEF d
  <2>4. \A u \in Type : Initialized(typeData, t)[u] = IF u = t THEN d ELSE typeData[u]
    BY <2>2, <1>1
  <2>5. Initialized(typeData, t) \in [Type -> TypeData \cup {Nil}]
    BY <2>1, <2>2, <1>1
  <2>6. \A u \in Type : \A p : WithOffsets(typeData, u, p)
                               \subseteq WithOffsets(Initialized(typeData, t), u, p)
    BY <2>4, <1>3 DEF WithOffsets
  <2> QED BY <2>1, <2>3, <2>4, <2>5, <2>6
<1> QED BY <1>2, <1>3 DEF Initialized

\* A wrapper whose instances C++ deleted is a wrapper.
LEMMA EmptiedType ==
    ASSUME NEW w \in Wrapper
    PROVE  /\ [w EXCEPT !.cptr = <<>>, !.valid = FALSE, !.owns = FALSE] \in Wrapper
           /\ [w EXCEPT !.cptr = <<>>, !.valid = FALSE, !.owns = FALSE].type = w.type
           /\ [w EXCEPT !.cptr = <<>>, !.valid = FALSE, !.owns = FALSE].cptr = <<>>
<1> DEFINE e == <<>>
<1>1. e \in Seq(Addr)
  OBVIOUS
<1> HIDE DEF e
<1>2. /\ [w EXCEPT !.cptr = e, !.valid = FALSE, !.owns = FALSE] \in Wrapper
      /\ [w EXCEPT !.cptr = e, !.valid = FALSE, !.owns = FALSE].type = w.type
      /\ [w EXCEPT !.cptr = e, !.valid = FALSE, !.owns = FALSE].cptr = e
  BY <1>1 DEF Wrapper
<1> QED BY <1>2 DEF e

\* releaseWrapper only erases, and leaves no address of the wrapper.
LEMMA ReleasedErases ==
    ASSUME TypeOK, MapHeld, NEW o \in Obj
    PROVE  /\ Released(o) \in [Addr -> Obj \cup {Nil}]
           /\ \A a \in Addr : Released(o)[a] # Nil =>
                  Released(o)[a] = wrapperMapper[a] /\ wrapperMapper[a] # o
<1>1. Released(o) \in [Addr -> Obj \cup {Nil}]
  BY DEF TypeOK, Released
<1>2. ASSUME NEW a \in Addr, Released(o)[a] # Nil
      PROVE  Released(o)[a] = wrapperMapper[a] /\ wrapperMapper[a] # o
  <2>1. a \notin AddressesOf(o) /\ Released(o)[a] = wrapperMapper[a]
    BY <1>2 DEF Released
  <2>2. ~Holds(o, a)
    BY <2>1 DEF AddressesOf, Holds
  <2> QED BY <2>1, <2>2, <1>2 DEF MapHeld
<1> QED BY <1>1, <1>2

-----------------------------------------------------------------------------
(* What keeps each part of the invariant.                                  *)

\* The instances of a wrapper and where they are registered stay.
SameInstances(x) ==
    Alive(x) =>
        Alive(x)' /\ wrapper'[x].cptr = wrapper[x].cptr /\ wrapper'[x].type = wrapper[x].type

\* The map stays sound when entries are erased, and the wrappers and the types
\* of the others do not change.
LEMMA MapKept ==
    ASSUME TypeOK, MapHeld, typeData' = typeData,
           \A a \in Addr : wrapperMapper'[a] # Nil =>
               /\ wrapperMapper'[a] = wrapperMapper[a]
               /\ SameInstances(wrapperMapper[a])
    PROVE  MapHeld'
BY DEF MapHeld, Holds, WithOffsets, SameInstances

\* No type comes or goes, and the number of its C++ classes stays.
TypesKept ==
    \A u \in Type :
        /\ typeData'[u] = Nil <=> typeData[u] = Nil
        /\ typeData[u] # Nil => typeData'[u].isMulticpp = typeData[u].isMulticpp

\* When one wrapper is made or changes, all fit.
LEMMA WrapperChanges ==
    ASSUME TypeOK, InUse, NEW o \in Obj, NEW w \in Wrapper, typeData[w.type] # Nil,
           Len(w.cptr) \in {0, NumBases(w.type)},
           wrapper' = [wrapper EXCEPT ![o] = w], TypesKept
    PROVE  /\ WrappersFit'
           /\ \A x \in Obj : /\ Alive(x)' <=> x = o \/ Alive(x)
                             /\ wrapper'[x] = IF x = o THEN w ELSE wrapper[x]
<1>1. wrapper \in [Obj -> Wrapper \cup {Nil}] /\ w # Nil
  BY NilAssumption DEF TypeOK
<1>2. \A x \in Obj : wrapper'[x] = IF x = o THEN w ELSE wrapper[x]
  BY <1>1
<1>3. \A x \in Obj : Alive(x)' <=> x = o \/ Alive(x)
  BY <1>1, <1>2 DEF Alive
<1>4. wrapper' \in [Obj -> Wrapper \cup {Nil}]
  BY <1>1
<1>5. ASSUME NEW x \in Obj, Alive(x)'
      PROVE  /\ Len(wrapper'[x].cptr) \in {0, NumBases(wrapper[x].type)'}
             /\ typeData'[wrapper'[x].type] # Nil
  <2>1. /\ wrapper'[x] \in Wrapper /\ typeData[wrapper'[x].type] # Nil
        /\ Len(wrapper'[x].cptr)
               \in {0, IF typeData[wrapper'[x].type].isMulticpp THEN Len(Walk[wrapper'[x].type]) ELSE 1}
    BY <1>1, <1>2, <1>3, <1>5 DEF TypeOK, InUse, NumBases, Alive
  <2>2. wrapper'[x].type \in Type
    BY <2>1 DEF Wrapper
  <2> QED BY <2>1, <2>2 DEF TypesKept, NumBases
<1> QED BY <1>2, <1>3, <1>4, <1>5 DEF WrappersFit

\* Erasing some entries of the map, with the wrapper of the others unchanged.
LEMMA EntriesErased ==
    ASSUME TypeOK, MapHeld, NEW o \in Obj, NEW map,
           map \in [Addr -> Obj \cup {Nil}],
           \A a \in Addr : map[a] # Nil => map[a] = wrapperMapper[a] /\ wrapperMapper[a] # o,
           wrapperMapper' = map, typeData' = typeData,
           \A x \in Obj : x # o => SameInstances(x)
    PROVE  MapHeld' /\ wrapperMapper' \in [Addr -> Obj \cup {Nil}]
<1>1. \A a \in Addr : wrapperMapper'[a] # Nil =>
          /\ wrapperMapper'[a] = wrapperMapper[a]
          /\ SameInstances(wrapperMapper[a])
  BY DEF TypeOK
<1>2. MapHeld'
  BY <1>1, MapKept DEF SameInstances, Alive
<1> QED BY <1>2

\* Object::destroy of the wrapper at an address, if there is one.
LEMMA DestroyedKeeps ==
    ASSUME Inv, NEW s \in Addr, Destroyed(wrapperMapper[s], s),
           typeData' = typeData
    PROVE  /\ MapHeld' /\ WrappersFit'
           /\ wrapperMapper' \in [Addr -> Obj \cup {Nil}]
           /\ \A x \in Obj : Alive(x)' <=> Alive(x)
<1> DEFINE o == wrapperMapper[s]
<1>1. CASE o = Nil
  <2>1. UNCHANGED <<wrapperMapper, wrapper>>
    BY <1>1 DEF Destroyed
  <2>2. MapHeld'
    BY <2>1, MapKept DEF Inv, SameInstances, Alive
  <2>4. WrappersFit' /\ \A x \in Obj : Alive(x)' <=> Alive(x)
    BY <2>1 DEF Inv, TypeOK, InUse, WrappersFit, Alive, NumBases
  <2> QED BY <2>1, <2>2, <2>4 DEF Inv, TypeOK
<1>2. CASE o # Nil
  <2>1. o \in Obj /\ Alive(o)
    BY <1>2 DEF Inv, TypeOK, MapHeld
  <2>2. /\ wrapperMapper' = Released(o)
        /\ wrapper' = [wrapper EXCEPT ![o].cptr = <<>>, ![o].valid = FALSE, ![o].owns = FALSE]
    BY <1>2 DEF Destroyed
  <2> HIDE DEF o
  <2> DEFINE w == [wrapper[o] EXCEPT !.cptr = <<>>, !.valid = FALSE, !.owns = FALSE]
  <2>3. wrapper' = [wrapper EXCEPT ![o] = w]
    BY <2>2
  <2>4. w \in Wrapper /\ w.type = wrapper[o].type /\ Len(w.cptr) = 0
    <3>1. wrapper[o] \in Wrapper
      BY <2>1 DEF Inv, TypeOK, Alive
    <3>2. w \in Wrapper /\ w.type = wrapper[o].type /\ w.cptr = <<>>
      BY <3>1, EmptiedType
    <3> HIDE DEF w
    <3> QED BY <3>2
  <2> HIDE DEF w
  <2>5. WrappersFit' /\ \A x \in Obj : (Alive(x)' <=> Alive(x)) /\ (x # o => wrapper'[x] = wrapper[x])
    <3>1. TypesKept /\ typeData[w.type] # Nil
      BY <2>1, <2>4 DEF TypesKept, Inv, InUse
    <3>2. Len(w.cptr) \in {0, NumBases(w.type)} /\ TypeOK /\ InUse
      BY <2>4 DEF Inv
    <3>3. /\ WrappersFit'
          /\ \A x \in Obj : /\ Alive(x)' <=> x = o \/ Alive(x)
                            /\ wrapper'[x] = IF x = o THEN w ELSE wrapper[x]
      BY <2>1, <2>3, <2>4, <3>1, <3>2, WrapperChanges
    <3> QED BY <2>1, <3>3
  <2>6. MapHeld' /\ wrapperMapper' \in [Addr -> Obj \cup {Nil}]
    <3>1. /\ Released(o) \in [Addr -> Obj \cup {Nil}]
          /\ \A a \in Addr : Released(o)[a] # Nil =>
                 Released(o)[a] = wrapperMapper[a] /\ wrapperMapper[a] # o
      BY <2>1, ReleasedErases DEF Inv
    <3>2. \A x \in Obj : x # o => SameInstances(x)
      BY <2>5 DEF SameInstances
    <3> QED BY <2>1, <2>2, <3>1, <3>2, EntriesErased DEF Inv
  <2> QED BY <2>5, <2>6
<1> QED BY <1>1, <1>2

-----------------------------------------------------------------------------
(* The steps.                                                              *)

\* A class statement: no wrapper is of the type yet.
LEMMA DefineTypeKeeps ==
    ASSUME Inv, NEW t \in PyClass, DefineType(t)
    PROVE  Inv'
<1> USE DEF Inv
<1>1. /\ t \in Type /\ typeData[t] = Nil /\ typeData' = [typeData EXCEPT ![t] = SubType(t)]
      /\ UNCHANGED <<wrapperMapper, wrapper, cpp, dying, ctors, destroying, fault>>
  BY DEF DefineType, Type
<1>2. /\ SubType(t) \in TypeData /\ SubType(t) # Nil
      /\ SubType(t).isMulticpp <=> Len(Walk[t]) # 1
  <2>1. Walk[t] \in Seq(Class) /\ Walk[t] # <<>>
    BY HierarchyAssumption
  <2>2. CASE Len(Walk[t]) = 1
    <3>1. Head(Walk[t]) \in Class
      BY <2>1
    <3>2. typeData[Head(Walk[t])] \in TypeData
      BY <3>1 DEF TypeOK, Type
    <3>3. ~typeData[Head(Walk[t])].isMulticpp
      BY <3>1, <3>2, NilAssumption, BindingManagerAssumption DEF Shape, Type, TypeData
    <3> QED BY <3>2, <3>3, <2>2, NilAssumption DEF SubType
  <2>3. CASE Len(Walk[t]) # 1
    <3> DEFINE d == [miInit |-> Nil, miOffsets |-> Nil, cast |-> Nil, isMulticpp |-> TRUE]
    <3>1. SubType(t) = d
      BY <2>3 DEF SubType
    <3>2. d \in TypeData /\ d.isMulticpp
      BY DEF TypeData
    <3> HIDE DEF d
    <3>3. d # Nil
      BY <3>2, NilAssumption
    <3> QED BY <3>1, <3>2, <3>3, <2>3
  <2> QED BY <2>2, <2>3
<1>3. \A u \in Type : typeData'[u] = IF u = t THEN SubType(t) ELSE typeData[u]
  BY <1>1 DEF TypeOK
<1>4. \A o \in Obj : Alive(o) => wrapper[o].type \in Type /\ wrapper[o].type # t
  BY <1>1 DEF InUse, Alive, TypeOK, Wrapper
<1>5. TypeOK'
  <2>1. typeData' \in [Type -> TypeData \cup {Nil}] /\ \A c \in Class : typeData'[c] # Nil
    BY <1>1, <1>2, <1>3 DEF TypeOK, Type
  <2>2. \A o \in Obj : (Alive(o) => Len(wrapper[o].cptr) \in {0, NumBases(wrapper[o].type)})'
    BY <1>1, <1>3, <1>4 DEF TypeOK, NumBases, Alive
  <2> QED BY <2>1, <2>2, <1>1 DEF TypeOK
<1>6. Shape'
  BY <1>2, <1>3 DEF Shape
<1>7. InUse'
  BY <1>1, <1>3, <1>4 DEF InUse, Alive
<1>8. MapHeld'
  BY <1>1, <1>3, <1>4 DEF MapHeld, Holds, Alive, WithOffsets, TypeOK
<1> QED BY <1>5, <1>6, <1>7, <1>8

\* tp_new.
LEMMA NewKeeps ==
    ASSUME Inv, NEW o \in Obj, NEW t \in Used, New(o, t)
    PROVE  Inv'
<1> USE DEF Inv
<1>1. /\ t \in Type /\ typeData[t] # Nil /\ ~Alive(o)
      /\ wrapper' = [wrapper EXCEPT ![o] = NewWrapper(t)]
      /\ UNCHANGED <<typeData, wrapperMapper, cpp, dying, ctors, destroying, fault>>
  BY BindingManagerAssumption DEF New
<1>2. TypesKept
  BY <1>1 DEF TypesKept
<1>3. /\ NewWrapper(t) \in Wrapper /\ NewWrapper(t).type = t
      /\ Len(NewWrapper(t).cptr) = NumBases(t)
  BY <1>1, NewWrapperType
<1>4. /\ WrappersFit'
      /\ \A x \in Obj : /\ Alive(x)' <=> x = o \/ Alive(x)
                        /\ wrapper'[x] = IF x = o THEN NewWrapper(t) ELSE wrapper[x]
  BY <1>1, <1>2, <1>3, WrapperChanges
<1>5. TypeOK' /\ Shape' /\ InUse'
  BY <1>1, <1>4 DEF TypeOK, Shape, InUse, WrappersFit
<1>6. MapHeld'
  <2>1. \A a \in Addr : wrapperMapper[a] # Nil => wrapperMapper[a] \in Obj \ {o}
    BY <1>1 DEF MapHeld, TypeOK
  <2> QED BY <1>1, <1>4, <2>1, MapKept DEF SameInstances, Alive
<1> QED BY <1>5, <1>6

\* A constructor that fails, and one whose wrapper C++ emptied.
LEMMA CtorEndsKeeps ==
    ASSUME Inv, NEW o \in Obj, NEW c \in Class, CtorFails(o, c) \/ CtorOfDestroyed(o, c)
    PROVE  Inv'
<1> USE DEF Inv
<1>1. /\ ctors' \subseteq ctors /\ fault' \in BOOLEAN
      /\ UNCHANGED <<typeData, wrapperMapper, wrapper, cpp, dying, destroying>>
  BY DEF CtorFails, CtorOfDestroyed, TypeOK
<1>2. TypeOK' /\ Shape' /\ InUse'
  BY <1>1 DEF TypeOK, Shape, InUse, Alive, NumBases
<1>3. MapHeld'
  BY <1>1, MapKept DEF SameInstances, Alive
<1> QED BY <1>2, <1>3

\* tp_dealloc.
LEMMA DeallocKeeps ==
    ASSUME Inv, NEW o \in Obj, Dealloc(o)
    PROVE  Inv'
<1> USE DEF Inv
<1>1. /\ Alive(o) /\ \A c \in Class : <<o, c>> \notin ctors
      /\ wrapperMapper' = Released(o) /\ wrapper' = [wrapper EXCEPT ![o] = Nil]
      /\ dying' \subseteq dying \cup ToSet(wrapper[o].cptr)
      /\ UNCHANGED <<typeData, cpp, ctors, destroying, fault>>
  BY DEF Dealloc
<1>2. \A x \in Obj : wrapper'[x] = IF x = o THEN Nil ELSE wrapper[x]
  BY <1>1 DEF TypeOK
<1>3. \A x \in Obj : Alive(x)' <=> Alive(x) /\ x # o
  BY <1>2 DEF Alive
<1>4. dying' \subseteq Addr
  <2>1. wrapper[o].cptr \in Seq(Addr)
    BY <1>1 DEF TypeOK, Alive, Wrapper
  <2>2. ToSet(wrapper[o].cptr) \subseteq Addr
    BY <2>1 DEF ToSet
  <2> QED BY <1>1, <2>2 DEF TypeOK
<1>5. /\ Released(o) \in [Addr -> Obj \cup {Nil}]
      /\ \A a \in Addr : Released(o)[a] # Nil =>
             Released(o)[a] = wrapperMapper[a] /\ wrapperMapper[a] # o
  BY ReleasedErases
<1>6. MapHeld' /\ wrapperMapper' \in [Addr -> Obj \cup {Nil}]
  <2>1. \A x \in Obj : x # o => SameInstances(x)
    BY <1>2, <1>3 DEF SameInstances
  <2> QED BY <1>1, <1>5, <2>1, EntriesErased
<1>7. TypeOK'
  <2>1. wrapper' \in [Obj -> Wrapper \cup {Nil}]
    BY <1>1 DEF TypeOK
  <2>2. \A x \in Obj : (Alive(x) => Len(wrapper[x].cptr) \in {0, NumBases(wrapper[x].type)})'
    BY <1>1, <1>2, <1>3 DEF TypeOK, NumBases
  <2> QED BY <1>1, <1>4, <1>6, <2>1, <2>2 DEF TypeOK
<1>8. Shape' /\ InUse'
  BY <1>1, <1>2, <1>3 DEF Shape, InUse, TypeOK
<1> QED BY <1>6, <1>7, <1>8

\* The parts of the invariant that a step which only erases has to keep.
LEMMA Rebuilt ==
    ASSUME Inv, MapHeld', WrappersFit', wrapperMapper' \in [Addr -> Obj \cup {Nil}],
           \A x \in Obj : Alive(x)' <=> Alive(x), ctors' \subseteq ctors, typeData' = typeData,
           cpp' \in [Starts -> CppInstance \cup {Nil}], dying' \subseteq dying,
           destroying' = destroying, fault' = fault
    PROVE  Inv'
<1>1. TypeOK'
  BY DEF Inv, TypeOK, WrappersFit
<1>2. Shape' /\ InUse'
  BY DEF Inv, Shape, InUse, WrappersFit
<1> QED BY <1>1, <1>2 DEF Inv

\* The end of a C++ instance.
LEMMA DeletedKeeps ==
    ASSUME Inv, NEW s \in Starts, Deleted(s), dying' \subseteq dying,
           UNCHANGED <<typeData, ctors, destroying, fault>>
    PROVE  Inv'
<1>1. s \in Addr
  BY BindingManagerAssumption DEF Addr
<1>2. cpp' \in [Starts -> CppInstance \cup {Nil}]
  BY DEF Deleted, Inv, TypeOK
<1>3. CASE Destroyed(wrapperMapper[s], s)
  BY <1>1, <1>2, <1>3, DestroyedKeeps, Rebuilt
<1>4. CASE UNCHANGED <<wrapperMapper, wrapper>>
  <2>1. MapHeld'
    BY <1>4, MapKept DEF Inv, SameInstances, Alive
  <2>3. WrappersFit' /\ \A x \in Obj : Alive(x)' <=> Alive(x)
    BY <1>4 DEF Inv, TypeOK, InUse, WrappersFit, Alive, NumBases
  <2> QED BY <1>2, <1>4, <2>1, <2>3, Rebuilt DEF Inv, TypeOK
<1> QED BY <1>3, <1>4 DEF Deleted

\* C++ destructors, in a deallocation or by C++ code.
LEMMA CppEndsKeeps ==
    ASSUME Inv, NEW s \in Starts, CppDtor(s) \/ CppDelete(s)
    PROVE  Inv'
BY DeletedKeeps DEF CppDtor, CppDelete

\* C++ code makes an instance.
LEMMA CppNewKeeps ==
    ASSUME Inv, NEW s \in Starts, NEW c \in Class \cap Used, NEW hidden \in BOOLEAN,
           CppNew(s, c, hidden)
    PROVE  Inv'
<1>1. /\ cpp' = [cpp EXCEPT ![s] = Instance(c, FALSE, hidden)]
      /\ UNCHANGED <<typeData, wrapperMapper, wrapper, dying, ctors, destroying, fault>>
  BY DEF CppNew
<1>2. cpp' \in [Starts -> CppInstance \cup {Nil}]
  BY <1>1 DEF Inv, TypeOK, Instance, CppInstance
<1>3. MapHeld'
  BY <1>1, MapKept DEF Inv, SameInstances, Alive
<1>5. WrappersFit' /\ \A x \in Obj : Alive(x)' <=> Alive(x)
  BY <1>1 DEF Inv, TypeOK, InUse, WrappersFit, Alive, NumBases
<1> QED BY <1>1, <1>2, <1>3, <1>5, Rebuilt DEF Inv, TypeOK

\* A constructor begins.  It may change the offsets of the type of its wrapper,
\* but not while wrappers of the type have instances, unless they only grow.
LEMMA CtorBeginKeeps ==
    ASSUME Inv, "reset" \notin Tags, NEW o \in Obj, NEW c \in Class, CtorBegin(o, c)
    PROVE  Inv'
<1> USE DEF Inv
<1> DEFINE t == wrapper[o].type
           d == [typeData[t] EXCEPT !.miInit = typeData[c].miInit,
                                    !.miOffsets = typeData[c].miOffsets,
                                    !.cast = typeData[c].cast]
<1>1. /\ Alive(o)
      /\ typeData' \in {typeData, CopiedFrom(t, c)}
      /\ typeData' # typeData => ~TakesOffsets(t, c)
      /\ ctors' \subseteq ctors \cup {<<o, c>>}
      /\ UNCHANGED <<wrapperMapper, wrapper, cpp, dying, destroying, fault>>
  BY DEF CtorBegin
<1>2. /\ t \in Type /\ typeData[t] \in TypeData /\ typeData[t] # Nil
      /\ c \in Type /\ typeData[c] \in TypeData
  BY <1>1 DEF TypeOK, Alive, InUse, Wrapper, Type
<1>3. d \in TypeData /\ d.isMulticpp = typeData[t].isMulticpp /\ d.miOffsets = typeData[c].miOffsets
  BY <1>2 DEF TypeData
<1>4. d # Nil
  BY <1>3, NilAssumption
<1>5. CopiedFrom(t, c) = [typeData EXCEPT ![t] = d]
  BY <1>2 DEF CopiedFrom, TypeOK
<1> HIDE DEF d, t
<1>6. \A u \in Type : \/ typeData'[u] = typeData[u]
                      \/ u = t /\ typeData'[u] = d /\ ~TakesOffsets(t, c)
  BY <1>1, <1>5 DEF TypeOK
<1>7. TypesKept
  BY <1>2, <1>3, <1>4, <1>6 DEF TypesKept
<1>8. TypeOK'
  <2>1. typeData' \in [Type -> TypeData \cup {Nil}]
    BY <1>1, <1>2, <1>3, <1>5 DEF TypeOK
  <2>2. \A k \in Class : typeData'[k] # Nil
    BY <1>7 DEF TypesKept, TypeOK, Type
  <2>3. ctors' \subseteq Obj \X Class
    BY <1>1 DEF TypeOK
  <2>4. \A x \in Obj : (Alive(x) => Len(wrapper[x].cptr) \in {0, NumBases(wrapper[x].type)})'
    <3> SUFFICES ASSUME NEW x \in Obj, Alive(x)
                 PROVE  Len(wrapper[x].cptr) \in {0, NumBases(wrapper[x].type)'}
      BY <1>1 DEF Alive
    <3>1. wrapper[x].type \in Type /\ typeData[wrapper[x].type] # Nil
      BY DEF TypeOK, Alive, InUse, Wrapper
    <3>2. Len(wrapper[x].cptr)
              \in {0, IF typeData[wrapper[x].type].isMulticpp THEN Len(Walk[wrapper[x].type]) ELSE 1}
      BY DEF TypeOK, NumBases
    <3> QED BY <1>1, <3>1, <3>2, <1>7 DEF TypesKept, NumBases
  <2> QED BY <1>1, <2>1, <2>2, <2>3, <2>4 DEF TypeOK
<1>9. Shape'
  BY <1>7 DEF Shape, TypesKept
<1>10. InUse'
  <2>1. ASSUME NEW x \in Obj, Alive(x)
        PROVE  typeData'[wrapper[x].type] # Nil
    BY <2>1, <1>7 DEF TypesKept, InUse, Alive, TypeOK, Wrapper
  <2>2. ASSUME NEW x \in Obj, NEW k \in Class, <<x, k>> \in ctors'
        PROVE  Alive(x)
    BY <2>2, <1>1 DEF InUse
  <2> QED BY <1>1, <2>1, <2>2 DEF InUse, Alive
<1>11. MapHeld'
  <2> SUFFICES ASSUME NEW a \in Addr, wrapperMapper[a] # Nil
               PROVE  Holds(wrapperMapper[a], a)'
    BY <1>1 DEF MapHeld, Alive
  <2> DEFINE x == wrapperMapper[a]
             u == wrapper[x].type
  <2>1. x \in Obj /\ Alive(x) /\ Holds(x, a)
    BY DEF MapHeld, TypeOK
  <2>2. u \in Type
    BY <2>1 DEF TypeOK, Alive, Wrapper
  <2>3. PICK i \in DOMAIN wrapper[x].cptr :
            wrapper[x].cptr[i] # 0 /\ a \in WithOffsets(typeData, u, wrapper[x].cptr[i])
    BY <2>1 DEF Holds
  <2>4. a \in WithOffsets(typeData', u, wrapper[x].cptr[i])
    <3>1. CASE typeData'[u] = typeData[u]
      BY <3>1, <2>3 DEF WithOffsets
    <3>2. CASE u = t /\ typeData'[u] = d /\ ~TakesOffsets(t, c)
      <4>1. typeData[t].miOffsets \in {Nil, typeData[c].miOffsets}
        BY <3>2, <2>1, <2>3 DEF TakesOffsets
      <4> QED BY <4>1, <3>2, <2>3, <1>3 DEF WithOffsets
    <3> QED BY <3>1, <3>2, <2>2, <1>6
  <2> QED BY <1>1, <2>3, <2>4 DEF Holds
<1> QED BY <1>8, <1>9, <1>10, <1>11

\* When wrappers lose instances, all fit.
LEMMA WrappersLose ==
    ASSUME TypeOK, InUse, typeData' = typeData, wrapper' \in [Obj -> Wrapper \cup {Nil}],
           \A x \in Obj : Alive(x)' =>
               /\ Alive(x) /\ wrapper'[x].type = wrapper[x].type
               /\ wrapper'[x].cptr \in {<<>>, wrapper[x].cptr}
    PROVE  WrappersFit'
<1>1. ASSUME NEW x \in Obj, Alive(x)'
      PROVE  /\ Len(wrapper'[x].cptr) \in {0, NumBases(wrapper[x].type)'}
             /\ typeData'[wrapper'[x].type] # Nil
  <2>1. Len(wrapper[x].cptr) \in {0, NumBases(wrapper[x].type)}
    BY <1>1 DEF TypeOK
  <2>2. NumBases(wrapper[x].type)' = NumBases(wrapper[x].type)
    BY <1>1 DEF NumBases
  <2>3. Len(<<>>) = 0
    OBVIOUS
  <2> QED BY <1>1, <2>1, <2>2, <2>3 DEF InUse
<1> QED BY <1>1 DEF WrappersFit

\* A constructor whose instance is deleted again.
LEMMA CtorRefusedKeeps ==
    ASSUME Inv, NEW o \in Obj, NEW c \in Class, NEW s \in Starts, CtorRefused(o, c, s)
    PROVE  Inv'
<1> USE DEF Inv
<1> DEFINE found == IF c \in Shells THEN wrapperMapper[s] ELSE Nil
           w == [wrapper[o] EXCEPT !.created = @ \/ AlreadyInitialized(o, c)]
           marked == [wrapper EXCEPT ![o].created = @ \/ AlreadyInitialized(o, c)]
           e == [marked[found] EXCEPT !.cptr = <<>>, !.valid = FALSE, !.owns = FALSE]
<1>1. /\ Alive(o) /\ ctors' \subseteq ctors
      /\ UNCHANGED <<typeData, cpp, dying, destroying, fault>>
  BY DEF CtorRefused, InUse
<1>2. wrapper \in [Obj -> Wrapper \cup {Nil}] /\ wrapper[o] \in Wrapper
  BY <1>1 DEF TypeOK, Alive
<1>3. w \in Wrapper /\ w.type = wrapper[o].type /\ w.cptr = wrapper[o].cptr
  <2>1. AlreadyInitialized(o, c) \in BOOLEAN
    BY DEF AlreadyInitialized
  <2>2. (wrapper[o].created \/ AlreadyInitialized(o, c)) \in BOOLEAN
    BY <2>1, <1>2 DEF Wrapper
  <2> QED BY <2>2, <1>2 DEF Wrapper
<1>4. marked = [wrapper EXCEPT ![o] = w]
  BY <1>2
<1> HIDE DEF w
<1>5. \A x \in Obj : marked[x] = IF x = o THEN w ELSE wrapper[x]
  BY <1>4, <1>2
<1>6. marked \in [Obj -> Wrapper \cup {Nil}] /\ w # Nil
  BY <1>2, <1>3, <1>4, NilAssumption
<1>7. \A x \in Obj : /\ marked[x] # Nil <=> Alive(x)
                     /\ Alive(x) => marked[x].type = wrapper[x].type /\ marked[x].cptr = wrapper[x].cptr
  BY <1>1, <1>3, <1>5, <1>6 DEF Alive
<1>8. CASE found = Nil
  <2>1. wrapper' = marked /\ wrapperMapper' = wrapperMapper
    BY <1>8 DEF CtorRefused
  <2> HIDE DEF marked
  <2>2. \A x \in Obj : SameInstances(x) /\ (Alive(x)' <=> Alive(x))
    BY <2>1, <1>7 DEF SameInstances, Alive
  <2>3. WrappersFit'
    BY <1>1, <1>6, <1>7, <2>1, <2>2, WrappersLose
  <2>4. MapHeld'
    BY <1>1, <2>1, <2>2, MapKept DEF TypeOK
  <2> QED BY <1>1, <2>1, <2>2, <2>3, <2>4, Rebuilt DEF TypeOK
<1>9. CASE found # Nil
  <2>1. found = wrapperMapper[s] /\ s \in Addr
    BY <1>9, BindingManagerAssumption DEF Addr
  <2>2. found \in Obj /\ Alive(found)
    BY <1>9, <2>1 DEF TypeOK, MapHeld
  <2>3. /\ wrapperMapper' = Released(found)
        /\ wrapper' = [marked EXCEPT ![found].cptr = <<>>, ![found].valid = FALSE,
                                     ![found].owns = FALSE]
    BY <1>9 DEF CtorRefused
  <2> HIDE DEF marked, found
  <2>4. marked[found] \in Wrapper
    BY <2>2, <1>6, <1>7
  <2>5. e \in Wrapper /\ e.type = marked[found].type /\ e.cptr = <<>>
    BY <2>4, EmptiedType
  <2>6. wrapper' = [marked EXCEPT ![found] = e]
    BY <2>3, <2>2, <1>6
  <2> HIDE DEF e
  <2>7. wrapper' \in [Obj -> Wrapper \cup {Nil}]
    BY <2>5, <2>6, <1>6
  <2>8. \A x \in Obj : wrapper'[x] = IF x = found THEN e ELSE marked[x]
    BY <2>6, <1>6
  <2>9. e # Nil
    BY <2>5, NilAssumption
  <2>10. \A x \in Obj : (x # found => SameInstances(x)) /\ (Alive(x)' <=> Alive(x))
    BY <2>2, <2>8, <2>9, <1>7 DEF SameInstances, Alive
  <2>11. WrappersFit'
    <3>1. \A x \in Obj : Alive(x)' => /\ Alive(x) /\ wrapper'[x].type = wrapper[x].type
                                      /\ wrapper'[x].cptr \in {<<>>, wrapper[x].cptr}
      BY <2>2, <2>5, <2>8, <2>10, <1>7
    <3> QED BY <1>1, <2>7, <3>1, WrappersLose
  <2>12. /\ Released(found) \in [Addr -> Obj \cup {Nil}]
         /\ \A a \in Addr : Released(found)[a] # Nil =>
                Released(found)[a] = wrapperMapper[a] /\ wrapperMapper[a] # found
    BY <2>2, ReleasedErases
  <2>13. MapHeld' /\ wrapperMapper' \in [Addr -> Obj \cup {Nil}]
    BY <1>1, <2>2, <2>3, <2>10, <2>12, EntriesErased
  <2> QED BY <1>1, <2>10, <2>11, <2>13, Rebuilt DEF TypeOK
<1> QED BY <1>8, <1>9

\* Registering an instance of a wrapper, which keeps those it has.
LEMMA RegisterKeeps ==
    ASSUME Inv, NEW o \in Obj, NEW w \in Wrapper, NEW p, p # 0,
           typeData[w.type] # Nil, Len(w.cptr) = NumBases(w.type),
           \E i \in DOMAIN w.cptr : w.cptr[i] = p,
           Alive(o) =>
               /\ w.type = wrapper[o].type
               /\ \A i \in DOMAIN wrapper[o].cptr : wrapper[o].cptr[i] # 0 =>
                      i \in DOMAIN w.cptr /\ w.cptr[i] = wrapper[o].cptr[i],
           wrapper' = [wrapper EXCEPT ![o] = w], RegisterWrapper(o, w.type, p),
           cpp' \in [Starts -> CppInstance \cup {Nil}], ctors' \subseteq ctors,
           UNCHANGED <<dying, destroying, fault>>
    PROVE  TypeOK' /\ Shape' /\ InUse' /\ MapHeld'
<1> USE DEF Inv
<1> DEFINE t == w.type
           data == Initialized(typeData, t)
<1>1. t \in Type /\ typeData' = data /\ wrapperMapper' = Assigned(data, o, t, p)
  BY DEF Wrapper, RegisterWrapper
<1>2. /\ data \in [Type -> TypeData \cup {Nil}]
      /\ \A u \in Type :
            /\ data[u] = Nil <=> typeData[u] = Nil
            /\ typeData[u] # Nil => data[u].isMulticpp = typeData[u].isMulticpp
            /\ \A q : WithOffsets(typeData, u, q) \subseteq WithOffsets(data, u, q)
  BY <1>1, InitializedType
<1> HIDE DEF data, t
<1>3. TypesKept
  BY <1>1, <1>2 DEF TypesKept
<1>4. /\ WrappersFit'
      /\ \A x \in Obj : /\ Alive(x)' <=> x = o \/ Alive(x)
                        /\ wrapper'[x] = IF x = o THEN w ELSE wrapper[x]
  BY <1>3, WrapperChanges
<1>5. wrapperMapper' \in [Addr -> Obj \cup {Nil}]
  BY <1>1, AssignedType
<1>6. TypeOK'
  <2>1. \A k \in Class : typeData'[k] # Nil
    BY <1>3 DEF TypesKept, TypeOK, Type
  <2> QED BY <1>1, <1>2, <1>4, <1>5, <2>1 DEF TypeOK, WrappersFit
<1>7. Shape' /\ InUse'
  <2>1. Shape'
    BY <1>3 DEF Shape, TypesKept
  <2>2. \A x \in Obj, c \in Class : <<x, c>> \in ctors' => Alive(x)'
    BY <1>4 DEF InUse
  <2> QED BY <1>4, <2>1, <2>2 DEF InUse, WrappersFit
<1>8. ASSUME NEW a \in Addr, NEW x, x = wrapperMapper'[a], x # Nil
      PROVE  Alive(x)' /\ Holds(x, a)'
  <2>1. CASE x = o /\ a \in WithOffsets(data, t, p)
    <3>1. PICK i \in DOMAIN w.cptr : w.cptr[i] = p
      OBVIOUS
    <3>2. wrapper'[o] = w /\ Alive(o)'
      BY <1>4
    <3>3. Holds(x, a)'
      BY <2>1, <3>1, <3>2, <1>1 DEF Holds, t
    <3> QED BY <2>1, <3>2, <3>3
  <2>2. CASE x = wrapperMapper[a]
    <3>1. x \in Obj /\ Alive(x) /\ Holds(x, a)
      <4>1. wrapperMapper[a] # Nil
        BY <2>2, <1>8
      <4>2. Alive(wrapperMapper[a]) /\ Holds(wrapperMapper[a], a) /\ wrapperMapper[a] \in Obj
        BY <4>1 DEF MapHeld, TypeOK
      <4> QED BY <2>2, <4>2
    <3>2. PICK i \in DOMAIN wrapper[x].cptr :
              /\ wrapper[x].cptr[i] # 0
              /\ a \in WithOffsets(typeData, wrapper[x].type, wrapper[x].cptr[i])
      BY <3>1 DEF Holds
    <3>3. wrapper[x].type \in Type
      BY <3>1 DEF TypeOK, Alive, Wrapper
    <3>4. a \in WithOffsets(data, wrapper[x].type, wrapper[x].cptr[i])
      BY <3>2, <3>3, <1>2
    <3>5. /\ Alive(x)' /\ wrapper'[x].type = wrapper[x].type
          /\ i \in DOMAIN wrapper'[x].cptr /\ wrapper'[x].cptr[i] = wrapper[x].cptr[i]
      BY <3>1, <3>2, <1>4
    <3>6. Holds(x, a)'
      BY <3>2, <3>4, <3>5, <1>1 DEF Holds
    <3> QED BY <3>5, <3>6
  <2>3. x = wrapperMapper[a] \/ (x = o /\ a \in WithOffsets(data, t, p))
    BY <1>1, <1>8 DEF Assigned
  <2> QED BY <2>1, <2>2, <2>3
<1>9. MapHeld'
  <2> SUFFICES ASSUME NEW a \in Addr, wrapperMapper'[a] # Nil
               PROVE  (Alive(wrapperMapper[a]) /\ Holds(wrapperMapper[a], a))'
    BY DEF MapHeld
  <2>1. PICK x : x = wrapperMapper'[a]
    OBVIOUS
  <2> QED BY <1>8, <2>1 DEF Alive, Holds
<1> QED BY <1>6, <1>7, <1>9

\* A constructor that succeeds.
LEMMA CtorSucceedsKeeps ==
    ASSUME Inv, NEW o \in Obj, NEW c \in Class, NEW s \in Starts, CtorSucceeds(o, c, s)
    PROVE  Inv'
<1> USE DEF Inv
<1> DEFINE t == wrapper[o].type
           i == IndexFor(t, c)
           w == [wrapper[o] EXCEPT !.cptr[i] = s, !.created = TRUE, !.valid = TRUE]
<1>1. /\ <<o, c>> \in ctors /\ Alive(o) /\ wrapper[o].cptr # <<>> /\ wrapper[o].cptr[i] = 0
      /\ wrapper' = [wrapper EXCEPT ![o].cptr[i] = s, ![o].created = TRUE, ![o].valid = TRUE]
      /\ RegisterWrapper(o, t, s) /\ cpp' = [cpp EXCEPT ![s] = Instance(c, c \in Shells, FALSE)]
      /\ ctors' \subseteq ctors
      /\ UNCHANGED <<dying, destroying, fault>>
  BY DEF CtorSucceeds, InUse, AlreadyInitialized
<1>2. wrapper \in [Obj -> Wrapper \cup {Nil}] /\ wrapper[o] \in Wrapper
  BY <1>1 DEF TypeOK, Alive
<1>3. t \in Type /\ typeData[t] # Nil /\ wrapper[o].cptr \in Seq(Addr)
  BY <1>1, <1>2 DEF InUse, Wrapper
<1>4. i \in 1..NumBases(t) /\ Len(wrapper[o].cptr) = NumBases(t)
  <2>1. NumBases(t) \in Nat \ {0} /\ i \in 1..NumBases(t)
    BY <1>3, IndexType
  <2>2. Len(wrapper[o].cptr) \in {0, NumBases(t)} /\ Len(wrapper[o].cptr) # 0
    BY <1>1, <1>3 DEF TypeOK
  <2> QED BY <2>1, <2>2
<1> HIDE DEF i
<1>5. s \in Addr /\ s # 0
  BY BindingManagerAssumption DEF Addr
<1>6. /\ w \in Wrapper /\ w.type = t /\ Len(w.cptr) = NumBases(t) /\ w.cptr[i] = s
      /\ DOMAIN w.cptr = DOMAIN wrapper[o].cptr
      /\ \A k \in DOMAIN wrapper[o].cptr : k # i => w.cptr[k] = wrapper[o].cptr[k]
  <2> DEFINE q == [wrapper[o].cptr EXCEPT ![i] = s]
  <2>1. /\ q \in Seq(Addr) /\ Len(q) = Len(wrapper[o].cptr) /\ DOMAIN q = DOMAIN wrapper[o].cptr
        /\ q[i] = s /\ \A k \in DOMAIN wrapper[o].cptr : k # i => q[k] = wrapper[o].cptr[k]
    BY <1>3, <1>4, <1>5
  <2>2. w = [wrapper[o] EXCEPT !.cptr = q, !.created = TRUE, !.valid = TRUE]
    BY <1>2 DEF Wrapper
  <2> HIDE DEF q
  <2>3. w \in Wrapper /\ w.type = t /\ w.cptr = q
    BY <2>1, <2>2, <1>2 DEF Wrapper
  <2> QED BY <2>1, <2>3, <1>4
<1>7. wrapper' = [wrapper EXCEPT ![o] = w]
  BY <1>1, <1>2
<1> HIDE DEF w
<1>8. i \in DOMAIN w.cptr
  BY <1>3, <1>4, <1>6
<1>9. \A k \in DOMAIN wrapper[o].cptr : wrapper[o].cptr[k] # 0 =>
          k \in DOMAIN w.cptr /\ w.cptr[k] = wrapper[o].cptr[k]
  BY <1>1, <1>6
<1>10. cpp' \in [Starts -> CppInstance \cup {Nil}]
  BY <1>1 DEF TypeOK, Instance, CppInstance
<1>11. TypeOK' /\ Shape' /\ InUse' /\ MapHeld'
  <2>1. RegisterWrapper(o, w.type, s)
    BY <1>1, <1>6
  <2>2. w \in Wrapper /\ typeData[w.type] # Nil /\ Len(w.cptr) = NumBases(w.type)
    BY <1>3, <1>6
  <2>3. \E k \in DOMAIN w.cptr : w.cptr[k] = s
    BY <1>6, <1>8
  <2>4. Alive(o) =>
            /\ w.type = wrapper[o].type
            /\ \A k \in DOMAIN wrapper[o].cptr : wrapper[o].cptr[k] # 0 =>
                   k \in DOMAIN w.cptr /\ w.cptr[k] = wrapper[o].cptr[k]
    BY <1>6, <1>9
  <2> QED BY <1>1, <1>5, <1>7, <1>10, <2>1, <2>2, <2>3, <2>4, RegisterKeeps
<1> QED BY <1>11

\* The type that is found for an instance, and the address where it begins: one
\* in the instance, which is not null.
LEMMA ResolvedType ==
    ASSUME TypeOK, NEW s \in Starts, NEW c \in Class, Live(s), IsSubtype(cpp[s].class, c),
           NEW r \in Resolved(c, s)
    PROVE  r[1] \in Class /\ r[2] \in Addr \ {0}
<1> DEFINE d == cpp[s].class
<1>1. d \in Class
  BY DEF TypeOK, Live, CppInstance
<1>2. ASSUME NEW b \in Type, IsSubtype(d, b)
      PROVE  s + Shift[d][b] \in Addr \ {0}
  <2>1. s \in Nat \ {0} /\ s + Extent[d] - 1 \in Addr /\ Extent[d] \in Nat /\ MaxAddr \in Nat
    BY <1>1, BindingManagerAssumption, LayoutAssumption
  <2>2. Shift[d][b] \in 0..Extent[d] - 1
    BY <1>1, <1>2, LayoutAssumption DEF IsSubtype
  <2> QED BY <2>1, <2>2 DEF Addr
<1>3. \A e \in Identified(c, s) : e \in Class /\ IsSubtype(d, e)
  BY DEF Identified, Discovers
<1>4. r \in {<<c, s + Shift[d][c]>>, <<d, s + Shift[d][c]>>}
          \cup {<<e, s + Shift[d][e]>> : e \in Identified(c, s)}
  BY DEF Resolved
<1> HIDE DEF d
<1>5. CASE r \in {<<c, s + Shift[d][c]>>, <<d, s + Shift[d][c]>>}
  BY <1>1, <1>2, <1>5 DEF Type, d
<1>6. CASE r \in {<<e, s + Shift[d][e]>> : e \in Identified(c, s)}
  <2>1. PICK e \in Identified(c, s) : r = <<e, s + Shift[d][e]>>
    BY <1>6
  <2> QED BY <1>2, <1>3, <2>1 DEF Type
<1> QED BY <1>4, <1>5, <1>6

\* An instance that C++ returns gets a wrapper.
LEMMA ReturnKeeps ==
    ASSUME Inv, NEW o \in Obj, NEW c \in Class, NEW s \in Starts, Return(o, s, c)
    PROVE  Inv'
<1> USE DEF Inv
<1>1. /\ ~Alive(o) /\ Live(s) /\ IsSubtype(cpp[s].class, c)
      /\ UNCHANGED <<cpp, dying, ctors, destroying, fault>>
  BY DEF Return
<1>2. PICK r \in Resolved(c, s) :
          /\ wrapper' = [wrapper EXCEPT ![o] =
                [NewWrapper(r[1]) EXCEPT !.cptr[1] = r[2], !.valid = TRUE, !.owns = FALSE]]
          /\ RegisterWrapper(o, r[1], r[2])
  BY DEF Return
<1> DEFINE t == r[1]
           p == r[2]
           n == NewWrapper(t)
           w == [n EXCEPT !.cptr[1] = p, !.valid = TRUE, !.owns = FALSE]
<1>3. t \in Class /\ t \in Type /\ p \in Addr \ {0}
  BY <1>1, <1>2, ResolvedType DEF Type
<1> HIDE DEF t, p
<1>4. typeData[t] # Nil /\ NumBases(t) = 1
  BY <1>3, BindingManagerAssumption DEF TypeOK, Shape, NumBases
<1>5. n \in Wrapper /\ n.type = t /\ Len(n.cptr) = 1
  BY <1>3, <1>4, NewWrapperType
<1> HIDE DEF n
<1>6. w \in Wrapper /\ w.type = t /\ Len(w.cptr) = 1 /\ 1 \in DOMAIN w.cptr /\ w.cptr[1] = p
  <2> DEFINE q == [n.cptr EXCEPT ![1] = p]
  <2>1. q \in Seq(Addr) /\ Len(q) = 1 /\ 1 \in DOMAIN q /\ q[1] = p
    BY <1>3, <1>5 DEF Wrapper
  <2>2. w = [n EXCEPT !.cptr = q, !.valid = TRUE, !.owns = FALSE]
    BY <1>5 DEF Wrapper
  <2> HIDE DEF q
  <2> QED BY <1>5, <2>1, <2>2 DEF Wrapper
<1>7. wrapper' = [wrapper EXCEPT ![o] = w] /\ RegisterWrapper(o, w.type, p)
  BY <1>2, <1>6 DEF n, t, p
<1> HIDE DEF w
<1>8. TypeOK' /\ Shape' /\ InUse' /\ MapHeld'
  <2>1. typeData[w.type] # Nil /\ Len(w.cptr) = NumBases(w.type) /\ p # 0
    BY <1>3, <1>4, <1>6
  <2>2. \E k \in DOMAIN w.cptr : w.cptr[k] = p
    BY <1>6
  <2>3. cpp' \in [Starts -> CppInstance \cup {Nil}]
    BY <1>1 DEF TypeOK
  <2> QED BY <1>1, <1>6, <1>7, <2>1, <2>2, <2>3, RegisterKeeps
<1> QED BY <1>8

\* The end of the program.
LEMMA ExitKeeps ==
    ASSUME Inv, Exit
    PROVE  Inv'
<1>1. UNCHANGED <<typeData, wrapperMapper, wrapper, cpp, dying, ctors, fault>> /\ destroying' \in BOOLEAN
  BY DEF Exit
<1>2. TypeOK' /\ Shape' /\ InUse'
  BY <1>1 DEF Inv, TypeOK, Shape, InUse, Alive, NumBases
<1>3. MapHeld'
  BY <1>1, MapKept DEF Inv, SameInstances, Alive
<1> QED BY <1>2, <1>3 DEF Inv

\* A step of ~BindingManager.
LEMMA TeardownKeeps ==
    ASSUME Inv, Teardown
    PROVE  Inv'
<1>1. PICK a \in Addr : Destroyed(wrapperMapper[a], a)
  BY DEF Teardown
<1>2. UNCHANGED <<typeData, cpp, dying, ctors, destroying, fault>>
  BY DEF Teardown
<1>3. cpp' \in [Starts -> CppInstance \cup {Nil}]
  BY <1>2 DEF Inv, TypeOK
<1> QED BY <1>1, <1>2, <1>3, DestroyedKeeps, Rebuilt

-----------------------------------------------------------------------------
(* The theorems.                                                           *)

\* The program starts with the types of generated code and without instances.
LEMMA InitInv ==
    ASSUME Init
    PROVE  Inv
<1>1. \A c \in Class : /\ GeneratedType(c) \in TypeData /\ GeneratedType(c) # Nil
                       /\ GeneratedType(c).isMulticpp = FALSE
  <2> SUFFICES ASSUME NEW c \in Class
               PROVE  /\ GeneratedType(c) \in TypeData /\ GeneratedType(c) # Nil
                      /\ GeneratedType(c).isMulticpp = FALSE
    OBVIOUS
  <2>1. GeneratedType(c) \in TypeData /\ GeneratedType(c).isMulticpp = FALSE
    BY HierarchyAssumption DEF GeneratedType, TypeData
  <2> QED BY <2>1, NilAssumption
<1>2. typeData \in [Type -> TypeData \cup {Nil}]
  BY <1>1 DEF Init, Type
<1>3. TypeOK
  BY <1>1, <1>2 DEF Init, TypeOK, Alive, Type
<1>4. Shape
  BY <1>1, BindingManagerAssumption DEF Init, Shape, Type
<1>5. InUse /\ MapHeld
  BY DEF Init, InUse, MapHeld, Alive
<1> QED BY <1>3, <1>4, <1>5 DEF Inv

\* Every step keeps the invariant.
LEMMA StepInv ==
    ASSUME Inv, "reset" \notin Tags, [Next]_managerVars
    PROVE  Inv'
<1>1. CASE Next
  BY <1>1, DefineTypeKeeps, NewKeeps, DeallocKeeps, CtorBeginKeeps, CtorEndsKeeps,
     CtorRefusedKeeps, CtorSucceedsKeeps, ReturnKeeps, CppEndsKeeps, CppNewKeeps, ExitKeeps,
     TeardownKeeps DEF Next
<1>2. CASE UNCHANGED managerVars
  <2>1. UNCHANGED <<typeData, wrapperMapper, wrapper, cpp, dying, ctors, destroying, fault>>
    BY <1>2 DEF managerVars
  <2>2. TypeOK' /\ Shape' /\ InUse' /\ MapHeld'
    BY <2>1 DEF Inv, TypeOK, Shape, InUse, MapHeld, Alive, NumBases, Holds, WithOffsets
  <2> QED BY <2>2 DEF Inv
<1> QED BY <1>1, <1>2

\* The inductive invariant holds in every state, as long as no constructor takes
\* away the offsets that instances are registered with.
THEOREM Inductive == "reset" \notin Tags => (Spec => []Inv)
<1> SUFFICES ASSUME "reset" \notin Tags
             PROVE  Spec => []Inv
  OBVIOUS
<1>1. Init => Inv
  BY InitInv
<1>2. Inv /\ [Next]_managerVars => Inv'
  BY StepInv
<1> QED BY <1>1, <1>2, PTL DEF Spec

\* Wrappers keep a pointer for each C++ class of their type, or none, and the
\* data of a type stays what the walks through the hierarchy count on.
THEOREM TypeCorrect == "reset" \notin Tags => (Spec => []TypeOK)
<1> SUFFICES ASSUME "reset" \notin Tags
             PROVE  Spec => []TypeOK
  OBVIOUS
<1>1. Inv => TypeOK
  BY DEF Inv
<1>2. Spec => []Inv
  BY Inductive
<1> QED BY <1>1, <1>2, PTL

\* Whatever classes there are and in whatever order they are defined, constructors
\* run, fail or run again, and instances die, an address in the map leads to a
\* wrapper that is alive and will erase the address when it is released.
THEOREM MapIsSound == "reset" \notin Tags => (Spec => []MapSound)
<1> SUFFICES ASSUME "reset" \notin Tags
             PROVE  Spec => []MapSound
  OBVIOUS
<1>1. Inv => MapSound
  BY DEF Inv, MapHeld, MapSound, Holds, AddressesOf
<1>2. Spec => []Inv
  BY Inductive
<1> QED BY <1>1, <1>2, PTL

\* Nothing is left to delete when the teardown begins, and nothing comes.
NothingDying == destroying => dying = {}

\* During the teardown nothing runs but its loop and the destructors still to come.
LEMMA TeardownAlone ==
    ASSUME Next, destroying
    PROVE  Teardown \/ \E s \in Starts : CppDtor(s)
<1>1. ASSUME NEW o \in Obj, NEW t \in Used, New(o, t)
      PROVE  FALSE
  BY <1>1 DEF New, Running
<1>2. ASSUME NEW t \in PyClass, DefineType(t)
      PROVE  FALSE
  BY <1>2 DEF DefineType, Running
<1>3. ASSUME NEW o \in Obj, Dealloc(o)
      PROVE  FALSE
  BY <1>3 DEF Dealloc, Running
<1>4. ASSUME NEW o \in Obj, NEW c \in Class, CtorBegin(o, c) \/ CtorFails(o, c) \/ CtorOfDestroyed(o, c)
      PROVE  FALSE
  BY <1>4 DEF CtorBegin, CtorFails, CtorOfDestroyed, Running
<1>5. ASSUME NEW o \in Obj, NEW c \in Class, NEW s \in Starts,
             CtorRefused(o, c, s) \/ CtorSucceeds(o, c, s) \/ Return(o, s, c)
      PROVE  FALSE
  BY <1>5 DEF CtorRefused, CtorSucceeds, Return, Running
<1>6. ASSUME NEW s \in Starts, CppDelete(s)
      PROVE  FALSE
  BY <1>6 DEF CppDelete, Running
<1>7. ASSUME NEW s \in Starts, NEW c \in Class \cap Used, NEW hidden \in BOOLEAN, CppNew(s, c, hidden)
      PROVE  FALSE
  BY <1>7 DEF CppNew, Running
<1>8. ASSUME Exit
      PROVE  FALSE
  BY <1>8 DEF Exit, Running
<1> QED BY <1>1, <1>2, <1>3, <1>4, <1>5, <1>6, <1>7, <1>8 DEF Next

\* The teardown begins at Exit only.
LEMMA BegunByExit ==
    ASSUME Next, ~destroying, destroying'
    PROVE  Exit
<1>1. ASSUME NEW o \in Obj, NEW t \in Used, New(o, t)
      PROVE  FALSE
  BY <1>1 DEF New
<1>2. ASSUME NEW t \in PyClass, DefineType(t)
      PROVE  FALSE
  BY <1>2 DEF DefineType
<1>3. ASSUME NEW o \in Obj, Dealloc(o)
      PROVE  FALSE
  BY <1>3 DEF Dealloc
<1>4. ASSUME NEW o \in Obj, NEW c \in Class, CtorBegin(o, c) \/ CtorFails(o, c) \/ CtorOfDestroyed(o, c)
      PROVE  FALSE
  BY <1>4 DEF CtorBegin, CtorFails, CtorOfDestroyed
<1>5. ASSUME NEW o \in Obj, NEW c \in Class, NEW s \in Starts,
             CtorRefused(o, c, s) \/ CtorSucceeds(o, c, s) \/ Return(o, s, c)
      PROVE  FALSE
  BY <1>5 DEF CtorRefused, CtorSucceeds, Return
<1>6. ASSUME NEW s \in Starts, CppDelete(s) \/ CppDtor(s)
      PROVE  FALSE
  BY <1>6 DEF CppDelete, CppDtor
<1>7. ASSUME NEW s \in Starts, NEW c \in Class \cap Used, NEW hidden \in BOOLEAN, CppNew(s, c, hidden)
      PROVE  FALSE
  BY <1>7 DEF CppNew
<1>8. ~Teardown
  BY DEF Teardown
<1> QED BY <1>1, <1>2, <1>3, <1>4, <1>5, <1>6, <1>7, <1>8 DEF Next

LEMMA DyingStays ==
    ASSUME NothingDying, [Next]_managerVars
    PROVE  NothingDying'
<1>1. CASE UNCHANGED managerVars
  BY <1>1 DEF NothingDying, managerVars
<1>2. CASE Next /\ destroying
  <2>1. \A s \in Starts : ~CppDtor(s)
    BY <1>2 DEF NothingDying, CppDtor
  <2> QED BY <1>2, <2>1, TeardownAlone DEF NothingDying, Teardown
<1>3. CASE Next /\ ~destroying
  BY <1>3, BegunByExit DEF NothingDying, Exit
<1> QED BY <1>1, <1>2, <1>3

\* Each step of the teardown leaves fewer addresses in the map, whatever the classes
\* and their layout and whatever happened before, so that the loop of ~BindingManager
\* is run at most once for each address.
THEOREM TeardownLeavesLess == "reset" \notin Tags => (Spec => TeardownShrinks)
<1> SUFFICES ASSUME "reset" \notin Tags
             PROVE  Spec => TeardownShrinks
  OBVIOUS
<1>1. Init => NothingDying
  BY DEF Init, NothingDying
<1>2. ASSUME Inv, NothingDying, Next, managerVars' # managerVars, destroying
      PROVE  Registered' \subseteq Registered /\ Registered' # Registered
  <2>1. Teardown
    <3>1. \A s \in Starts : ~CppDtor(s)
      BY <1>2 DEF NothingDying, CppDtor
    <3> QED BY <1>2, <3>1, TeardownAlone
  <2>2. PICK a \in Addr : wrapperMapper[a] # Nil /\ Destroyed(wrapperMapper[a], a)
    BY <2>1 DEF Teardown
  <2> DEFINE o == wrapperMapper[a]
  <2>3. o \in Obj /\ wrapperMapper' = Released(o)
    BY <2>2, <1>2 DEF Destroyed, Inv, TypeOK
  <2>4. \A x \in Addr : Released(o)[x] # Nil =>
            Released(o)[x] = wrapperMapper[x] /\ wrapperMapper[x] # o
    BY <2>3, <1>2, ReleasedErases DEF Inv
  <2>5. Registered' \subseteq Registered
    BY <2>3, <2>4 DEF Registered
  <2>6. a \in Registered /\ a \notin Registered'
    BY <2>2, <2>3, <2>4 DEF Registered
  <2> QED BY <2>5, <2>6
<1>3. Inv /\ NothingDying /\ [Next]_managerVars =>
          [destroying => Registered' \subseteq Registered /\ Registered' # Registered]_managerVars
  BY <1>2
<1>4. NothingDying /\ [Next]_managerVars => NothingDying'
  BY DyingStays
<1>5. Spec => []Inv
  BY Inductive
<1> QED BY <1>1, <1>3, <1>4, <1>5, PTL DEF Spec, TeardownShrinks
=============================================================================
