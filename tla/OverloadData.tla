----------------------------- MODULE OverloadData -----------------------------
(***************************************************************************)
(* What the generator knows of a group of overloads                        *)
(* (generator/overloaddata.cpp): the tree of argument types, the least and *)
(* the greatest number of arguments, and the order in which the types of   *)
(* an argument are to be tried.                                            *)
(*                                                                         *)
(* A type is its name, a sequence of strings: <<"Point">>, and             *)
(* <<"list", "Point">> for an instance of a container.  A node of the tree *)
(* (an OverloadData) is the sequence of the types from the root to it.     *)
(* Operators are in a module of their own; type replacements and variadic  *)
(* functions are left out, and containers have one parameter.              *)
(***************************************************************************)
EXTENDS Integers, FiniteSets, Sequences, SequencesExt

CONSTANTS
    Kind,          \* what each type is for the conversions
    ConvertsFrom,  \* the types each type has an implicit conversion from
    BasesOf,       \* all the base classes of each type
    Families,      \* the sets of signatures that one name may be declared with
    MaxOverloads   \* bound: overloads of one name

Types == DOMAIN Kind

Kinds == {"int", "float", "bool", "enum", "value", "object", "container",
          "pyobject", "pysequence", "pybuffer"}

\* An argument may have a default value; the typesystem may remove it.
Argument == [name : STRING, type : Types, default : BOOLEAN, removed : BOOLEAN]

ASSUME TypesAssumption ==
    /\ Kind \in [Types -> Kinds]
    /\ ConvertsFrom \in [Types -> SUBSET Types]
    /\ BasesOf \in [Types -> SUBSET Types]
    /\ \A family \in Families : \A s \in family :
          s.const \in BOOLEAN /\ s.args \in Seq(Argument)
    /\ MaxOverloads \in Nat

VARIABLES
    overloads,     \* m_overloads of the root: the functions in order
    minArgs,       \* m_minArgs of the root
    maxArgs,       \* m_maxArgs of the root
    next,          \* m_nextOverloadData of each node: the types of its children
    phase          \* "declaring", "generated", or "operators" (Operators)

treeVars == <<overloads, minArgs, maxArgs, next, phase>>

-----------------------------------------------------------------------------
(* The tree.                                                               *)

Funcs == DOMAIN overloads

\* The arguments the typesystem did not remove.
VisibleArgs(sig) == SelectSeq(sig.args, LAMBDA arg : ~arg.removed)

\* The node that ends the signature.
PathOf(sig) == [i \in DOMAIN VisibleArgs(sig) |-> VisibleArgs(sig)[i].type]

Nodes == DOMAIN next
Children(n) == {Append(n, next[n][i]) : i \in DOMAIN next[n]}

\* The nodes that can be reached from n.
Subtree(n) ==
    {m \in Nodes : /\ IsPrefix(n, m)
                   /\ \A i \in Len(n)..(Len(m) - 1) :
                         m[i + 1] \in ToSet(next[SubSeq(m, 1, i)])}

\* OverloadData::m_overloads and referenceFunction.
OverloadsOf(n) == {f \in Funcs : IsPrefix(n, PathOf(overloads[f]))}
ReferenceFunction(n) == Min(OverloadsOf(n))

\* The functions with a default value for the argument of node n.
WithDefault(n) == {f \in OverloadsOf(n) : VisibleArgs(overloads[f])[Len(n)].default}

\* The function ends here or has arguments in branches that were lost.
IsFinalOccurrence(f, n) == \A child \in Children(n) : f \notin OverloadsOf(child)

\* The children the function's arguments add, each after those already there.
WithPath(tree, path) ==
    LET prefixes == {SubSeq(path, 1, i) : i \in 0..Len(path)}
        known(n) == IF n \in DOMAIN tree THEN tree[n] ELSE <<>>
        more(n) == IF n \in prefixes \ {path} THEN {path[Len(n) + 1]} ELSE {}
    IN  [n \in DOMAIN tree \cup prefixes |->
            known(n) \o SetToSeq(more(n) \ ToSet(known(n)))]

-----------------------------------------------------------------------------
(* The number of arguments.                                                *)

RemovedArgs(sig) == Len(sig.args) - Len(VisibleArgs(sig))

Defaults(sig) == {i \in DOMAIN sig.args : sig.args[i].default /\ ~sig.args[i].removed}

\* Mutant: the position of the default value counts the argument itself.
LoweredByNext(sig, least) ==
    IF least > 0 /\ Defaults(sig) # {}
    THEN Min({least, Min(Defaults(sig)) - RemovedArgs(sig)})
    ELSE least

\* addOverload lowers the minimum to the position of the first default value,
\* counted without all the removed arguments, those after it included.
LoweredBy(sig, least) ==
    IF least > 0 /\ Defaults(sig) # {}
    THEN Min({least, Min(Defaults(sig)) - 1 - RemovedArgs(sig)})
    ELSE least

\* The root's count is taken in the constructor; addOverload counts again for
\* each visible argument, with the same result each time.
CountMin(sig, least) ==
    LET size == Len(VisibleArgs(sig))
    IN  IF size = 0 THEN Min({least, 0}) ELSE LoweredBy(sig, Min({least, size}))

CountMax(sig, greatest) == Max({greatest, Len(VisibleArgs(sig))})

\* invalidArgumentLengths: the numbers between the bounds no overload takes.
InvalidArgumentLengths ==
    LET visibleBefore(sig, i) == Len(SelectSeq(SubSeq(sig.args, 1, i - 1),
                                               LAMBDA arg : ~arg.removed))
        lengths(sig) == {visibleBefore(sig, i) : i \in Defaults(sig)}
                        \cup {Len(VisibleArgs(sig))}
    IN  ((minArgs + 1)..(maxArgs - 1)) \ UNION {lengths(overloads[f]) : f \in Funcs}

\* getArgumentsWithDefaultValues, as places among the visible arguments.
ArgumentsWithDefaultValues(sig) ==
    {i \in DOMAIN VisibleArgs(sig) : VisibleArgs(sig)[i].default}

HasArgumentWithDefaultValue ==
    maxArgs # 0 /\ \E f \in Funcs : Defaults(overloads[f]) # {}

-----------------------------------------------------------------------------
(* The order of the children: a graph over the names of types, an edge     *)
(* from what is tried first to what is tried after it.                     *)

IsClass(t) == Kind[t] \in {"value", "object"}
Instantiations(t) == IF Len(t) > 1 THEN {Tail(t)} ELSE {}

SignedInteger == {<<"int">>, <<"short">>, <<"long">>}
NonInteger == {<<"float">>, <<"double">>, <<"bool">>}
Primitives == SignedInteger \cup NonInteger \cup
    {<<"unsigned int">>, <<"unsigned long">>, <<"unsigned short">>,
     <<"unsigned char">>, <<"char">>, <<"const char*">>}

\* The containers of what item converts from.
ConvertibleContainers(t, item) ==
    {<<t[1]>> \o from : from \in IF item \in SignedInteger THEN NonInteger
                                                          ELSE ConvertsFrom[item]}

\* The vertices: the children and the types their containers depend on.
Vertices(children) ==
    ToSet(children) \cup
    UNION {{item} \cup ConvertibleContainers(t, item) :
              <<t, item>> \in {<<u, i>> \in ToSet(children) \X Types : i \in Instantiations(u)}}

\* removeEdge of the reverse before addEdge, and addEdge unless it is there.
Before(graph, first, second) == (graph \ {<<second, first>>}) \cup {<<first, second>>}
BeforeUnlessAfter(graph, first, second) ==
    IF <<second, first>> \in graph THEN graph ELSE graph \cup {<<first, second>>}

AllBefore(graph, firsts, t) ==
    FoldSet(LAMBDA first, g : Before(g, first, t), graph, firsts)
BeforeAll(graph, t, seconds) ==
    FoldSet(LAMBDA second, g : Before(g, t, second), graph, seconds)
AllBeforeUnlessAfter(graph, firsts, t) ==
    FoldSet(LAMBDA first, g : BeforeUnlessAfter(g, first, t), graph, firsts)

\* Mutant: the type that is converted to comes first.
ConversionEdgesReversed(graph, t, vertices) == BeforeAll(graph, t, ConvertsFrom[t] \cap vertices)

ConversionEdges(graph, t, vertices) == AllBefore(graph, ConvertsFrom[t] \cap vertices, t)

InheritanceEdges(graph, t, vertices) ==
    IF IsClass(t) THEN BeforeAll(graph, t, BasesOf[t] \cap vertices) ELSE graph

\* Mutant: no check for a cyclic dependency.
ContainerEdgesCyclic(graph, t) ==
    FoldSet(LAMBDA item, g : g \cup (({item} \cup ConvertibleContainers(t, item)) \X {t}),
            graph, Instantiations(t))

ContainerEdges(graph, t) ==
    FoldSet(LAMBDA item, g : AllBeforeUnlessAfter(g, {item} \cup ConvertibleContainers(t, item), t),
            graph, Instantiations(t))

\* PyObject, PySequence and PyBuffer are tried after the specific types, the
\* first of PySequence, PyBuffer and PyObject that is there; otherwise
\* QVariant after all and QString after the other pointers.
Names(t, name) == \E i \in DOMAIN t : t[i] = name
NamesPyObject(t) == Names(t, "PyObject")

\* Mutant: the second of the types that name PyObject.
SecondObject(children) ==
    LET objects == SelectSeq(children, NamesPyObject)
    IN  IF Len(objects) < 2 THEN {} ELSE {objects[2]}

FirstObject(children) ==
    LET objects == SelectSeq(children, NamesPyObject)
    IN  IF objects = <<>> THEN {} ELSE {objects[1]}

GenericEdges(graph, t, children) ==
    LET generic == IF <<"PySequence">> \in ToSet(children) THEN {<<"PySequence">>}
                   ELSE IF <<"PyBuffer">> \in ToSet(children) THEN {<<"PyBuffer">>}
                   ELSE FirstObject(children)
    IN  IF generic # {} /\ \A name \in {"PyObject", "PySequence", "PyBuffer"} : ~Names(t, name)
        THEN graph \cup {<<t, g>> : g \in generic}
        ELSE IF <<"QVariant">> \in ToSet(children) /\ t # <<"QVariant">>
        THEN BeforeUnlessAfter(graph, t, <<"QVariant">>)
        ELSE IF /\ <<"QString">> \in ToSet(children) /\ Kind[t] = "object"
                /\ t \notin {<<"QString">>, <<"QByteArray">>}
        THEN BeforeUnlessAfter(graph, t, <<"QString">>)
        ELSE graph

EnumEdges(graph, t, vertices) ==
    IF Kind[t] = "enum" THEN graph \cup {<<t, p>> : p \in Primitives \cap vertices} ELSE graph

EdgesOf(graph, t, children, vertices) ==
    EnumEdges(GenericEdges(ContainerEdges(InheritanceEdges(
        ConversionEdges(graph, t, vertices), t, vertices), t), t, children), t, vertices)

SequenceEdges(children) ==
    ({<<"PySequence">>} \cap ToSet(children)) \X FirstObject(children)

\* QString before QByteArray, enums before the classes made from integers,
\* and the other numbers before the signed integers.
LastEdges(children, vertices) ==
    LET fromInteger == {t \in ToSet(children) :
                           ConvertsFrom[t] \cap {<<"int">>, <<"unsigned int">>} # {}}
        enums == {t \in ToSet(children) : Kind[t] = "enum"}
    IN  (({<<"QString">>} \cap vertices) \X ({<<"QByteArray">>} \cap vertices))
        \cup (enums \X fromInteger)
        \cup ((NonInteger \cap vertices) \X (SignedInteger \cap vertices))

Dependencies(children) ==
    LET vertices == Vertices(children)
    IN  FoldLeft(LAMBDA g, t : EdgesOf(g, t, children, vertices),
                 SequenceEdges(children), children)
        \cup LastEdges(children, vertices)

\* The pairs connected by a path.
PathsOver(graph, vertices) ==
    FoldSet(LAMBDA v, r : r \cup ({e[1] : e \in {d \in r : d[2] = v}} \X
                                  {e[2] : e \in {d \in r : d[1] = v}}),
            graph, vertices)

\* Graph::topologicalSort: some order that agrees with the graph, the types
\* that are no children left out; nothing when the graph has a cycle.
TopologicalOrders(children) ==
    LET paths == PathsOver(Dependencies(children), Vertices(children))
    IN  IF \E v \in Vertices(children) : <<v, v>> \in paths
        THEN {<<>>}
        ELSE {s \in SetToSeqs(ToSet(children)) :
                 \A i, j \in DOMAIN s : <<s[i], s[j]>> \in paths => i < j}

-----------------------------------------------------------------------------
(* The constructor.                                                        *)

TreeInit ==
    /\ overloads = <<>>
    /\ minArgs = 256
    /\ maxArgs = 0
    /\ next = (<<>> :> <<>>)
    /\ phase = "declaring"

Declared == {overloads[f] : f \in Funcs}

AddOverload(sig) ==
    /\ phase = "declaring"
    /\ Len(overloads) < MaxOverloads
    /\ sig \notin Declared
    /\ \E family \in Families : Declared \cup {sig} \subseteq family
    /\ overloads' = Append(overloads, sig)
    /\ minArgs' = CountMin(sig, minArgs)
    /\ maxArgs' = CountMax(sig, maxArgs)
    /\ next' = WithPath(next, PathOf(sig))
    /\ UNCHANGED phase

\* sortNextOverloads sorts the children of every node, each on its own.
SortedTrees ==
    FoldSet(LAMBDA n, trees : {[tree EXCEPT ![n] = order] :
                                  tree \in trees, order \in TopologicalOrders(next[n])},
            {next}, {n \in Nodes : Len(next[n]) > 1})

SortNextOverloads ==
    /\ phase = "declaring"
    /\ overloads # <<>>
    /\ next' \in SortedTrees
    /\ minArgs' = Min({minArgs, maxArgs})
    /\ phase' = "generated"
    /\ UNCHANGED <<overloads, maxArgs>>
=============================================================================
