---------------------------- MODULE OverloadDecisor ----------------------------
(***************************************************************************)
(* A call from Python of a name with several overloads: the code that      *)
(* CppGenerator writes from the tree of OverloadData to count the          *)
(* arguments (writeArgumentsInitializer), to decide which overload is      *)
(* meant (writeOverloadedFunctionDecisor), to take the keyword arguments   *)
(* of the one found (writeNamedArgumentResolution) and to call it          *)
(* (writeFunctionCalls).                                                   *)
(*                                                                         *)
(* A Python object is named after the C++ type it is an instance of; a     *)
(* Python int is <<"int">> whatever the C++ type it is passed to.          *)
(***************************************************************************)
EXTENDS OverloadData

CONSTANTS
    PyNone,        \* Py_None
    PyNull,        \* no object: an argument that was not passed
    PyValues,      \* the Python objects passed
    PyCalls        \* the calls: their positional and keyword arguments

ASSUME CallsAssumption ==
    /\ PyNone \in PyValues /\ PyNone \notin Types
    /\ PyValues \ {PyNone} \subseteq Types
    /\ PyNull \notin PyValues
    /\ \A passed \in PyCalls :
          /\ passed.args \in Seq(PyValues)
          /\ DOMAIN passed.kwds \subseteq STRING /\ Range(passed.kwds) \subseteq PyValues

VARIABLES
    args,          \* the positional arguments; numArgs is their number
    kwds,          \* the keyword arguments: a value for each name
    pyargs,        \* the slots the arguments are read from
    node,          \* the node whose children the decisor tries next
    chosen,        \* overloadId as an index in overloads; 0 is -1
    called,        \* the function called, as an index in overloads
    pc             \* where the call is

vars == <<overloads, minArgs, maxArgs, next, phase, args, kwds, pyargs, node, chosen, called, pc>>
callVars == <<args, kwds, pyargs, node, chosen, called, pc>>

\* Types; the tree has a node for every child, and the bounds are in order.
TypeOK ==
    /\ overloads \in Seq(UNION Families)
    /\ minArgs \in Int /\ maxArgs \in Nat
    /\ next \in [Nodes -> Seq(Types)]
    /\ \A n \in Nodes : Children(n) \subseteq Nodes
    /\ overloads # <<>> => minArgs <= maxArgs
    /\ phase \in {"declaring", "generated", "operators"}
    /\ args \in Seq(PyValues) /\ Range(kwds) \subseteq PyValues
    /\ pyargs \in Seq(PyValues \cup {PyNull}) /\ Len(pyargs) <= maxArgs
    /\ node \in Nodes
    /\ chosen \in 0..Len(overloads) /\ called \in 0..Len(overloads)
    /\ pc \in {"idle", "deciding", "decided", "resolving", "converting", "called",
              "TypeError", "raised", "null"}

-----------------------------------------------------------------------------
(* The checks of the types.                                                *)

Numeric == {"int", "float", "bool"}

IsInstance(a, t) == a = t \/ (a # PyNone /\ t \in BasesOf[a])
IsNumber(a) == a # PyNone /\ Kind[a] \in Numeric \cup {"enum"}
IsSequence(a) == a # PyNone /\ Kind[a] \in {"pysequence", "pybuffer", "container"}

\* PyInt_Check, PyFloat_Check and PyBool_Check; a Python bool is an int.
IsExactNumber(a, t) ==
    /\ a # PyNone
    /\ \/ Kind[a] = Kind[t]
       \/ Kind[a] = "bool" /\ Kind[t] = "int"

\* cpythonCheckFunction: what an implicit conversion accepts.
ChecksAs(a, t) ==
    \/ Kind[t] \in Numeric /\ IsExactNumber(a, t)
    \/ Kind[t] \in {"value", "enum"} /\ IsInstance(a, t)
    \/ Kind[t] = "object" /\ (a = PyNone \/ IsInstance(a, t))

\* Converter<T>::isConvertible but for conversions from a container.
ConvertsAlone(a, t) ==
    \/ Kind[t] \in {"int", "float"} /\ IsNumber(a)
    \/ Kind[t] = "bool" /\ IsExactNumber(a, <<"int">>)
    \/ Kind[t] = "enum" /\ IsInstance(a, t)
    \/ Kind[t] = "object" /\ (a = PyNone \/ IsInstance(a, t))
    \/ Kind[t] = "value" /\ (IsInstance(a, t) \/ \E from \in ConvertsFrom[t] : ChecksAs(a, from))

\* The items of a Python sequence are those its name says; those of a string
\* or of a mixed sequence convert to nothing.
ConvertsItems(a, t) ==
    IsSequence(a) /\ Kind[a] = "container" /\ ConvertsAlone(Tail(a), Tail(t))

Converts(a, t) ==
    \/ ConvertsAlone(a, t)
    \/ Kind[t] = "container" /\ ConvertsItems(a, t)
    \/ /\ Kind[t] = "value"
       /\ \E from \in ConvertsFrom[t] : Kind[from] = "container" /\ ConvertsItems(a, from)

\* Mutant: every number type accepts every number.
AcceptsEveryNumberOfAny(n) == Kind[Last(n)] \in Numeric

\* writeTypeCheck: the one number type among the alternatives and the types
\* read as Python ints accept every number.
AcceptsEveryNumber(n) ==
    \/ Kind[Last(n)] = "int"
    \/ Cardinality({t \in ToSet(next[Front(n)]) : Kind[t] \in Numeric}) = 1

Accepts(a, t, everyNumber) ==
    \/ Kind[t] = "pyobject"
    \/ Kind[t] = "pysequence" /\ IsSequence(a)
    \/ Kind[t] = "pybuffer" /\ a # PyNone /\ Kind[a] = "pybuffer"
    \/ Kind[t] \in Numeric /\ (IF everyNumber THEN IsNumber(a) ELSE IsExactNumber(a, t))
    \/ Kind[t] \in {"enum", "value", "object", "container"} /\ Converts(a, t)

\* The check of an argument that was not passed: PyObject_Check is true,
\* PyNumber_Check and PySequence_Check are false, the others read it.
CheckNull(t, everyNumber) ==
    IF Kind[t] = "pyobject" THEN "yes"
    ELSE IF Kind[t] = "pysequence" \/ (Kind[t] \in Numeric /\ everyNumber) THEN "no"
    ELSE "null"

Check(n) ==
    LET t == Last(n)
    IN  IF pyargs[Len(n)] = PyNull THEN CheckNull(t, AcceptsEveryNumber(n))
        ELSE IF Accepts(pyargs[Len(n)], t, AcceptsEveryNumber(n)) THEN "yes" ELSE "no"

-----------------------------------------------------------------------------
(* The decisor.                                                            *)

UsesListOfArguments ==
    minArgs # maxArgs \/ maxArgs > 1 \/ HasArgumentWithDefaultValue

\* METH_KEYWORDS, and the parameter kwds of the wrapper.
UsesNamedArguments == HasArgumentWithDefaultValue

\* writeArgumentsInitializer, METH_NOARGS and METH_O.
WrongNumber(n, named) ==
    n < minArgs \/ n + named > maxArgs \/ (named > 0 /\ ~UsesNamedArguments)

\* PyArg_ParseTuple fills the slots of the positional arguments.
Unpacked(passed) ==
    [i \in 1..maxArgs |-> IF i \in DOMAIN passed THEN passed[i] ELSE PyNull]

NextWithDefault(n) == {i \in DOMAIN next[n] : WithDefault(Append(n, next[n][i])) # {}}
FinalHere(n) == {f \in OverloadsOf(n) : IsFinalOccurrence(f, n)}
HasDefaultCall(n) == NextWithDefault(n) # {} \/ FinalHere(n) # {}

\* The function called with exactly the arguments up to node n.
DefaultCall(n) ==
    IF NextWithDefault(n) # {}
    THEN Min(WithDefault(Append(n, next[n][Min(NextWithDefault(n))])))
    ELSE Min(FinalHere(n))

\* The last argument of a signature needs no more checks.
IsLastArgument(n) ==
    /\ n # <<>>
    /\ next[n] = <<>> \/ (Cardinality(OverloadsOf(n)) = 1 /\ ~HasDefaultCall(n))

\* The checks of an only child join those of its parent.
JoinsParent(n) ==
    LET parent == Front(n)
    IN  /\ Len(next[parent]) = 1
        /\ NextWithDefault(parent) = {}
        /\ OverloadsOf(n) = OverloadsOf(parent)

EndOfChain(child) ==
    LET chain == {n \in Subtree(child) :
                                   \A i \in (Len(child) + 1)..Len(n) :
                                      JoinsParent(SubSeq(n, 1, i))}
    IN  CHOOSE n \in chain : \A m \in chain : Len(m) <= Len(n)

SignatureFound(child) ==
    /\ Cardinality(OverloadsOf(child)) = 1
    /\ \A n \in Subtree(child) : WithDefault(n) = {}

\* The condition on numArgs in front of the checks of a branch.
CountMatches(child) ==
    IF UsesListOfArguments /\ SignatureFound(child)
    THEN Len(args) = Len(VisibleArgs(overloads[ReferenceFunction(child)]))
    ELSE Len(EndOfChain(child)) > Len(child) => Len(args) >= Len(EndOfChain(child))

\* Mutant: a chain of only children is entered after its first check.
VerdictOfFirst(child) == IF CountMatches(child) THEN Check(child) ELSE "no"

\* The checks of a branch, up to the first that is not true.
Verdict(child) ==
    LET checks == {SubSeq(EndOfChain(child), 1, i) : i \in Len(child)..Len(EndOfChain(child))}
        failed == {n \in checks : Check(n) # "yes"}
    IN  IF ~CountMatches(child) THEN "no"
        ELSE IF failed = {} THEN "yes"
        ELSE Check(CHOOSE n \in failed : \A m \in failed : Len(n) <= Len(m))

\* The branches that end the search, in the order of the code.
Branch(n, i) == Append(n, next[n][i])
Stopping(n) == {i \in DOMAIN next[n] : Verdict(Branch(n, i)) # "no"}

-----------------------------------------------------------------------------
(* The call.                                                               *)

NoKeywords == [name \in {} |-> PyNull]

CallInit ==
    /\ args = <<>> /\ kwds = NoKeywords /\ pyargs = <<>>
    /\ node = <<>> /\ chosen = 0 /\ called = 0 /\ pc = "idle"

PyCall ==
    /\ phase = "generated" /\ pc = "idle"
    /\ \E passed \in PyCalls :
          /\ args' = passed.args /\ kwds' = passed.kwds
          /\ IF WrongNumber(Len(passed.args), Cardinality(DOMAIN passed.kwds))
             THEN pc' = "raised" /\ UNCHANGED pyargs
             ELSE /\ pyargs' = Unpacked(passed.args)
                  /\ pc' = IF Len(passed.args) \in InvalidArgumentLengths THEN "TypeError"
                           ELSE IF maxArgs = 0 THEN "decided" ELSE "deciding"
    /\ UNCHANGED <<node, chosen, called>> /\ UNCHANGED treeVars

Decided(f) ==
    /\ chosen' = f
    /\ pc' = "decided"
    /\ UNCHANGED <<args, kwds, pyargs, node, called>> /\ UNCHANGED treeVars

\* The argument at the node is the last of a signature.
DecideLast ==
    /\ pc = "deciding"
    /\ IsLastArgument(node)
    /\ Decided(ReferenceFunction(node))

\* The arguments end where one with a default value, or none, comes next.
DecideDefault ==
    /\ pc = "deciding"
    /\ ~IsLastArgument(node) /\ HasDefaultCall(node) /\ Len(args) = Len(node)
    /\ Decided(DefaultCall(node))

\* No number of arguments ends the search here.
TriesBranches == ~IsLastArgument(node) /\ ~(HasDefaultCall(node) /\ Len(args) = Len(node))

\* The first branch whose conditions hold.
DecideBranch ==
    /\ pc = "deciding"
    /\ TriesBranches /\ Stopping(node) # {}
    /\ LET child == Branch(node, Min(Stopping(node)))
       IN  IF Verdict(child) = "yes"
           THEN node' = EndOfChain(child) /\ UNCHANGED pc
           ELSE pc' = "null" /\ UNCHANGED node
    /\ UNCHANGED <<args, kwds, pyargs, chosen, called>> /\ UNCHANGED treeVars

\* Function signature not found.
NotFound ==
    /\ pc = "deciding"
    /\ TriesBranches /\ Stopping(node) = {}
    /\ pc' = "TypeError"
    /\ UNCHANGED <<args, kwds, pyargs, node, chosen, called>> /\ UNCHANGED treeVars

\* overloadsWithoutRepetition: no const function with a twin that is not.
Repeated(f) ==
    /\ overloads[f].const
    /\ \E g \in Funcs : /\ ~overloads[g].const
                        /\ [i \in DOMAIN overloads[g].args |-> overloads[g].args[i].type]
                             = [i \in DOMAIN overloads[f].args |-> overloads[f].args[i].type]

Cases == SelectSeq([f \in Funcs |-> f], LAMBDA f : ~Repeated(f))

\* The switch over overloadId counts the cases only.
Switch ==
    /\ pc = "decided"
    /\ called' = IF Len(Cases) = 1 THEN Cases[1]
                 ELSE IF chosen \in DOMAIN Cases THEN Cases[chosen] ELSE 0
    /\ pc' = IF called' = 0 THEN "called" ELSE "resolving"
    /\ UNCHANGED <<args, kwds, pyargs, node, chosen>> /\ UNCHANGED treeVars

Parameters == VisibleArgs(overloads[called])

\* The places of the function's arguments that a keyword names; the names it
\* does not know, those of other overloads included, are not looked at.
Named == {i \in ArgumentsWithDefaultValues(overloads[called]) :
              Parameters[i].name \in DOMAIN kwds}

NamedAccepted(i) ==
    Accepts(kwds[Parameters[i].name], Parameters[i].type, Kind[Parameters[i].type] \in Numeric)

\* A slot that is taken makes an error of its own, after the other names.
TakenTwice == {i \in Named : pyargs[i] # PyNull}

\* The slots with the keyword arguments put in.
Filled == [i \in DOMAIN pyargs |-> IF i \in Named THEN kwds[Parameters[i].name] ELSE pyargs[i]]

\* Mutant: a keyword replaces the argument passed by its position.
NamedArgumentsReplace ==
    /\ pc = "resolving"
    /\ IF \E i \in Named : ~NamedAccepted(i)
       THEN pc' = "TypeError" /\ UNCHANGED pyargs
       ELSE pyargs' = Filled /\ pc' = "converting"
    /\ UNCHANGED <<args, kwds, node, chosen, called>> /\ UNCHANGED treeVars

NamedArguments ==
    /\ pc = "resolving"
    /\ IF \E i \in Named \ TakenTwice : ~NamedAccepted(i)
       THEN pc' = "TypeError" /\ UNCHANGED pyargs
       ELSE IF TakenTwice # {}
       THEN pc' = "raised" /\ UNCHANGED pyargs
       ELSE pyargs' = Filled /\ pc' = "converting"
    /\ UNCHANGED <<args, kwds, node, chosen, called>> /\ UNCHANGED treeVars

\* The conversion of an argument follows its pointer, but for one with a default
\* value.
ConvertsNull(i) == ~Parameters[i].default /\ pyargs[i] = PyNull

ConvertArguments ==
    /\ pc = "converting"
    /\ pc' = IF \E i \in DOMAIN Parameters : ConvertsNull(i)
             THEN "null" ELSE "called"
    /\ UNCHANGED <<args, kwds, pyargs, node, chosen, called>> /\ UNCHANGED treeVars

\* The label TypeError at the end of the wrapper.
ErrorSection ==
    /\ pc = "TypeError"
    /\ pc' = "raised"
    /\ UNCHANGED <<args, kwds, pyargs, node, chosen, called>> /\ UNCHANGED treeVars

Return ==
    /\ pc \in {"called", "raised"}
    /\ args' = <<>> /\ kwds' = NoKeywords /\ pyargs' = <<>>
    /\ node' = <<>> /\ chosen' = 0 /\ called' = 0 /\ pc' = "idle"
    /\ UNCHANGED treeVars

Init == TreeInit /\ CallInit

Next ==
    \/ \E sig \in UNION Families : AddOverload(sig) /\ UNCHANGED callVars
    \/ SortNextOverloads /\ UNCHANGED callVars
    \/ PyCall \/ DecideLast \/ DecideDefault \/ DecideBranch \/ NotFound
    \/ Switch \/ NamedArguments \/ ConvertArguments
    \/ ErrorSection \/ Return

Spec == Init /\ [][Next]_vars
-----------------------------------------------------------------------------
(* Properties.                                                             *)

\* What the C++ declarations say, whatever the tree does with them.
Required(sig) ==
    LET given == {i \in DOMAIN VisibleArgs(sig) : ~VisibleArgs(sig)[i].default}
    IN  IF given = {} THEN 0 ELSE Max(given)

IsOfType(a, t) == a = t \/ (a # PyNone /\ Kind[t] = "int" /\ Kind[a] = "int")

TakesExactly(f) ==
    LET sig == overloads[f]
    IN  /\ Len(args) \in Required(sig)..Len(VisibleArgs(sig))
        /\ \A i \in DOMAIN args : IsOfType(args[i], PathOf(sig)[i])

Answered == pc \in {"called", "raised", "null"}

\* Each keyword names an argument of f with a default value that was not
\* passed by its position, and is of its type.
KeywordsFit(f) ==
    LET sig == VisibleArgs(overloads[f])
    IN  \A name \in DOMAIN kwds :
            \E i \in (Len(args) + 1)..Len(sig) :
                sig[i].default /\ sig[i].name = name /\ IsOfType(kwds[name], sig[i].type)

\* An overload declared for exactly the types of the arguments passed is the
\* one that is called, if it is the only one, whatever order the overloads
\* are declared in, whatever order the sort leaves open and whichever other
\* overloads would take the arguments by an implicit conversion; keyword
\* arguments that fit it do not change that (sortNextOverloads,
\* writeOverloadedFunctionDecisorEngine, writeNamedArgumentResolution).
ExactCallWins ==
    Answered =>
        LET exact == {f \in Funcs : TakesExactly(f)}
        IN  Cardinality(exact) = 1 /\ (\A f \in exact : KeywordsFit(f)) =>
                pc = "called" /\ exact = {called}

\* The overload called gets each argument at the place declared for it,
\* accepts it, has a default value for those that are missing, and a keyword
\* that is the name of one of those is that argument: no branch of the decisor
\* skips a check (the chains of only children included), and no keyword takes
\* a slot that a position has filled (writeNamedArgumentResolution).
CalledAccepts ==
    pc = "called" /\ called # 0 =>
        \A i \in DOMAIN Parameters :
            LET byName == Parameters[i].default /\ Parameters[i].name \in DOMAIN kwds
            IN  /\ i \in DOMAIN args => pyargs[i] = args[i] /\ ~byName
                /\ byName => pyargs[i] = kwds[Parameters[i].name]
                /\ IF pyargs[i] = PyNull THEN Parameters[i].default
                   ELSE Accepts(pyargs[i], Parameters[i].type, TRUE)

\* PyObject accepts everything, so that it is tried after its siblings.
PyObjectLast ==
    phase = "generated" =>
        \A n \in Nodes : \A i \in DOMAIN next[n] :
            Kind[next[n][i]] = "pyobject" => i = Len(next[n])

\* The sort loses no overload, whatever the dependencies between the types
\* of its siblings: the edges between two types do not make a cycle.
NoOverloadLost ==
    phase = "generated" => \A f \in Funcs : PathOf(overloads[f]) \in Subtree(<<>>)

\* The types are right, and the bounds on the number of arguments are those of
\* the declarations; with removed arguments the least may be too small, never
\* too great.
CountsAgree ==
    /\ TypeOK
    /\ phase = "generated" =>
           LET least == Min({Required(overloads[f]) : f \in Funcs})
           IN  /\ maxArgs = Max({Len(VisibleArgs(overloads[f])) : f \in Funcs})
               /\ minArgs <= least
               /\ (\A f \in Funcs : RemovedArgs(overloads[f]) = 0) => minArgs = least

\* A call with arguments that no overload takes, by their number and types,
\* is a TypeError: none is called and no argument that was not passed is read
\* (writeOverloadedFunctionDecisor; decisor_test.py of the sample binding).
MissingArgumentRaises ==
    Answered =>
        \/ pc = "raised"
        \/ \E f \in Funcs :
              /\ Len(args) \in Required(overloads[f])..Len(VisibleArgs(overloads[f]))
              /\ \A i \in DOMAIN args : Accepts(args[i], PathOf(overloads[f])[i], TRUE)
=============================================================================
