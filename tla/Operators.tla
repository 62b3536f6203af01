------------------------------- MODULE Operators -------------------------------
(***************************************************************************)
(* The operators of the bound classes.  A binary operator of Python is one *)
(* function of the class (writeTypeAsNumberDefinition) for the C++         *)
(* operators whose left operand the class is, the direct ones, and those   *)
(* whose right operand it is, the reverse ones.  The wrapper finds out     *)
(* which operand is its own (writeCppSelfDefinition), asks the other       *)
(* operand's class first (writeMethodWrapper), and then decides among its  *)
(* own overloads.  The comparisons of a class are one function too         *)
(* (writeRichCompareFunction).                                             *)
(*                                                                         *)
(* Operators here are +, == and <, and > as the reflection of <.           *)
(***************************************************************************)
EXTENDS OverloadDecisor

CONSTANTS
    OperatorGroups,  \* the operators of <<class, operator>>, for a few classes
    Operands,        \* the Python objects to operate on
    RecursionLimit   \* bound: wrappers inside each other (Python's limit is 1000)

ComparisonOps == {"==", "<", ">"}
Ops == {"+"} \cup ComparisonOps

\* A C++ operator of a class: the type of the other operand, and on which side
\* the class stands.
Operator == [type : Types, reverse : BOOLEAN]

ASSUME OperatorsAssumption ==
    /\ \A group \in OperatorGroups :
          /\ DOMAIN group \subseteq Types \X Ops
          /\ \A key \in DOMAIN group :
                /\ IsClass(key[1]) /\ group[key] \subseteq Operator
                /\ key[2] \in ComparisonOps => \A o \in group[key] : ~o.reverse
    /\ Operands \subseteq Types \cup {PyNone}
    /\ RecursionLimit \in Nat \ {0}

VARIABLES
    operators,     \* the overloads of each function, in the order of its checks
    question,      \* what Python evaluates: the operands and the operator
    wrappers,      \* the wrappers that run, the innermost last
    answer         \* what the last one returned; an error that is pending

operatorVars == <<operators, question, wrappers, answer>>

NoAnswer == [kind |-> "none"]
NoQuestion == [op |-> "none"]
Raised(error) == [kind |-> "raised", error |-> error]

-----------------------------------------------------------------------------
(* The order of the checks.  Each operator has a node of its own, also when *)
(* the types are the same; the sort knows the last node of a type only.     *)

MappedLast(s, o) == \A i, j \in DOMAIN s : s[i] = o /\ s[j].type = o.type => j <= i

CheckOrders(s) ==
    LET types == [i \in DOMAIN s |-> s[i].type]
        paths == PathsOver(Dependencies(types), Vertices(types))
        mapped == {o \in ToSet(s) : MappedLast(s, o)}
    IN  IF Len(s) <= 1 THEN {s}
        ELSE IF \E v \in Vertices(types) : <<v, v>> \in paths THEN {<<>>}
        ELSE {t \in SetToSeqs(ToSet(s)) :
                 \A i, j \in DOMAIN t :
                     {t[i], t[j]} \subseteq mapped /\ <<t[i].type, t[j].type>> \in paths => i < j}

\* The one number type among the alternatives, on whichever side they take it,
\* accepts every number.
AcceptsOperand(overloadsOf, o, arg) ==
    LET numbers == {t \in {p.type : p \in ToSet(overloadsOf)} : Kind[t] \in Numeric}
    IN  Accepts(arg, o.type, Kind[o.type] = "int" \/ Cardinality(numbers) = 1)

-----------------------------------------------------------------------------
(* Whose function Python calls.                                             *)

\* The classes whose function for op the object's class has or inherits.
SlotOf(op) == IF op \in ComparisonOps THEN ComparisonOps ELSE {op}
Providers(a, op) ==
    {class \in Types : /\ \E o \in SlotOf(op) : <<class, o>> \in DOMAIN operators
                       /\ a # PyNone /\ IsInstance(a, class)}
Provider(a, op) ==
    CHOOSE class \in Providers(a, op) : Providers(a, op) \subseteq {class} \cup BasesOf[class]

HasSlot(a, op) == Providers(a, op) # {}

\* The right operand is asked first if its class is derived from the left's
\* and has another function.
RightFirst(left, op, right) ==
    /\ HasSlot(right, op)
    /\ HasSlot(left, op) => /\ left # right /\ IsInstance(right, left)
                            /\ Provider(left, op) # Provider(right, op)
                               \/ op \in ComparisonOps

Reflected(op) == IF op = "<" THEN ">" ELSE IF op = ">" THEN "<" ELSE op

\* checkType: the check of a class of objects accepts None.
ChecksOwn(a, class) == IsInstance(a, class) \/ (Kind[class] = "object" /\ a = PyNone)

IsReverse(class, left, right) == ChecksOwn(right, class) /\ ~ChecksOwn(left, class)

BinaryWrapper(class, op, left, right) ==
    LET reverse == IsReverse(class, left, right)
    IN  [class |-> class, op |-> op, reverse |-> reverse, state |-> "entered",
         self |-> IF reverse THEN right ELSE left, arg |-> IF reverse THEN left ELSE right]

RichCompare(class, op, left, right) ==
    [class |-> class, op |-> op, reverse |-> FALSE, state |-> "deciding",
     self |-> left, arg |-> right]

\* The function Python calls; none of them returns NotImplemented, so that it
\* calls no other.
FirstCalled(left, op, right) ==
    LET class == Provider(IF RightFirst(left, op, right) THEN right ELSE left, op)
    IN  IF op = "+" THEN BinaryWrapper(class, op, left, right)
        ELSE IF RightFirst(left, op, right) THEN RichCompare(class, Reflected(op), right, left)
        ELSE RichCompare(class, op, left, right)

-----------------------------------------------------------------------------
(* The steps.                                                               *)

OperatorInit ==
    /\ operators = <<>>
    /\ question = NoQuestion
    /\ wrappers = <<>>
    /\ answer = NoAnswer

\* The generator sorts the operators of each class.
DeclareOperators(group) ==
    /\ phase = "declaring" /\ overloads = <<>>
    /\ \E declared \in [DOMAIN group -> UNION {SetToSeqs(group[key]) : key \in DOMAIN group}] :
          /\ \A key \in DOMAIN group : ToSet(declared[key]) = group[key]
          /\ operators' \in [DOMAIN group -> UNION {CheckOrders(declared[key]) : key \in DOMAIN group}]
          /\ \A key \in DOMAIN group : operators'[key] \in CheckOrders(declared[key])
    /\ phase' = "operators"
    /\ UNCHANGED <<overloads, minArgs, maxArgs, next, question, wrappers, answer>>

Operate ==
    /\ phase = "operators" /\ question = NoQuestion
    /\ \E left, right \in Operands, op \in Ops :
          /\ HasSlot(left, op) \/ HasSlot(right, op)
          /\ question' = [left |-> left, op |-> op, right |-> right]
          /\ wrappers' = <<FirstCalled(left, op, right)>>
    /\ UNCHANGED <<operators, answer>> /\ UNCHANGED treeVars

Top == Last(wrappers)
Running(state) == wrappers # <<>> /\ Top.state = state
Moved(state) == [wrappers EXCEPT ![Len(wrappers)].state = state]

\* The other operand is a wrapper with the operator, and not of self's class.
Asks(w) ==
    /\ ~w.reverse
    /\ w.arg # PyNone /\ IsClass(w.arg)
    /\ ~IsInstance(w.arg, w.self)
    /\ HasSlot(w.arg, w.op)

\* The validity check lets None pass; its C++ object is then read from what is
\* no wrapper.
Enter ==
    /\ Running("entered")
    /\ IF Top.self = PyNone
       THEN answer' = [kind |-> "fault"] /\ wrappers' = <<>>
       ELSE IF ~Asks(Top)
       THEN wrappers' = Moved("deciding") /\ UNCHANGED answer
       ELSE IF Len(wrappers) = RecursionLimit
       THEN wrappers' = Moved("asked") /\ answer' = Raised("RuntimeError")
       ELSE /\ wrappers' = Append(Moved("asked"),
                                  BinaryWrapper(Provider(Top.arg, Top.op), Top.op, Top.self, Top.arg))
            /\ UNCHANGED answer
    /\ UNCHANGED <<operators, question>> /\ UNCHANGED treeVars

\* Mutant: every error of the other operand is kept.
OtherAnsweredKeepsErrors ==
    /\ Running("asked") /\ answer # NoAnswer
    /\ IF answer.kind = "called"
       THEN wrappers' = Front(wrappers)
       ELSE wrappers' = Moved("deciding")
    /\ UNCHANGED <<operators, question, answer>> /\ UNCHANGED treeVars

\* NotImplementedError is cleared; the decisor runs with other errors pending.
OtherAnswered ==
    /\ Running("asked") /\ answer # NoAnswer
    /\ IF answer.kind = "called"
       THEN wrappers' = Front(wrappers) /\ UNCHANGED answer
       ELSE /\ wrappers' = Moved("deciding")
            /\ answer' = IF answer = Raised("NotImplementedError") THEN NoAnswer ELSE answer
    /\ UNCHANGED <<operators, question>> /\ UNCHANGED treeVars

Candidates(w) ==
    IF <<w.class, w.op>> \notin DOMAIN operators THEN {}
    ELSE LET own == operators[<<w.class, w.op>>]
         IN  {i \in DOMAIN own : own[i].reverse = w.reverse /\ AcceptsOperand(own, own[i], w.arg)}

\* What the function says when it has no overload for the operand.
NotFoundAnswer(w) ==
    IF w.op = "+" /\ ~w.reverse THEN Raised("TypeError")
    ELSE IF w.op = "==" /\ <<w.class, w.op>> \in DOMAIN operators THEN [kind |-> "default"]
    ELSE Raised("NotImplementedError")

\* A pending error stays; no C++ function is called then.
DecideOperator ==
    /\ Running("deciding")
    /\ answer' = IF Candidates(Top) = {} THEN NotFoundAnswer(Top)
                 ELSE IF answer # NoAnswer THEN answer
                 ELSE [kind |-> "called", class |-> Top.class, op |-> Top.op,
                       operator |-> operators[<<Top.class, Top.op>>][Min(Candidates(Top))],
                       self |-> Top.self, arg |-> Top.arg]
    /\ wrappers' = Front(wrappers)
    /\ UNCHANGED <<operators, question>> /\ UNCHANGED treeVars

Evaluated == question # NoQuestion /\ wrappers = <<>> /\ answer # NoAnswer

\* The next question; after a fault that of another process.
Evaluate ==
    /\ Evaluated
    /\ question' = NoQuestion /\ answer' = NoAnswer
    /\ UNCHANGED <<operators, wrappers>> /\ UNCHANGED treeVars

OperatorNext ==
    \/ \E group \in OperatorGroups : DeclareOperators(group)
    \/ Operate \/ Enter \/ OtherAnswered \/ DecideOperator \/ Evaluate

-----------------------------------------------------------------------------
(* The wrappers of calls and of operators: a module has both.               *)

WrappersInit == Init /\ OperatorInit
WrappersNext ==
    \/ Next /\ UNCHANGED operatorVars
    \/ OperatorNext /\ UNCHANGED callVars

WrappersSpec == WrappersInit /\ [][WrappersNext]_<<vars, operatorVars>>

-----------------------------------------------------------------------------
(* What Python is promised.                                                 *)

\* The operators of the object's class that take the other operand.
Taking(a, op, other, reverse) ==
    LET class == Provider(a, op)
    IN  IF ~HasSlot(a, op) \/ <<class, op>> \notin DOMAIN operators THEN {}
        ELSE {o \in ToSet(operators[<<class, op>>]) :
                 o.reverse = reverse /\ AcceptsOperand(operators[<<class, op>>], o, other)}

\* The sort has placed every operator: no type is there on both sides.
AllMapped(key) == \A o, p \in ToSet(operators[key]) : o.type = p.type => o = p

\* The function called is one of some, on the operands as they stand, and the
\* one declared for the operand's type if it is among them.
CalledOneOf(some, self, arg) ==
    /\ answer.kind = "called" /\ answer.operator \in some
    /\ answer.self = self /\ answer.arg = arg
    /\ AllMapped(<<answer.class, answer.op>>) /\ (\E o \in some : IsOfType(arg, o.type)) =>
           IsOfType(arg, answer.operator.type)

\* Neither operand is an instance of the other's class, but for equal classes.
Unrelated(left, right) ==
    left = right \/ ~(IsInstance(left, right) \/ IsInstance(right, left))

\* Evaluating an operator of unrelated operands finds the C++ operator that is
\* there: for + a reverse one of the right operand's class that takes the left
\* operand, or else a direct one of the left operand's class that takes the
\* right one, each on its operands in their C++ order, or else it is an error;
\* an error with which the other class declined is gone (writeMethodWrapper).
\* A comparison that the left operand's class has for the right operand is
\* called, and == of a class that declares it is never an error
\* (writeRichCompareFunction).
OperatorFound ==
    Evaluated =>
        LET left == question.left
            right == question.right
            reverse == Taking(right, "+", left, TRUE)
            direct == Taking(left, question.op, right, FALSE)
        IN  PyNone \notin {left, right} /\ Unrelated(left, right) =>
                IF question.op = "+"
                THEN IF reverse # {} /\ left # right THEN CalledOneOf(reverse, right, left)
                     ELSE IF direct # {} THEN CalledOneOf(direct, left, right)
                     ELSE answer.kind = "raised"
                ELSE /\ direct # {} => CalledOneOf(direct, left, right)
                     /\ question.op = "==" /\ HasSlot(left, "==")
                        /\ <<Provider(left, "=="), "==">> \in DOMAIN operators
                            => answer.kind # "raised"
=============================================================================
