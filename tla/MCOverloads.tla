------------------------------ MODULE MCOverloads ------------------------------
(* Instances of OverloadDecisor and Operators for TLC: groups of overloads   *)
(* like those of the sample library (tests/libsample/overload.h,             *)
(* sortedoverload.h, point.h, str.h, objecttypeoperators.h, derived.h).      *)
EXTENDS Operators, TLC

CONSTANTS None, Null

Int1 == <<"int">>
Dbl == <<"double">>
Pt == <<"Point">>
PtF == <<"PointF">>

\* Kind, implicit conversions and bases of the types of the samples.
T(kind, from, bases) == [kind |-> kind, from |-> from, bases |-> bases]

Samples ==
    (<<"int">> :> T("int", {}, {})) @@ (<<"unsigned int">> :> T("int", {}, {})) @@
    (<<"double">> :> T("float", {}, {})) @@ (<<"float">> :> T("float", {}, {})) @@
    (<<"bool">> :> T("bool", {}, {})) @@
    (<<"Enum">> :> T("enum", {}, {})) @@
    (<<"FromInt">> :> T("value", {<<"int">>}, {})) @@
    (<<"Point">> :> T("value", {}, {})) @@
    (<<"PointF">> :> T("value", {<<"Point">>}, {})) @@
    (<<"list", "Point">> :> T("container", {}, {})) @@
    (<<"list", "PointF">> :> T("container", {}, {})) @@
    (<<"Polygon">> :> T("value", {<<"list", "Point">>, <<"Point">>}, {})) @@
    (<<"Var">> :> T("value", {<<"list", "Var">>}, {})) @@
    (<<"list", "Var">> :> T("container", {}, {})) @@
    (<<"QVariant">> :> T("value", {<<"int">>, Pt}, {})) @@
    (<<"Base">> :> T("object", {}, {})) @@
    (<<"Derived">> :> T("object", {}, {<<"Base">>})) @@
    (<<"PyObject">> :> T("pyobject", {}, {})) @@
    (<<"PySequence">> :> T("pysequence", {}, {})) @@
    (<<"PyBuffer">> :> T("pybuffer", {}, {}))

SampleKind == [t \in DOMAIN Samples |-> Samples[t].kind]
SampleConversions == [t \in DOMAIN Samples |-> Samples[t].from]
SampleBases == [t \in DOMAIN Samples |-> Samples[t].bases]

Arg(t) == [name |-> "arg", type |-> t, default |-> FALSE, removed |-> FALSE]
Opt(t, name) == [name |-> name, type |-> t, default |-> TRUE, removed |-> FALSE]
Gone(t) == [name |-> "gone", type |-> t, default |-> FALSE, removed |-> TRUE]
F(as) == [args |-> as, const |-> FALSE]
Const(sig) == [sig EXCEPT !.const = TRUE]

DecideFamilies ==
    {\* numbers, enums and what is made of them
     {F(<<Arg(Int1)>>), F(<<Arg(Dbl)>>), F(<<Arg(<<"bool">>)>>), F(<<Arg(<<"Enum">>)>>),
      F(<<Arg(<<"PyObject">>)>>)},
     {F(<<Arg(<<"FromInt">>)>>), F(<<Arg(Int1)>>), F(<<Arg(<<"Enum">>)>>)},
     \* values, their conversions and the generic types
     {F(<<Arg(Pt)>>), F(<<Arg(PtF)>>), F(<<Arg(<<"Polygon">>)>>),
      F(<<Arg(<<"list", "Point">>)>>), F(<<Arg(<<"list", "PointF">>)>>),
      F(<<Arg(<<"PySequence">>)>>), F(<<Arg(<<"PyObject">>)>>)},
     {F(<<Arg(<<"QVariant">>)>>), F(<<Arg(Int1)>>), F(<<Arg(Pt)>>), F(<<Arg(<<"Derived">>)>>)},
     {F(<<Arg(Pt)>>), Const(F(<<Arg(Pt)>>))},
     {F(<<Arg(<<"Var">>)>>), F(<<Arg(<<"list", "Var">>)>>), F(<<Arg(<<"PyObject">>)>>)},
     \* two arguments, default values, removed arguments
     {F(<<Opt(<<"Base">>, "parent")>>), F(<<Arg(Pt), Arg(PtF), Opt(<<"Base">>, "parent")>>)},
     {F(<<>>), F(<<Arg(Pt), Arg(Int1)>>), F(<<Arg(Pt), Arg(Dbl)>>), F(<<Arg(PtF)>>),
      F(<<Arg(PtF), Gone(Int1), Opt(<<"bool">>, "flag")>>)},
     {F(<<Arg(<<"Base">>), Opt(Int1, "number")>>), F(<<Arg(<<"Derived">>), Arg(Int1), Opt(Int1, "number")>>),
      F(<<Arg(<<"Derived">>), Arg(Dbl), Arg(<<"Base">>)>>), F(<<Arg(<<"PyObject">>), Arg(Dbl)>>)},
     \* several keywords
     {F(<<Arg(Pt), Opt(Int1, "number"), Opt(Dbl, "ratio")>>), F(<<Arg(PtF)>>),
      F(<<Opt(<<"Base">>, "parent"), Opt(Int1, "number")>>)}}

DecideValues == {None, Int1, Dbl, <<"bool">>, <<"Enum">>, Pt, PtF, <<"list", "Point">>,
                 <<"Var">>, <<"list", "Var">>, <<"Base">>, <<"Derived">>, <<"PyObject">>,
                 <<"PySequence">>}

\* Any argument, two of the types of the longer overloads and some that convert
\* to them, three where an overload has three.
PairValues == DecideValues \ {<<"Var">>, <<"list", "Var">>, <<"PyObject">>, <<"PySequence">>}

Positions ==
    {<<>>} \cup [1..1 -> DecideValues] \cup [1..2 -> PairValues]
    \cup {<<a, b, c>> : a \in {Pt, <<"Base">>, <<"Derived">>}, b \in {Int1, Dbl},
                       c \in {None, Int1, <<"bool">>, Pt, <<"Derived">>}}

\* One or two keywords after up to two arguments; "other" is no one's name.
Keywords ==
    UNION {[{name} -> {Int1, Pt, <<"Derived">>}] : name \in {"parent", "flag", "number"}}
    \cup [{"number", "ratio"} -> {Int1, Pt}] \cup [{"parent", "number"} -> {Int1, <<"Base">>}]
    \cup [{"other"} -> {Int1}]

ByPosition(positions) == {[args |-> p, kwds |-> NoKeywords] : p \in positions}

DecideCalls ==
    ByPosition(Positions)
    \cup {[args |-> p, kwds |-> k] :
             p \in {<<>>, <<Pt>>, <<<<"Derived">>>>, <<Pt, Int1>>, <<Pt, PtF>>,
                   <<<<"Derived">>, Int1>>},
             k \in Keywords}

\* Overloads that differ in their second argument, and a shorter one.
LongFamilies == {{F(<<Arg(Pt), Arg(Pt), Opt(Int1, "number")>>), F(<<Arg(Pt), Arg(Dbl)>>),
                  F(<<Arg(<<"Base">>)>>)}}
PointCalls == ByPosition(UNION {[1..n -> {Pt, Dbl, <<"Base">>}] : n \in 0..3})

Direct(t) == [type |-> t, reverse |-> FALSE]
Swapped(t) == [type |-> t, reverse |-> TRUE]

Var == <<"Var">>
Number == <<"QVariant">>
Base == <<"Base">>

SampleOperators ==
    {\* one number type on both sides, two of them
     (<<Pt, "+">> :> {Direct(Dbl), Swapped(Dbl)}) @@ (<<PtF, "+">> :> {Direct(Pt)}),
     (<<Pt, "+">> :> {Direct(Int1), Direct(Dbl), Swapped(Int1), Swapped(Dbl)}),
     (<<Pt, "+">> :> {Direct(Pt), Direct(Dbl), Direct(PtF), Swapped(<<"PyObject">>)}) @@
     (<<Pt, "==">> :> {Direct(Pt), Direct(Dbl)}),
     \* the right class declines, or takes the left operand first
     (<<Pt, "+">> :> {Direct(Pt), Direct(Var), Direct(Number)}) @@
     (<<Var, "+">> :> {Direct(Int1), Swapped(Int1)}) @@
     (<<Number, "+">> :> {Swapped(Pt), Swapped(PtF), Direct(Pt)}),
     (<<Pt, "+">> :> {Direct(PtF), Direct(Pt)}) @@
     (<<PtF, "+">> :> {Direct(PtF), Swapped(Dbl)}),
     \* comparisons
     (<<Pt, "==">> :> {Direct(Pt), Direct(PtF)}) @@ (<<Pt, "<">> :> {Direct(Int1)}) @@
     (<<PtF, ">">> :> {Direct(Pt), Direct(Dbl)}),
     \* classes of objects, and a class derived from one with operators
     (<<Base, "+">> :> {Direct(Base), Direct(Int1)}) @@ (<<Base, "<">> :> {Direct(Base)}),
     (<<Base, "+">> :> {Direct(Base), Direct(Pt)}) @@
     (<<<<"Derived">>, "+">> :> {Direct(Int1), Swapped(Pt)}) @@
     (<<<<"Derived">>, "==">> :> {Direct(Base)}) @@ (<<Base, "==">> :> {Direct(Base), Direct(Int1)})}

SampleOperands == {None, Int1, Dbl, <<"bool">>, Pt, PtF, Var, Number, Base, <<"Derived">>, <<"list", "Point">>}
=============================================================================
