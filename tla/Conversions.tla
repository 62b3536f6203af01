---------------------------- MODULE Conversions ----------------------------
(***************************************************************************)
(* The converters of numbers and of the containers of numbers              *)
(* (libshiboken/conversions.h): which Python values they accept, the C++   *)
(* value they make of them, and whether they leave a Python error pending. *)
(* The widths of the C++ types are parameters.                             *)
(***************************************************************************)
EXTENDS Integers, Sequences, FiniteSets

CONSTANTS
    Number,         \* C++ types of numbers
    Converter,      \* [Number -> Converters]: the template each one uses
    Bits,           \* [Number -> Nat]: the widths
    Unsigned,       \* the numbers without a sign
    LongLongBits    \* the width of long, and of PY_LONG_LONG

Converters == {"PyInt", "PyULongInt", "Char", "LongLong", "PyFloat"}

ASSUME ConversionsAssumption ==
    /\ Converter \in [Number -> Converters] /\ Unsigned \subseteq Number
    /\ LongLongBits \in Nat \ {0} /\ Bits \in [Number -> 1..LongLongBits]

\* Arithmetic that the provers do not know.
ASSUME PowersAssumption ==
    \A n \in 1..LongLongBits : 2 ^ (n - 1) \in Nat \ {0} /\ 2 ^ n = 2 * 2 ^ (n - 1)

\* A converter takes an item, which is "text" when it is no number, and leaves a
\* C++ value and whether an error is pending.  The items of a "map" are the keys and
\* values one after the other; a value with no shape is what no type accepts.
Shape == {"scalar", "list", "pair", "map"}
CppType == [shape : Shape, items : Seq(Number) \ {<<>>}]
PyItem == [kind : {"int", "long", "float", "text"}, val : Int]
PyValue == [shape : Shape \cup {"none", "raised"}, items : Seq(PyItem)]

-----------------------------------------------------------------------------
(* Integers of a width.                                                    *)

Least(t) == IF t \in Unsigned THEN 0 ELSE -(2 ^ (Bits[t] - 1))
Greatest(t) == Least(t) + 2 ^ Bits[t] - 1
Fits(t, v) == v \in Least(t)..Greatest(t)

\* static_cast to a narrower type.
Cast(t, v) == ((v - Least(t)) % 2 ^ Bits[t]) + Least(t)

LongLong == -(2 ^ (LongLongBits - 1)) .. 2 ^ (LongLongBits - 1) - 1

\* PyLong_AsLongLong, PyLong_AsLong.
PyLongAsLongLong(item) ==
    IF item.kind # "text" /\ item.val \in LongLong
    THEN [val |-> item.val, error |-> FALSE]
    ELSE [val |-> -1, error |-> TRUE]

\* A double that is out of range has no defined value as an integer.
FloatAs(range, item) == IF item.val \in range THEN {item.val} ELSE range

\* Mutant: the value is compared after the conversion.
OverflowsConverted(t, v) == ~Fits(t, Cast(t, v))

\* OverFlowChecker::check, of a value that is a long long.
Overflows(t, v) ==
    IF t \in Unsigned THEN v < 0 \/ v > Greatest(t) ELSE v < Least(t) \/ v > Greatest(t)

-----------------------------------------------------------------------------
(* Converter<T>::toCpp, for an item that isConvertible accepted.           *)

PyIntToCpp(t, item) ==
    IF item.kind = "float"
    THEN {[val |-> v, error |-> Overflows(t, l)] :
              l \in FloatAs(LongLong, item), v \in FloatAs(Least(t)..Greatest(t), item)}
    ELSE LET l == PyLongAsLongLong(item) IN
         {[val |-> Cast(t, l.val), error |-> l.error \/ Overflows(t, l.val)]}

\* Only a PyInt is looked at; other numbers are 0.
CharToCpp(t, item) ==
    IF item.kind = "int"
    THEN {[val |-> Cast(t, item.val), error |-> Overflows(t, item.val)]}
    ELSE {[val |-> 0, error |-> FALSE]}

\* The precision of a double is more than these numbers need.
FloatToCpp(item) ==
    IF item.kind = "float" THEN {[val |-> item.val, error |-> FALSE]}
    ELSE {PyLongAsLongLong(item)}

NumberToCpp(t, item) ==
    CASE Converter[t] \in {"PyInt", "PyULongInt"} -> PyIntToCpp(t, item)
      [] Converter[t] = "Char"     -> CharToCpp(t, item)
      [] Converter[t] = "LongLong" -> {PyLongAsLongLong(item)}
      [] Converter[t] = "PyFloat"  -> FloatToCpp(item)

\* SbkNumber_Check.  A PY_LONG_LONG has no check of its own.
NumberConvertible(t, item) == Converter[t] # "LongLong" => item.kind # "text"

\* As a long; a PyLong of an unsigned long or a long long has its value.
AsLong(v) == ((v + 2 ^ (LongLongBits - 1)) % 2 ^ LongLongBits) - 2 ^ (LongLongBits - 1)

\* PyInt_FromLong, PyLong_FromUnsignedLong, PyLong_FromLongLong and
\* PyFloat_FromDouble.
NumberToPython(t, v) ==
    CASE Converter[t] \in {"PyInt", "Char"}          -> [kind |-> "int", val |-> AsLong(v)]
      [] Converter[t] \in {"PyULongInt", "LongLong"} -> [kind |-> "long", val |-> v]
      [] Converter[t] = "PyFloat"                    -> [kind |-> "float", val |-> v]

-----------------------------------------------------------------------------
(* Values: a number or a container of them.  A type is its shape and the   *)
(* number types of its items, of which a pair and a map have two.          *)

ItemType(type, i) == type.items[IF Len(type.items) = 1 \/ i % 2 = 1 THEN 1 ELSE 2]

\* isConvertible; that of a pair asks for one item that converts.
IsConvertible(type, value) ==
    LET converts(i) == NumberConvertible(ItemType(type, i), value.items[i]) IN
    /\ type.shape = value.shape \/ {type.shape, value.shape} = {"list", "pair"}
    /\ type.shape = "pair" => Len(value.items) = 2 /\ \E i \in {1, 2} : converts(i)
    /\ type.shape # "pair" => \A i \in DOMAIN value.items : converts(i)

\* An error of one item stays pending while the others are converted.
ItemsToCpp(type, value) ==
    LET each(i) == NumberToCpp(ItemType(type, i), value.items[i]) IN
    {c \in [DOMAIN value.items -> UNION {each(i) : i \in DOMAIN value.items}] :
        \A i \in DOMAIN c : c[i] \in each(i)}

ToCpp(type, value) ==
    {[items |-> [i \in DOMAIN c |-> c[i].val], error |-> \E i \in DOMAIN c : c[i].error] :
        c \in ItemsToCpp(type, value)}

ToPython(type, items) ==
    [shape |-> type.shape,
     items |-> [i \in DOMAIN items |-> NumberToPython(ItemType(type, i), items[i])]]
=============================================================================
