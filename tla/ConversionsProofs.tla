------------------------- MODULE ConversionsProofs -------------------------
(***************************************************************************)
(* Conversions are exact or leave an error pending, for every width of the *)
(* C++ types and every container.                                          *)
(***************************************************************************)
EXTENDS Conversions, TLAPS

-----------------------------------------------------------------------------
(* Integers of a width.                                                    *)

LEMMA Powers ==
    ASSUME NEW n \in 1..LongLongBits
    PROVE  2 ^ n \in Nat \ {0} /\ 2 ^ (n - 1) \in Nat \ {0} /\ 2 ^ n = 2 * 2 ^ (n - 1)
<1>1. 2 ^ (n - 1) \in Nat \ {0} /\ 2 ^ n = 2 * 2 ^ (n - 1)
  BY PowersAssumption
<1> DEFINE p == 2 ^ (n - 1)
           q == 2 ^ n
<1> HIDE DEF p, q
<1>2. p \in Nat \ {0} /\ q = 2 * p => q \in Nat \ {0}
  OBVIOUS
<1> QED BY <1>1, <1>2 DEF p, q

LEMMA Remainder ==
    ASSUME NEW a \in Int, NEW b \in Nat \ {0}
    PROVE  /\ a % b \in 0..(b - 1)
           /\ a \in 0..(b - 1) => a % b = a
  OBVIOUS

\* The range of a type has the size of its width.
LEMMA NumberRange ==
    ASSUME NEW t \in Number
    PROVE  /\ Least(t) \in Int /\ Greatest(t) \in Int /\ 2 ^ Bits[t] \in Nat \ {0}
           /\ Greatest(t) = Least(t) + 2 ^ Bits[t] - 1
<1>1. Bits[t] \in 1..LongLongBits
  BY ConversionsAssumption
<1>2. 2 ^ Bits[t] \in Nat \ {0} /\ 2 ^ (Bits[t] - 1) \in Nat \ {0}
  BY <1>1, Powers
<1>3. Least(t) \in Int
  BY <1>2 DEF Least
<1> QED BY <1>2, <1>3 DEF Greatest

LEMMA CastTyped ==
    ASSUME NEW t \in Number, NEW v \in Int
    PROVE  Cast(t, v) \in Int /\ (Fits(t, v) => Cast(t, v) = v)
<1> DEFINE l == Least(t)
           n == 2 ^ Bits[t]
<1>1. l \in Int /\ n \in Nat \ {0} /\ Greatest(t) = l + n - 1
  BY NumberRange
<1>2. Cast(t, v) = ((v - l) % n) + l
  BY DEF Cast
<1>3. Fits(t, v) <=> v \in l..Greatest(t)
  BY DEF Fits
<1> HIDE DEF l, n
<1>4. v - l \in Int
  BY <1>1
<1>5. (v - l) % n \in 0..(n - 1) /\ (v - l \in 0..(n - 1) => (v - l) % n = v - l)
  BY <1>1, <1>4, Remainder
<1> QED BY <1>1, <1>2, <1>3, <1>5

\* OverFlowChecker::check refuses exactly the values that do not fit.
LEMMA OverflowsExactly ==
    ASSUME NEW t \in Number, NEW v \in Int
    PROVE  Overflows(t, v) <=> ~Fits(t, v)
<1>1. Least(t) \in Int /\ Greatest(t) \in Int
  BY NumberRange
<1>2. t \in Unsigned => Least(t) = 0
  BY DEF Least
<1> QED BY <1>1, <1>2 DEF Overflows, Fits

LEMMA LongLongRange ==
    /\ 2 ^ LongLongBits \in Nat \ {0} /\ 2 ^ (LongLongBits - 1) \in Nat \ {0}
    /\ 2 ^ LongLongBits = 2 * 2 ^ (LongLongBits - 1)
    /\ LongLong \subseteq Int /\ 0 \in LongLong
<1>1. LongLongBits \in 1..LongLongBits
  BY ConversionsAssumption
<1>2. /\ 2 ^ LongLongBits \in Nat \ {0} /\ 2 ^ (LongLongBits - 1) \in Nat \ {0}
      /\ 2 ^ LongLongBits = 2 * 2 ^ (LongLongBits - 1)
  BY <1>1, Powers
<1> DEFINE p == 2 ^ (LongLongBits - 1)
<1>3. LongLong = -p .. p - 1 /\ p \in Nat \ {0}
  BY <1>2 DEF LongLong
<1> HIDE DEF p
<1>4. LongLong \subseteq Int /\ 0 \in LongLong
  BY <1>3
<1> QED BY <1>2, <1>4

LEMMA AsLongExact ==
    ASSUME NEW v \in LongLong
    PROVE  AsLong(v) = v
<1> DEFINE p == 2 ^ (LongLongBits - 1)
           q == 2 ^ LongLongBits
<1>1. p \in Nat \ {0} /\ q \in Nat \ {0} /\ q = 2 * p
  BY LongLongRange
<1>2. v \in -p .. p - 1
  BY DEF LongLong
<1>3. AsLong(v) = ((v + p) % q) - p
  BY DEF AsLong
<1> HIDE DEF p, q
<1>4. v + p \in Int /\ v + p \in 0..(q - 1) /\ v \in Int
  BY <1>1, <1>2
<1>5. (v + p) % q = v + p
  BY <1>1, <1>4, Remainder
<1> QED BY <1>1, <1>3, <1>4, <1>5

-----------------------------------------------------------------------------
(* Numbers.                                                                *)

LEMMA AsLongLongTyped ==
    ASSUME NEW item \in PyItem, NEW c, c = PyLongAsLongLong(item)
    PROVE  /\ c.val \in Int /\ c.error \in BOOLEAN
           /\ ~c.error => c.val = item.val /\ c.val \in LongLong
  BY DEF PyLongAsLongLong, PyItem

LEMMA FloatAsTyped ==
    ASSUME NEW item \in PyItem, NEW r \in SUBSET Int, NEW v \in FloatAs(r, item)
    PROVE  v \in Int /\ (item.val \in r => v = item.val)
  BY DEF FloatAs, PyItem

\* An item has an exact C++ value, or is an error, when it is no double out of the
\* range of a long, and for the type char a Python int, which is a long.
ExactItem(t, item) ==
    /\ item.kind = "float" => item.val \in LongLong
    /\ Converter[t] = "Char" => item.kind = "int" /\ item.val \in LongLong

LEMMA PyIntToCppExact ==
    ASSUME NEW t \in Number, NEW item \in PyItem, NEW c \in PyIntToCpp(t, item)
    PROVE  /\ c.val \in Int /\ c.error \in BOOLEAN
           /\ (item.kind = "float" => item.val \in LongLong) /\ ~c.error =>
                  c.val = item.val /\ c.val \in LongLong
<1>1. CASE item.kind = "float"
  <2> DEFINE r == Least(t)..Greatest(t)
  <2>1. PICK l \in FloatAs(LongLong, item), v \in FloatAs(r, item) :
            c = [val |-> v, error |-> Overflows(t, l)]
    BY <1>1 DEF PyIntToCpp
  <2>2. r \in SUBSET Int /\ LongLong \in SUBSET Int
    BY LongLongRange
  <2>3. l \in Int /\ (item.val \in LongLong => l = item.val)
    BY <2>2, FloatAsTyped
  <2>4. v \in Int /\ (item.val \in r => v = item.val)
    <3> HIDE DEF r
    <3> QED BY <2>2, <2>1, FloatAsTyped
  <2>5. c.val = v /\ c.error = Overflows(t, l)
    BY <2>1
  <2>6. Overflows(t, l) <=> l \notin r
    BY <2>3, OverflowsExactly DEF Fits
  <2>7. Overflows(t, l) \in BOOLEAN
    BY DEF Overflows
  <2> HIDE DEF r
  <2> QED BY <1>1, <2>3, <2>4, <2>5, <2>6, <2>7
<1>2. CASE item.kind # "float"
  <2> DEFINE l == PyLongAsLongLong(item)
  <2>1. c = [val |-> Cast(t, l.val), error |-> l.error \/ Overflows(t, l.val)]
    BY <1>2 DEF PyIntToCpp
  <2>2. /\ l.val \in Int /\ l.error \in BOOLEAN
        /\ ~l.error => l.val = item.val /\ l.val \in LongLong
    BY AsLongLongTyped
  <2>3. c.val = Cast(t, l.val) /\ c.error = (l.error \/ Overflows(t, l.val))
    BY <2>1
  <2> HIDE DEF l
  <2>4. Cast(t, l.val) \in Int /\ (Fits(t, l.val) => Cast(t, l.val) = l.val)
    BY <2>2, CastTyped
  <2>5. Overflows(t, l.val) <=> ~Fits(t, l.val)
    BY <2>2, OverflowsExactly
  <2> QED BY <2>2, <2>3, <2>4, <2>5
<1> QED BY <1>1, <1>2

LEMMA NumberToCppExact ==
    ASSUME NEW t \in Number, NEW item \in PyItem, NEW c \in NumberToCpp(t, item)
    PROVE  /\ c.val \in Int /\ c.error \in BOOLEAN
           /\ ExactItem(t, item) /\ ~c.error =>
                  c.val = item.val /\ c.val \in LongLong
<1>1. Converter[t] \in Converters
  BY ConversionsAssumption
<1>2. CASE Converter[t] \in {"PyInt", "PyULongInt"}
  <2>1. NumberToCpp(t, item) = PyIntToCpp(t, item)
    BY <1>2 DEF NumberToCpp
  <2> QED BY <2>1, PyIntToCppExact DEF ExactItem
<1>3. CASE Converter[t] = "Char"
  <2>1. NumberToCpp(t, item) = CharToCpp(t, item)
    BY <1>3 DEF NumberToCpp
  <2>2. CASE item.kind = "int"
    <3>1. c = [val |-> Cast(t, item.val), error |-> Overflows(t, item.val)]
      BY <2>1, <2>2 DEF CharToCpp
    <3>2. item.val \in Int
      BY DEF PyItem
    <3>3. Cast(t, item.val) \in Int /\ Overflows(t, item.val) \in BOOLEAN
      BY <3>2, CastTyped DEF Overflows
    <3>4. Cast(t, item.val) = item.val \/ Overflows(t, item.val)
      BY <3>2, CastTyped, OverflowsExactly
    <3> QED BY <1>3, <3>1, <3>3, <3>4 DEF ExactItem
  <2>3. CASE item.kind # "int"
    <3>1. c = [val |-> 0, error |-> FALSE]
      BY <2>1, <2>3 DEF CharToCpp
    <3>2. c.val \in Int /\ c.error \in BOOLEAN
      BY <3>1
    <3> QED BY <1>3, <2>3, <3>2 DEF ExactItem
  <2> QED BY <2>2, <2>3
<1>4. CASE Converter[t] = "LongLong"
  <2>1. c = PyLongAsLongLong(item)
    BY <1>4 DEF NumberToCpp
  <2> QED BY <2>1, AsLongLongTyped
<1>5. CASE Converter[t] = "PyFloat"
  <2>1. c \in FloatToCpp(item)
    BY <1>5 DEF NumberToCpp
  <2>2. CASE item.kind = "float"
    <3>1. c = [val |-> item.val, error |-> FALSE]
      BY <2>1, <2>2 DEF FloatToCpp
    <3>2. c.val = item.val /\ c.error = FALSE /\ item.val \in Int
      BY <3>1 DEF PyItem
    <3> QED BY <2>2, <3>2 DEF ExactItem
  <2>3. CASE item.kind # "float"
    <3>1. c = PyLongAsLongLong(item)
      BY <2>1, <2>3 DEF FloatToCpp
    <3> QED BY <3>1, AsLongLongTyped
  <2> QED BY <2>2, <2>3
<1> QED BY <1>1, <1>2, <1>3, <1>4, <1>5 DEF Converters

LEMMA NumberToPythonExact ==
    ASSUME NEW t \in Number, NEW v \in LongLong
    PROVE  NumberToPython(t, v).val = v
<1>1. Converter[t] \in Converters
  BY ConversionsAssumption
<1>2. AsLong(v) = v
  BY AsLongExact
<1> QED BY <1>1, <1>2 DEF Converters, NumberToPython

-----------------------------------------------------------------------------
(* Values.                                                                 *)

LEMMA ItemTyped ==
    ASSUME NEW type \in CppType, NEW i \in Nat
    PROVE  ItemType(type, i) \in Number
<1>1. type.items \in Seq(Number) /\ type.items # <<>>
  BY DEF CppType
<1> DEFINE s == type.items
<1>2. Len(s) \in Nat \ {0} /\ \A j \in 1..Len(s) : s[j] \in Number
  BY <1>1
<1>3. PICK j \in 1..Len(s) : ItemType(type, i) = s[j]
  <2>1. CASE Len(s) = 1 \/ i % 2 = 1
    BY <1>2, <2>1 DEF ItemType
  <2>2. CASE ~(Len(s) = 1 \/ i % 2 = 1)
    <3>1. ItemType(type, i) = s[2]
      BY <2>2 DEF ItemType
    <3>2. Len(s) # 1
      BY <2>2
    <3>3. 2 \in 1..Len(s)
      <4> DEFINE n == Len(s)
      <4>1. n \in Nat \ {0} /\ n # 1
        BY <1>2, <3>2
      <4> HIDE DEF n
      <4>2. 2 \in 1..n
        BY <4>1
      <4> QED BY <4>2 DEF n
    <3> QED BY <3>1, <3>3
  <2> QED BY <2>1, <2>2
<1> QED BY <1>2, <1>3

\* A value that Python code passes or returns arrives as it is or leaves an
\* error pending, unless it has a double out of the range of a long, or another
\* number than an int for a char: toCpp with OverFlowChecker (conversions.h).
THEOREM ConversionsExact ==
    ASSUME NEW type \in CppType, NEW value \in PyValue, NEW c \in ToCpp(type, value)
    PROVE  /\ c.items \in Seq(Int) /\ c.error \in BOOLEAN
           /\ DOMAIN c.items = DOMAIN value.items
           /\ \A i \in DOMAIN value.items :
                 ExactItem(ItemType(type, i), value.items[i]) /\ ~c.error =>
                     c.items[i] = value.items[i].val /\ c.items[i] \in LongLong
<1> DEFINE s == value.items
           each(i) == NumberToCpp(ItemType(type, i), s[i])
<1>1. s \in Seq(PyItem) /\ Len(s) \in Nat /\ DOMAIN s = 1..Len(s)
  BY DEF PyValue
<1>2. PICK d \in ItemsToCpp(type, value) :
          c = [items |-> [i \in DOMAIN d |-> d[i].val], error |-> \E i \in DOMAIN d : d[i].error]
  BY DEF ToCpp
<1>3. DOMAIN d = 1..Len(s) /\ \A i \in 1..Len(s) : d[i] \in each(i)
  BY <1>1, <1>2 DEF ItemsToCpp
<1>4. ASSUME NEW i \in 1..Len(s)
      PROVE  /\ d[i].val \in Int /\ d[i].error \in BOOLEAN
             /\ ExactItem(ItemType(type, i), s[i]) /\ ~d[i].error =>
                    d[i].val = s[i].val /\ d[i].val \in LongLong
             /\ ItemType(type, i) \in Number
  <2>1. s[i] \in PyItem
    BY <1>1
  <2>2. ItemType(type, i) \in Number
    BY <1>1, ItemTyped
  <2>3. d[i] \in NumberToCpp(ItemType(type, i), s[i])
    BY <1>3
  <2> QED BY <2>1, <2>2, <2>3, NumberToCppExact
<1>5. c.items = [i \in 1..Len(s) |-> d[i].val] /\ c.error = (\E i \in 1..Len(s) : d[i].error)
  BY <1>2, <1>3
<1> HIDE DEF s, each
<1>6. c.items \in Seq(Int)
  BY <1>1, <1>4, <1>5
<1>7. c.error \in BOOLEAN /\ DOMAIN c.items = DOMAIN s
  BY <1>1, <1>5
<1>8. ASSUME ~c.error, NEW i \in 1..Len(s), ExactItem(ItemType(type, i), s[i])
      PROVE  c.items[i] = s[i].val /\ c.items[i] \in LongLong
  BY <1>4, <1>5, <1>8
<1> QED BY <1>1, <1>6, <1>7, <1>8 DEF s

\* What C++ code returns to Python code is what it returned, in a long.
THEOREM ResultsExact ==
    ASSUME NEW type \in CppType, NEW items \in Seq(LongLong)
    PROVE  /\ DOMAIN ToPython(type, items).items = DOMAIN items
           /\ \A i \in DOMAIN items : ToPython(type, items).items[i].val = items[i]
<1>1. ToPython(type, items).items = [i \in DOMAIN items |-> NumberToPython(ItemType(type, i), items[i])]
  BY DEF ToPython
<1>2. ASSUME NEW i \in DOMAIN items
      PROVE  ToPython(type, items).items[i].val = items[i]
  <2>1. i \in Nat /\ items[i] \in LongLong
    OBVIOUS
  <2> QED BY <1>1, <2>1, ItemTyped, NumberToPythonExact
<1> QED BY <1>1, <1>2
=============================================================================
