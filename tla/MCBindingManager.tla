-------------------------- MODULE MCBindingManager --------------------------
(* Instances of BindingManager for TLC, after the classes of                *)
(* tests/libsample/multiple_derived.h and the Python classes of             *)
(* multiple_derived_test.py and multi_cpp_inheritance_test.py.              *)
EXTENDS BindingManager, TLC

CONSTANTS Base1, Base2, MDerived1, Point, ExtMDerived1, Complex

MCClass == {Base1, Base2, MDerived1, Point}
MCCppBases ==
    [c \in MCClass |-> IF c = MDerived1 THEN <<Base1, Base2>> ELSE <<>>]
MCShift ==
    [c \in MCClass |-> IF c = MDerived1 THEN Base1 :> 0 @@ Base2 :> 1 @@ MDerived1 :> 0 ELSE c :> 0]
MCExtent == [c \in MCClass |-> 2]

\* A Python class of one class with two bases, and one that adds a second
\* C++ class to it.
MCBases == ExtMDerived1 :> <<MDerived1>> @@ Complex :> <<ExtMDerived1, Point>>
=============================================================================
