-------------------------- MODULE MCObjectLifetime --------------------------
(* Instances of ObjectLifetime for TLC.  a and b may have a C++ shell, c is  *)
(* of a class without one in the runs that name it so (see Polymorphic).     *)
EXTENDS ObjectLifetime, TLC

CONSTANTS a, b, c, p1, p2, p3

Nothing == {}

\* The parents and references that the program's functions make.
Family3 == {<<a, b>>, <<b, c>>, <<a, c>>}
OfTwo == {<<a, b>>}
Cycle == {<<a, b>>, <<b, a>>}
OfA == {<<a, b>>, <<a, c>>}
Down == {<<a, c>>}
Up == {<<c, a>>}

\* Addresses of C++ instances are interchangeable; threads are as well.
Interchangeable == Permutations(Ptr) \cup Permutations(Thread)
=============================================================================
