---------------------------- MODULE MCVirtualCall ----------------------------
(***************************************************************************)
(* Instances of VirtualCall for TLC: an object with a Python class that    *)
(* overrides a method and gets another from a mixin, and one without a     *)
(* Python class.                                                           *)
(***************************************************************************)
EXTENDS VirtualCall, TLC

CONSTANTS main, worker, e1, o1, o2, run, eventually, pure, Ext, Mixin, Base

\* Widths of 3 and 4 bits stand for those of short and of long.
MCConverter == [short |-> "PyInt", ulong |-> "PyULongInt"]
MCBits == [short |-> 3, ulong |-> 4]

Int1(v) == [kind |-> "int", val |-> v]
Scalar(x) == [shape |-> "scalar", items |-> <<x>>]
Pair(x, y) == [shape |-> "pair", items |-> <<x, y>>]

MCMro == (o1 :> <<Ext, Mixin, Base>>) @@ (o2 :> <<Base>>)
MCDefines == (Ext :> {run}) @@ (Mixin :> {eventually}) @@ (Base :> {run, eventually, pure})
MCParam ==
    (run :> [shape |-> "scalar", items |-> <<"short">>])
        @@ (eventually :> [shape |-> "pair", items |-> <<"short", "ulong">>])
        @@ (pure :> [shape |-> "scalar", items |-> <<"short">>])

Text == [kind |-> "text", val |-> 0]
MCValue == {Scalar(Int1(1)), Scalar(Int1(5)), Pair(Int1(1), [kind |-> "long", val |-> 7]), Pair(Int1(1), Text)}
MCMaxDepth == (main :> 5) @@ (worker :> 5)
MCMaxCalls == (run :> 2) @@ (eventually :> 1) @@ (pure :> 0)
MCPunched == {<<o2, run>>}
=============================================================================
