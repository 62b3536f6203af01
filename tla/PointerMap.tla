----------------------------- MODULE PointerMap -----------------------------
(***************************************************************************)
(* What google::dense_hash_map promises to its users in libshiboken: a     *)
(* finite map, and a traversal of it that shows every entry once.          *)
(***************************************************************************)

CONSTANTS Key, Val, Nil

VARIABLES
    map,       \* the value at each key, or Nil
    pending    \* the keys a traversal in progress has not shown yet

mapVars == <<map, pending>>

EmptyMap == [k \in Key |-> Nil]
Domain == {k \in Key : map[k] # Nil}

Init == map = EmptyMap /\ pending = {}

\* Insertions leave the entries of keys that have one; they end a traversal.
Insert ==
    /\ \A k \in Domain : map'[k] = map[k]
    /\ map' \in [Key -> Val \cup {Nil}]
    /\ pending' = {}

\* Keys may be erased during a traversal, which does not show them any more.
Erase ==
    \E K \in SUBSET Domain :
        /\ map' = [k \in Key |-> IF k \in K THEN Nil ELSE map[k]]
        /\ pending' = pending \ K

Clear == map' = EmptyMap /\ pending' = {}

Begin == pending' = Domain /\ UNCHANGED map
Visit(k) == k \in pending /\ pending' = pending \ {k} /\ UNCHANGED map

Next == Insert \/ Erase \/ Clear \/ Begin \/ \E k \in Key : Visit(k)

Spec == Init /\ [][Next]_mapVars
=============================================================================
