-------------------------- MODULE MCDenseHashtable --------------------------
(* Instances of DenseHashtable for TLC. *)
EXTENDS DenseHashtable, TLC

CONSTANTS k1, k2, k3

\* Keys that all collide; two that collide and one whose probes cross theirs;
\* keys apart, so that deleted buckets pile up.
MCHashes == {[k \in Key |-> 5],
             k1 :> 0 @@ k2 :> 0 @@ k3 :> 1,
             k1 :> 3 @@ k2 :> 9 @@ k3 :> 6}
=============================================================================
