--------------------------- MODULE DenseHashtable ---------------------------
(***************************************************************************)
(* google::dense_hash_map, in which libshiboken keeps its wrappers, its    *)
(* classes, its type resolvers and its modules                             *)
(* (ext/sparsehash/google/sparsehash/densehashtable.h): open addressing    *)
(* with triangular probing, erased entries that stay as deleted buckets,   *)
(* and a table that is copied when it grows, shrinks or has too many of    *)
(* them.                                                                   *)
(***************************************************************************)
EXTENDS Integers, FiniteSets, FiniteSetsExt, Sequences, SequencesExt

CONSTANTS
    Key, Val,         \* keys and values
    DefaultVal,       \* the value T()
    Nil,              \* no value
    EmptyKey,         \* the key that marks unused buckets
    DeletedKey,       \* the key that marks deleted entries
    Hashes,           \* hash functions: sets of [Key -> Nat]
    DefaultStartingBuckets,    \* HT_DEFAULT_STARTING_BUCKETS
    Hints,            \* sizes asked for in a constructor or by resize
    MaxUsed,          \* bound: buckets in use
    MaxDoublings      \* bound: how often the smallest table doubles

HT_MIN_BUCKETS == 4

\* The sizes of tables: the smallest one, doubled again and again.
Doubled[i \in 0..MaxDoublings] == IF i = 0 THEN HT_MIN_BUCKETS ELSE 2 * Doubled[i - 1]
Sizes == {Doubled[i] : i \in 0..MaxDoublings}

ASSUME HashtableAssumption ==
    /\ Nil \notin Val /\ DefaultVal \in Val /\ EmptyKey \notin Key /\ DeletedKey \notin Key
    /\ EmptyKey # DeletedKey
    /\ Hashes \subseteq [Key -> Nat]
    /\ DefaultStartingBuckets \in Sizes
    /\ IsFiniteSet(Key) /\ MaxUsed \in Nat /\ MaxDoublings \in Nat
    /\ Hints \subseteq Nat /\ \A hint \in Hints : 2 * hint < Doubled[MaxDoublings]
    /\ 2 * (MaxUsed + Cardinality(Key)) < Doubled[MaxDoublings]

VARIABLES
    table,    \* the map
    pos,      \* the bucket an iterator of the map points to, or NoPos
    hash      \* the hash function

tableVars == <<table, pos, hash>>

NoPos == -1

Entry == [key : Key \cup {EmptyKey, DeletedKey}, val : Val]

\* A table: elements counts the buckets in use, those marked deleted included.
Table(n) ==
    [n : {n}, bucket : [0..n - 1 -> Entry], elements : 0..n, deleted : 0..n,
     considerShrink : BOOLEAN, useDeleted : BOOLEAN]

TypeOK ==
    /\ table \in Table(table.n)
    /\ pos \in {NoPos} \cup 0..table.n
    /\ hash \in Hashes

-----------------------------------------------------------------------------
(* Buckets.                                                                *)

EmptyVal == [key |-> EmptyKey, val |-> DefaultVal]
DeletedVal == [key |-> DeletedKey, val |-> DefaultVal]

TestEmpty(t, b) == t.bucket[b].key = EmptyKey
DeletedEntry(t, e) == t.useDeleted /\ t.deleted > 0 /\ e.key = DeletedKey
TestDeleted(t, b) == DeletedEntry(t, t.bucket[b])

LiveEntry(t, e) == e.key # EmptyKey /\ ~DeletedEntry(t, e)
Live(t, b) == LiveEntry(t, t.bucket[b])

Size(t) == t.elements - t.deleted

\* Iterators: the first live bucket from b on, or the end.
SkipDead(t, b) == Min({t.n} \cup {c \in b..t.n - 1 : Live(t, c)})

-----------------------------------------------------------------------------
(* Sizes.  A table is at most half full (HT_OCCUPANCY_FLT) and shrinks when*)
(* it is less than a fifth full (HT_EMPTY_FLT).                            *)

MinSize(elts, wanted) ==
    Min({sz \in Sizes : sz >= wanted /\ 2 * elts < sz})

EnlargeThreshold(t) == t.n \div 2
ShrinkThreshold(t) == t.n \div 5

Cleared(t, n) ==
    [t EXCEPT !.n = n, !.bucket = [b \in 0..n - 1 |-> EmptyVal],
              !.elements = 0, !.deleted = 0, !.considerShrink = FALSE]

-----------------------------------------------------------------------------
(* Probing: the i-th probe is i buckets further than the one before.       *)

Probe(t, k, i) == (hash[k] + (i * (i + 1)) \div 2) % t.n

\* The first bucket on the way that is in stops.
FirstProbe(t, k, stops) ==
    Probe(t, k, Min({i \in 0..t.n - 1 : Probe(t, k, i) \in stops}))

Free(t) == {b \in 0..t.n - 1 : TestEmpty(t, b)}
Ends(t, k) == Free(t) \cup {b \in 0..t.n - 1 : Live(t, b) /\ t.bucket[b].key = k}
Dead(t) == {b \in 0..t.n - 1 : ~Live(t, b)}

\* Mutant: a deleted bucket ends the search.
FoundAtBeforeDeleted(t, k) == FirstProbe(t, k, Dead(t) \cup Ends(t, k))

\* find_position: where the key is, or the empty bucket that ends the search.
FoundAt(t, k) == FirstProbe(t, k, Ends(t, k))

\* Where a key that is not there goes: the first deleted bucket on the way.
InsertPos(t, k) == FirstProbe(t, k, Ends(t, k) \cup {b \in Dead(t) : TestDeleted(t, b)})

IsThere(t, k) == ~TestEmpty(t, FoundAt(t, k))

\* find does not look when there is nothing; count does.
Find(t, k) ==
    IF Size(t) = 0 \/ ~IsThere(t, k) THEN Nil ELSE t.bucket[FoundAt(t, k)].val
Count(t, k) == IF IsThere(t, k) THEN 1 ELSE 0
Bucket(t, k) == IF IsThere(t, k) THEN FoundAt(t, k) ELSE InsertPos(t, k)

-----------------------------------------------------------------------------
(* Copying, growing and shrinking.                                         *)

PutFirstEmpty(t, e) ==
    [t EXCEPT !.bucket[FirstProbe(t, e.key, Free(t))] = e,
              !.elements = @ + 1]

\* The copy constructor and copy_from: the live entries, in their order.
CopyOf(t, wanted) ==
    LET copied[b \in 0..t.n] ==
            IF b = 0 THEN Cleared(t, MinSize(Size(t), wanted))
            ELSE IF Live(t, b - 1) THEN PutFirstEmpty(copied[b - 1], t.bucket[b - 1])
            ELSE copied[b - 1]
    IN  copied[t.n]

SquashDeleted(t) == IF t.deleted > 0 THEN CopyOf(t, DefaultStartingBuckets) ELSE t

ShrunkSize(t) ==
    Max({sz \in Sizes : sz <= t.n \div 2 /\ (sz <= DefaultStartingBuckets \/ 5 * Size(t) >= sz)})

MaybeShrink(t) ==
    IF ShrinkThreshold(t) > 0 /\ Size(t) < ShrinkThreshold(t) /\ t.n > DefaultStartingBuckets
    THEN CopyOf(t, ShrunkSize(t))
    ELSE [t EXCEPT !.considerShrink = FALSE]

\* Mutant: deleted buckets do not count as room taken.
ResizeDeltaOfLive(t, delta) ==
    LET s == IF t.considerShrink THEN MaybeShrink(t) ELSE t
        roomy == s.n > HT_MIN_BUCKETS /\ Size(s) + delta <= EnlargeThreshold(s)
    IN  IF roomy \/ MinSize(Size(s) + delta, 0) <= s.n
        THEN s ELSE CopyOf(s, MinSize(Size(s) + delta, 0))

\* Deleted buckets count when deciding to resize, not for the new size.
ResizeDelta(t, delta) ==
    LET s == IF t.considerShrink THEN MaybeShrink(t) ELSE t
        roomy == s.n > HT_MIN_BUCKETS /\ s.elements + delta <= EnlargeThreshold(s)
    IN  IF roomy \/ MinSize(s.elements + delta, 0) <= s.n
        THEN s ELSE CopyOf(s, MinSize(Size(s) + delta, 0))

Resized(t, req) ==
    LET s == IF t.considerShrink \/ req = 0 THEN MaybeShrink(t) ELSE t
    IN  IF req > s.elements THEN ResizeDelta(s, req - s.elements) ELSE s

-----------------------------------------------------------------------------
(* Insertion and deletion.                                                 *)

InsertNoResize(t, e) ==
    LET b == InsertPos(t, e.key) IN
    IF IsThere(t, e.key) THEN t
    ELSE IF TestDeleted(t, b)
    THEN [t EXCEPT !.bucket[b] = e, !.deleted = @ - 1]
    ELSE [t EXCEPT !.bucket[b] = e, !.elements = @ + 1]

Inserted(t, e) == InsertNoResize(ResizeDelta(t, 1), e)

\* insert(f, l) with the iterators of another container.
InsertedAll(t, entries) ==
    LET inserted[i \in 0..Len(entries)] ==
            IF i = 0 THEN ResizeDelta(t, Len(entries))
            ELSE InsertNoResize(inserted[i - 1], entries[i])
    IN  inserted[Len(entries)]

\* operator[] of a key that is not there inserts a default value.
Indexed(t, k) == IF Find(t, k) # Nil THEN t ELSE Inserted(t, [key |-> k, val |-> DefaultVal])

SetDeleted(t, b) ==
    IF TestDeleted(t, b) THEN t
    ELSE [t EXCEPT !.bucket[b] = DeletedVal, !.deleted = @ + 1, !.considerShrink = TRUE]

\* Mutant: the first bucket probed is marked deleted.
ErasedUnchecked(t, k) == IF Size(t) = 0 THEN t ELSE SetDeleted(t, Probe(t, k, 0))

Erased(t, k) ==
    IF Size(t) = 0 \/ ~IsThere(t, k) THEN t ELSE SetDeleted(t, FoundAt(t, k))

\* erase(f, end()).
ErasedFrom(t, b) ==
    LET gone == {c \in b..t.n - 1 : Live(t, c)} IN
    [t EXCEPT !.bucket = [c \in DOMAIN t.bucket |-> IF c \in gone THEN DeletedVal ELSE t.bucket[c]],
              !.deleted = @ + Cardinality(gone), !.considerShrink = TRUE]

\* What a table holds, wherever it is.
Holding(t, k) == {b \in 0..t.n - 1 : Live(t, b) /\ t.bucket[b].key = k}
Contents(t) ==
    [k \in Key |-> LET B == Holding(t, k) IN
                   IF B = {} THEN Nil ELSE t.bucket[CHOOSE b \in B : TRUE].val]

-----------------------------------------------------------------------------
(* The operations.                                                         *)

\* The constructor and set_empty_key, which allocates the buckets.
Constructed(hint) ==
    LET n == IF hint = 0 THEN DefaultStartingBuckets ELSE MinSize(hint, 0) IN
    [n |-> n, bucket |-> [b \in 0..n - 1 |-> EmptyVal], elements |-> 0, deleted |-> 0,
     considerShrink |-> FALSE, useDeleted |-> FALSE]

Init ==
    /\ hash \in Hashes
    /\ \E hint \in Hints : table = Constructed(hint)
    /\ pos = NoPos

\* What an operation that may move entries leaves behind.
Becomes(t) ==
    /\ t.elements <= MaxUsed
    /\ table' = t
    /\ pos' = NoPos
    /\ UNCHANGED hash

SetDeletedKey == Becomes([SquashDeleted(table) EXCEPT !.useDeleted = TRUE])
ClearDeletedKey == Becomes([SquashDeleted(table) EXCEPT !.useDeleted = FALSE])

Insert(k, v) == Becomes(Inserted(table, [key |-> k, val |-> v]))
InsertRange(K, v) ==
    Becomes(InsertedAll(table, SetToSeq({[key |-> k, val |-> v] : k \in K})))
Index(k) == Becomes(Indexed(table, k))
Resize(req) == Becomes(Resized(table, req))
Clear == Becomes(Cleared(table, HT_MIN_BUCKETS))
ClearNoResize == Becomes(Cleared(table, table.n))

\* Mutant: the iterator starts over.
EraseAtRewinds ==
    /\ table.useDeleted
    /\ pos \in 0..table.n - 1
    /\ table' = SetDeleted(table, pos)
    /\ pos' = SkipDead(table', 0)
    /\ UNCHANGED hash

\* Erasing moves nothing: an iterator stays where it is.
Erase(k) ==
    /\ table.useDeleted
    /\ table' = Erased(table, k)
    /\ UNCHANGED <<pos, hash>>

EraseAt ==
    /\ table.useDeleted
    /\ pos \in 0..table.n - 1
    /\ table' = SetDeleted(table, pos)
    /\ UNCHANGED <<pos, hash>>

EraseRange ==
    /\ table.useDeleted
    /\ pos # NoPos
    /\ table' = ErasedFrom(table, pos)
    /\ UNCHANGED <<pos, hash>>

Begin ==
    /\ pos' = SkipDead(table, 0)
    /\ UNCHANGED <<table, hash>>

\* operator++; its assertion: not at the end.
Advance ==
    /\ pos \in 0..table.n - 1
    /\ pos' = SkipDead(table, pos + 1)
    /\ UNCHANGED <<table, hash>>

\* The copy constructor and operator=: the user goes on with the copy.
CopyConstruct == Becomes(CopyOf(table, DefaultStartingBuckets))
CopyAssign == Becomes(CopyOf(table, HT_MIN_BUCKETS))

Next ==
    \/ SetDeletedKey \/ ClearDeletedKey
    \/ \E k \in Key : Erase(k) \/ Index(k) \/ \E v \in Val : Insert(k, v)
    \/ \E K \in SUBSET Key, v \in Val : InsertRange(K, v)
    \/ \E req \in Hints : Resize(req)
    \/ Clear \/ ClearNoResize
    \/ EraseAt \/ EraseRange \/ Begin \/ Advance
    \/ CopyConstruct \/ CopyAssign

Spec == Init /\ [][Next]_tableVars

-----------------------------------------------------------------------------
(* Properties.                                                             *)

UsedBuckets(t) == {b \in 0..t.n - 1 : ~TestEmpty(t, b)}

\* The types are right, the two counters say what the buckets hold, at most half of the buckets are
\* in use, those of deleted entries included (HT_OCCUPANCY_FLT), and every
\* search meets an empty bucket and ends (the assertion on num_probes), in
\* whatever order entries came, went and left deleted buckets behind.
Accounted ==
    /\ TypeOK
    /\ 2 * table.elements <= table.n
    /\ table.elements = Cardinality(UsedBuckets(table))
    /\ table.deleted = Cardinality({b \in UsedBuckets(table) : table.bucket[b].key = DeletedKey})
    /\ \A k \in Key : \E i \in 0..table.n - 1 : TestEmpty(table, Probe(table, k, i))

\* What is stored is found and nothing else is: find, count and bucket lead to
\* the only bucket that holds the key, across deleted buckets and collisions,
\* and size() is the number of the keys that are there.
LookupAgrees ==
    /\ Size(table) = Cardinality({k \in Key : Count(table, k) = 1})
    /\ \A k \in Key :
          /\ Holding(table, k) = IF Count(table, k) = 1 THEN {Bucket(table, k)} ELSE {}
          /\ Find(table, k) = Contents(table)[k]

\* An insertion, an erasure or operator[] changes the entry of its own key and
\* no other, although it may move or copy all of them, and an insertion leaves
\* the value of a key that has one.
OperationsExact ==
    LET now == Contents(table) IN
    \A k \in Key :
        /\ table.useDeleted => Contents(Erased(table, k)) = [now EXCEPT ![k] = Nil]
        /\ \A v \in Val :
              Contents(Inserted(table, [key |-> k, val |-> v])) =
                  IF now[k] = Nil THEN [now EXCEPT ![k] = v] ELSE now
        /\ Contents(Indexed(table, k)) =
               IF now[k] = Nil THEN [now EXCEPT ![k] = DefaultVal] ELSE now

\* The table implements the map: what it holds changes in one step, by
\* insertions that keep every entry or by erasures, whether or not the table
\* grows, shrinks, is copied or reuses deleted buckets, and an iterator that
\* erasures overtake still shows every entry that stays, once.
Pending ==
    IF pos = NoPos THEN {}
    ELSE {k \in Key : \E b \in Holding(table, k) : b >= pos}

Map == INSTANCE PointerMap
    WITH map <- Contents(table), pending <- Pending

ImplementsMap == Map!Spec
=============================================================================
