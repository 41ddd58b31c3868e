---------------------------- MODULE ExtendibleHash ----------------------------
(***************************************************************************)
(* The hash table of hash/extendible_hash.cpp: a directory of pointers to  *)
(* buckets, indexed by the low bits of a key's hash.  A bucket that        *)
(* overflows is split on as many further bits as it takes to tell its keys *)
(* apart, and entries that neither half accounts for become null.          *)
(*                                                                         *)
(* The mutex makes every operation a step.  A key is its own hash, as      *)
(* std::hash has it for the integers and pointers the engine uses, so that *)
(* keys differ in some bit and no bucket is marked as overflowed.          *)
(***************************************************************************)
EXTENDS Integers, FiniteSets, FiniteSetsExt, Functions, TLC

Seqs == INSTANCE SequencesExt

CONSTANTS
    Key,            \* a set of natural numbers
    Value,
    BucketSize,     \* bucket_size_
    Pointer         \* addresses of buckets, 1..n

ASSUME KeyAssumption == Key \subseteq Nat
ASSUME BucketSizeAssumption == BucketSize \in Nat \ {0}

VARIABLES
    directory,      \* index -> a pointer, or null
    bucket,         \* what the pointers in use point to
    depth,          \* the global depth
    bucket_count,
    pair_count

vars == <<directory, bucket, depth, bucket_count, pair_count>>

null == 0
Low(n, d) == n % 2^d                    \* n & ((1 << d) - 1)
Bit(n, d) == (n \div 2^(d - 1)) % 2 = 1 \* n & (1 << (d - 1))

Bucket(id, d, items) == [id |-> id, depth |-> d, items |-> items]
NoItems == [k \in {} |-> null]
Unused == Bucket(0, 0, NoItems)

Init ==
    /\ directory = [i \in {0} |-> 1]
    /\ bucket = [p \in Pointer |-> Unused]
    /\ depth = 0
    /\ bucket_count = 1
    /\ pair_count = 0

bucketIndex(k) == Low(k, depth)

\* An address for `new Bucket` and make_unique.
Fresh(dir) == Min(Pointer \ Range(dir))

\* Buckets that no entry points to any more are freed.
Freed(dir, b) == [p \in Pointer |-> IF p \in Range(dir) THEN b[p] ELSE Unused]

-----------------------------------------------------------------------------
\* Mutant: a bucket whose keys all have the next bit set keeps its id.
RECURSIVE splitKeepsId(_)
splitKeepsId(b) ==
    LET d == b.depth + 1
        keys == DOMAIN b.items
        ones == {k \in keys : Bit(k, d)}
        id == Low(CHOOSE k \in ones : TRUE, d)
    IN  IF ones \in {{}, keys} THEN splitKeepsId([b EXCEPT !.depth = d])
        ELSE [old |-> Bucket(b.id, d, Restrict(b.items, keys \ ones)),
              new |-> Bucket(id, d, Restrict(b.items, ones))]

\* split: the bucket and the one split off from it, with the keys whose next
\* bit is set.  If that is all keys or none, the next bit is tried.
RECURSIVE split(_)
split(b) ==
    LET d == b.depth + 1
        keys == DOMAIN b.items
        ones == {k \in keys : Bit(k, d)}
        id == Low(CHOOSE k \in ones : TRUE, d)
    IN  IF ones = {} THEN split([b EXCEPT !.depth = d])
        ELSE IF ones = keys THEN split([b EXCEPT !.depth = d, !.id = id])
        ELSE [old |-> Bucket(b.id, d, Restrict(b.items, keys \ ones)),
              new |-> Bucket(id, d, Restrict(b.items, ones))]

\* Entries i, i + 2^d, ... of a directory set to p.
Fill(dir, i, d, p) ==
    [j \in DOMAIN dir |-> IF j >= i /\ Low(j - i, d) = 0 THEN p ELSE dir[j]]

\* Mutant: entries of a bucket that split on more than one bit stay.
TidyLess(dir, b, i) ==
    IF dir[i] = null THEN dir
    ELSE IF i < b[dir[i]].id THEN [dir EXCEPT ![i] = null]
    ELSE Fill(dir, i, b[dir[i]].depth, dir[i])

\* Entry i of the old directory after the directory has grown: it is cleared
\* if it is not the bucket's any more, else repeated in the new part.
Tidy(dir, b, i) ==
    IF dir[i] = null THEN dir
    ELSE IF i < b[dir[i]].id \/ Low(i, b[dir[i]].depth) # b[dir[i]].id
    THEN [dir EXCEPT ![i] = null]
    ELSE Fill(dir, i, b[dir[i]].depth, dir[i])

\* The directory for buckets b, with more bits, after p was split into p, q.
Grown(dir, b, p, q) ==
    LET size == 2^depth
        wider == [i \in 0..(2^b[p].depth - 1) |->
                    IF i = b[q].id THEN q ELSE IF i = b[p].id THEN p
                    ELSE IF i < size THEN dir[i] ELSE null]
    IN  Seqs!FoldLeft(LAMBDA d, i : Tidy(d, b, i - 1), wider, [i \in 1..size |-> i])

\* The directory when the depth of the two halves is not above its own.
Shared(dir, b, p, q, old) ==
    LET cleared == Fill(dir, old.id, old.depth, null)
    IN  Fill(Fill(cleared, b[p].id, b[p].depth, p), b[q].id, b[q].depth, q)

-----------------------------------------------------------------------------
\* The bucket behind pointer p gets the new key, and is split if it is too
\* large.  dir is the directory with p in it, and made the number of buckets
\* made for p.
InsertNew(dir, b, p, k, v, made) ==
    LET full == [b[p] EXCEPT !.items = (k :> v) @@ @]
        halves == split(full)
        q == Fresh(dir)
        two == [b EXCEPT ![p] = halves.old, ![q] = halves.new]
        dir2 == IF halves.old.depth > depth THEN Grown(dir, two, p, q)
                                            ELSE Shared(dir, two, p, q, b[p])
    IN  /\ pair_count' = pair_count + 1
        /\ IF Cardinality(DOMAIN full.items) <= BucketSize
           THEN /\ directory' = dir
                /\ bucket' = [b EXCEPT ![p] = full]
                /\ bucket_count' = bucket_count + made
                /\ UNCHANGED depth
           ELSE /\ directory' = dir2
                /\ bucket' = Freed(dir2, two)
                /\ bucket_count' = bucket_count + made + 1
                /\ depth' = Max({depth, halves.old.depth})

Insert(k, v) ==
    LET i == bucketIndex(k)
        p == directory[i]
        q == Fresh(directory)
    IN  \/ /\ p # null /\ k \in DOMAIN bucket[p].items
           /\ bucket' = [bucket EXCEPT ![p].items[k] = v]
           /\ UNCHANGED <<directory, depth, bucket_count, pair_count>>
        \/ /\ p # null /\ k \notin DOMAIN bucket[p].items
           /\ InsertNew(directory, bucket, p, k, v, 0)
        \/ /\ p = null
           /\ InsertNew([directory EXCEPT ![i] = q],
                        [bucket EXCEPT ![q] = Bucket(i, depth, NoItems)], q, k, v, 1)

Remove(k) ==
    LET p == directory[bucketIndex(k)]
    IN  /\ p # null
        /\ k \in DOMAIN bucket[p].items
        /\ bucket' = [bucket EXCEPT ![p].items = Restrict(@, DOMAIN @ \ {k})]
        /\ pair_count' = pair_count - 1
        /\ UNCHANGED <<directory, depth, bucket_count>>

Next == \E k \in Key : Remove(k) \/ \E v \in Value : Insert(k, v)

Spec == Init /\ [][Next]_vars

-----------------------------------------------------------------------------
(* Properties.                                                             *)

\* What Find returns.
Find(k) ==
    LET p == directory[bucketIndex(k)]
    IN  IF p # null /\ k \in DOMAIN bucket[p].items THEN {bucket[p].items[k]} ELSE {}

Table == INSTANCE HashTable WITH map <- [k \in Key |-> Find(k)]

\* However buckets are split and the directory grows, Find returns the value
\* last inserted for its key and nothing for a removed one: the page table
\* loses no page and finds no stale frame.
TableSpec == Table!Spec

Live == Range(directory) \ {null}

\* A bucket is in exactly the entries whose low bits are its id, it has only
\* keys with these bits and not too many, and the two counters count what is
\* there: GetNumBuckets and Size tell the truth, after any sequence of calls.
DirectorySound ==
    /\ DOMAIN directory = 0..(2^depth - 1)
    /\ \A p \in Live : LET b == bucket[p] IN
        /\ b.depth <= depth
        /\ \A i \in DOMAIN directory : directory[i] = p <=> Low(i, b.depth) = b.id
        /\ \A k \in DOMAIN b.items : Low(k, b.depth) = b.id
        /\ Cardinality(DOMAIN b.items) <= BucketSize
    /\ bucket_count = Cardinality(Live)
    /\ pair_count = MapThenSumSet(LAMBDA p : Cardinality(DOMAIN bucket[p].items), Live)
=============================================================================
