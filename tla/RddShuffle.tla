---------------------------- MODULE RddShuffle -----------------------------
(***************************************************************************)
(* pyspark/rdd.py and join.py: the operations on (key, value) pairs that   *)
(* move data between partitions.  A map task makes one bucket for each     *)
(* partition; the reduce side gets the buckets of the map tasks in any     *)
(* order (the JVM's shuffle, external).  Keys are natural numbers; hash()  *)
(* of a number is the number, hash(None) is what it is on the machine of   *)
(* the map task.                                                           *)
(***************************************************************************)
EXTENDS Integers, Sequences, SequencesExt

None == -1
Hash(k, none) == IF k = None THEN none ELSE k

(* partitionBy: the bucket of a pair, the buckets of a task, what one      *)
(* reduce task fetches when order is the order of the map tasks.           *)
BucketOf(h, n) == h % n
AddShuffleKey(part, hash, n, b) ==
    SelectSeq(part, LAMBDA kv : BucketOf(hash[kv[1]], n) = b)
PartitionBy(rdd, hash, n, order) ==
    [b \in 1..n |->
        FlattenSeq([i \in 1..Len(rdd) |->
            AddShuffleKey(rdd[order[i]], hash[order[i]], n, b - 1)])]

(* combineByKey: a dictionary on the map side, one on the reduce side.  A  *)
(* dictionary is the sequence of its items in order of first insertion.    *)
Has(m, k) == \E i \in 1..Len(m) : m[i][1] = k
Place(m, k) == CHOOSE i \in 1..Len(m) : m[i][1] = k
Put(m, k, c) == IF Has(m, k) THEN [m EXCEPT ![Place(m, k)] = <<k, c>>] ELSE Append(m, <<k, c>>)

(* The functions a program hands over, by name, and the three functions    *)
(* each operation gives to combineByKey.                                   *)
Apply(f, a, b) == CASE f = "add" -> a + b [] f = "first" -> a
CreateCombiner(agg, v) == CASE agg.by = "group"  -> <<v>>
                            [] agg.by = "reduce" -> v
                            [] agg.by = "fold"   -> Apply(agg.f, agg.zero, v)
MergeValue(agg, c, v)   == IF agg.by = "group" THEN Append(c, v) ELSE Apply(agg.f, c, v)
MergeCombiner(agg, c, d) == IF agg.by = "group" THEN c \o d ELSE Apply(agg.f, c, d)

CombineLocally(agg, part) ==
    LET add(m, kv) == Put(m, kv[1], IF Has(m, kv[1])
                                    THEN MergeValue(agg, m[Place(m, kv[1])][2], kv[2])
                                    ELSE CreateCombiner(agg, kv[2]))
    IN FoldLeft(add, <<>>, part)
MergeCombiners(agg, part) ==
    LET add(m, kv) == Put(m, kv[1], IF Has(m, kv[1])
                                    THEN MergeCombiner(agg, m[Place(m, kv[1])][2], kv[2])
                                    ELSE kv[2])
    IN FoldLeft(add, <<>>, part)
CombineByKey(agg, rdd, hash, n, order) ==
    LET local    == [p \in 1..Len(rdd) |-> CombineLocally(agg, rdd[p])]
        shuffled == PartitionBy(local, hash, n, order)
    IN [b \in 1..n |-> MergeCombiners(agg, shuffled[b])]

ReduceByKey(f, rdd, hash, n, order) ==
    CombineByKey([by |-> "reduce", f |-> f], rdd, hash, n, order)
FoldByKey(zero, f, rdd, hash, n, order) ==
    CombineByKey([by |-> "fold", f |-> f, zero |-> zero], rdd, hash, n, order)
GroupByKey(rdd, hash, n, order) == CombineByKey([by |-> "group"], rdd, hash, n, order)

(* map with the functions of keys() and distinct().                        *)
Keys(rdd)     == [p \in 1..Len(rdd) |-> [i \in 1..Len(rdd[p]) |-> rdd[p][i][1]]]
WithNone(rdd) == [p \in 1..Len(rdd) |-> [i \in 1..Len(rdd[p]) |-> <<rdd[p][i], None>>]]
Distinct(rdd, hash, n, order) == Keys(ReduceByKey("first", WithNone(rdd), hash, n, order))

-----------------------------------------------------------------------------
(* _do_python_join and cogroup: values tagged by their side, united,       *)
(* grouped, and told apart again.                                          *)
Tagged(rdd, tag) ==
    [p \in 1..Len(rdd) |->
        [i \in 1..Len(rdd[p]) |-> <<rdd[p][i][1], <<tag, rdd[p][i][2]>>>>]]
Side(seq, tag) ==
    LET mine == SelectSeq(seq, LAMBDA tv : tv[1] = tag)
    IN [i \in 1..Len(mine) |-> mine[i][2]]
OrNone(buf) == IF buf = <<>> THEN <<None>> ELSE buf
AllPairs(vs, ws) ==
    FlattenSeq([i \in 1..Len(vs) |-> [j \in 1..Len(ws) |-> <<vs[i], ws[j]>>]])

MutDispatch(kind, seq) ==
    LET vs == Side(seq, 1)  ws == Side(seq, 2)
    IN AllPairs(IF kind = "left" THEN OrNone(vs) ELSE vs,
                IF kind = "right" THEN OrNone(ws) ELSE ws)
Dispatch(kind, seq) ==
    LET vs == Side(seq, 1)  ws == Side(seq, 2)
    IN AllPairs(IF kind = "right" THEN OrNone(vs) ELSE vs,
                IF kind = "left" THEN OrNone(ws) ELSE ws)
Grouped(rdd, other, hash, n, order) ==
    GroupByKey(Tagged(rdd, 1) \o Tagged(other, 2), hash, n, order)
Cogroup(rdd, other, hash, n, order) ==
    LET g == Grouped(rdd, other, hash, n, order)
    IN [p \in 1..n |-> [i \in 1..Len(g[p]) |->
          <<g[p][i][1], <<Side(g[p][i][2], 1), Side(g[p][i][2], 2)>>>>]]

(* flatMapValues with dispatch (a join) or with the values of the left     *)
(* side (subtractByKey).                                                   *)
FlatMapValues(f, rdd) ==
    LET flat(kv) == LET vs == IF f = "vals" THEN kv[2][1] ELSE Dispatch(f, kv[2])
                    IN [j \in 1..Len(vs) |-> <<kv[1], vs[j]>>]
    IN [p \in 1..Len(rdd) |-> FlattenSeq([i \in 1..Len(rdd[p]) |-> flat(rdd[p][i])])]
Join(kind, rdd, other, hash, n, order) ==
    FlatMapValues(kind, Grouped(rdd, other, hash, n, order))

OnlyLeft(kv) == kv[2][1] # <<>> /\ kv[2][2] = <<>>
InBoth(kv)   == kv[2][1] # <<>> /\ kv[2][2] # <<>>
Filter(f, rdd) ==
    [p \in 1..Len(rdd) |->
        SelectSeq(rdd[p], LAMBDA kv : IF f = "left" THEN OnlyLeft(kv) ELSE InBoth(kv))]
SubtractByKey(rdd, other, hash, n, order) ==
    FlatMapValues("vals", Filter("left", Cogroup(rdd, other, hash, n, order)))
Intersection(rdd, other, hash, n, order) ==
    Keys(Filter("both", Cogroup(WithNone(rdd), WithNone(other), hash, n, order)))
Subtract(rdd, other, hash, n, order) ==
    Keys(SubtractByKey(WithNone(rdd), WithNone(other), hash, n, order))

-----------------------------------------------------------------------------
(* sortByKey: bounds from the sorted samples, the partition of a key by    *)
(* counting bounds, a sort in every partition.  kf is the key function.    *)
By(kf, ascending, a, b) == IF ascending THEN kf[a] < kf[b] ELSE kf[a] > kf[b]
SortKeys(s, kf, ascending) == SortSeq(s, LAMBDA a, b : By(kf, ascending, a, b))
Bounds(samples, kf, ascending, n) ==
    LET s == SortKeys(samples, kf, ascending)
    IN [i \in 1..(n - 1) |-> s[((Len(s) - 1) * i) \div n + 1]]

(* The while loop stops at the first bound that is not below the key.      *)
PastBounds(k, bounds, kf) ==
    LET stops == {p \in 1..Len(bounds) : ~ kf[k] > bounds[p]}
    IN IF stops = {} THEN Len(bounds) ELSE (CHOOSE p \in stops : \A q \in stops : p <= q) - 1
RangePartition(k, bounds, kf, ascending, n) ==
    IF ascending THEN PastBounds(k, bounds, kf) ELSE n - 1 - PastBounds(k, bounds, kf)

(* Without samples there is no bound to take: IndexError, given as no      *)
(* partition at all.                                                       *)
SortByKey(rdd, samples, kf, ascending, n, order) ==
    LET bounds == IF n > 1 THEN Bounds(samples, kf, ascending, n) ELSE <<>>
        func   == [k \in DOMAIN kf |-> RangePartition(k, bounds, kf, ascending, n)]
        parted == PartitionBy(rdd, [p \in 1..Len(rdd) |-> func], n, order)
    IN IF n > 1 /\ samples = <<>> THEN <<>>
       ELSE [b \in 1..n |-> SortSeq(parted[b], LAMBDA x, y : By(kf, ascending, x[1], y[1]))]
=============================================================================
