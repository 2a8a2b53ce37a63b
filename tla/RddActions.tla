---------------------------- MODULE RddActions -----------------------------
(***************************************************************************)
(* pyspark/rdd.py: the operations that bring a result to the driver.  An   *)
(* RDD is the sequence of its partitions, at least one; collect() keeps    *)
(* their order.                                                            *)
(***************************************************************************)
EXTENDS Integers, Sequences, SequencesExt, FiniteSets

None == 0                  \* among the elements, Python's None
Collect(rdd) == FlattenSeq(rdd)

MaxOf(a, b) == IF b > a THEN b ELSE a
MinOf(a, b) == IF b < a THEN b ELSE a

(* The functions a program hands to an action, by their names.             *)
Apply(f, a, b) == CASE f = "add"    -> a + b
                    [] f = "max"    -> MaxOf(a, b)
                    [] f = "concat" -> a \o b

(* Python's reduce() on a list that is not empty.                          *)
PyReduce(f, vals) == FoldLeft(LAMBDA a, b : Apply(f, a, b), vals[1], Tail(vals))

(* reduce: None stands for "no element yet", in every partition.           *)
Emit(acc) == IF acc = None THEN <<>> ELSE <<acc>>
ReducePartition(f, part) ==
    Emit(FoldLeft(LAMBDA a, obj : IF a = None THEN obj ELSE Apply(f, obj, a), None, part))
(* The result in a sequence, which is empty when reduce() raises.          *)
Reduce(f, rdd) ==
    LET vals == Collect([p \in 1..Len(rdd) |-> ReducePartition(f, rdd[p])])
    IN IF vals = <<>> THEN <<>> ELSE <<PyReduce(f, vals)>>

(* fold: inside a partition the element comes first.                       *)
FoldPartition(zero, op, part) ==
    FoldLeft(LAMBDA a, obj : Apply(op, obj, a), zero, part)
Fold(zero, op, rdd) ==
    FoldLeft(LAMBDA a, b : Apply(op, a, b), zero,
             [p \in 1..Len(rdd) |-> FoldPartition(zero, op, rdd[p])])

AggregatePartition(zero, seqOp, part) ==
    FoldLeft(LAMBDA a, obj : Apply(seqOp, a, obj), zero, part)
Aggregate(zero, seqOp, combOp, rdd) ==
    Fold(zero, combOp,
         [p \in 1..Len(rdd) |-> <<AggregatePartition(zero, seqOp, rdd[p])>>])

Sum(rdd)   == PyReduce("add", [p \in 1..Len(rdd) |-> PyReduce("add", <<0>> \o rdd[p])])
Count(rdd) == Sum([p \in 1..Len(rdd) |-> <<Len(rdd[p])>>])

-----------------------------------------------------------------------------
(* countByValue: a dictionary for each partition, merged into the first.   *)
Bump(m, k, v) == [x \in DOMAIN m \cup {k} |->
                     (IF x \in DOMAIN m THEN m[x] ELSE 0) + (IF x = k THEN v ELSE 0)]
CountPartition(part) == FoldLeft(LAMBDA m, obj : Bump(m, obj, 1), <<>>, part)
MergeMaps(m1, m2) == [x \in DOMAIN m1 \cup DOMAIN m2 |->
                         (IF x \in DOMAIN m1 THEN m1[x] ELSE 0)
                         + (IF x \in DOMAIN m2 THEN m2[x] ELSE 0)]
CountByValue(rdd) ==
    FoldLeft(MergeMaps, CountPartition(rdd[1]),
             [p \in 1..(Len(rdd) - 1) |-> CountPartition(rdd[p + 1])])

(* reduceByKeyLocally.                                                     *)
PutByKey(f, m, k, v) ==
    [x \in DOMAIN m \cup {k} |->
        IF x # k THEN m[x] ELSE IF k \in DOMAIN m THEN Apply(f, m[k], v) ELSE v]
ReduceByKeyLocally(f, rdd) ==
    LET one(part) == FoldLeft(LAMBDA m, kv : PutByKey(f, m, kv[1], kv[2]), <<>>, part)
        merge(m1, m2) == FoldLeft(LAMBDA m, k : PutByKey(f, m, k, m2[k]), m1,
                                  SetToSeq(DOMAIN m2))
    IN FoldLeft(merge, one(rdd[1]), [p \in 1..(Len(rdd) - 1) |-> one(rdd[p + 1])])

-----------------------------------------------------------------------------
(* top: heapq keeps the num largest; which ones it keeps is what matters,  *)
(* so the heap is a sorted list.                                           *)
Sorted(s) == SortSeq(s, <)
HeapPushPop(q, k) == IF q # <<>> /\ k > q[1] THEN Sorted(Append(Tail(q), k)) ELSE q
TopIterator(num, part) ==
    FoldLeft(LAMBDA q, k : IF Len(q) < num THEN Sorted(Append(q, k)) ELSE HeapPushPop(q, k),
             <<>>, part)
Top(num, rdd) ==
    Reverse(Sorted(FoldLeft(LAMBDA a, part : TopIterator(num, a \o TopIterator(num, part)),
                            TopIterator(num, rdd[1]), Tail(rdd))))

-----------------------------------------------------------------------------
(* MaxHeapQ, its elements from index 1 on: tuples of equal length, which   *)
(* Python compares from the left.                                          *)
Less(a, b) == \E i \in 1..Len(a) : a[i] < b[i] /\ \A j \in 1..(i - 1) : a[j] = b[j]
Swap(q, i, j) == [q EXCEPT ![i] = q[j], ![j] = q[i]]

RECURSIVE Swim(_, _)
Swim(q, k) == IF k > 1 /\ Less(q[k \div 2], q[k])
              THEN Swim(Swap(q, k, k \div 2), k \div 2) ELSE q

MutChild(q, k) == 2 * k
(* The larger of the children.                                             *)
Child(q, k) == IF 2 * k < Len(q) /\ Less(q[2 * k], q[2 * k + 1]) THEN 2 * k + 1 ELSE 2 * k
RECURSIVE Sink(_, _)
Sink(q, k) == IF 2 * k > Len(q) \/ Less(q[Child(q, k)], q[k]) THEN q
              ELSE Sink(Swap(q, k, Child(q, k)), Child(q, k))

ReplaceRoot(q, value) == IF Less(value, q[1]) THEN Sink([q EXCEPT ![1] = value], 1) ELSE q
Insert(q, value, maxsize) ==
    IF Len(q) < maxsize THEN Swim(Append(q, value), Len(q) + 1) ELSE ReplaceRoot(q, value)

(* takeOrdered: with a key function the heap holds pairs of a key and an   *)
(* element, without one just elements; num > 0, for MaxHeapQ(0) has no     *)
(* root to replace.                                                        *)
KeyOf(key, x) == CASE key = "neg" -> -x [] key = "parity" -> x % 2 [] OTHER -> x
Item(key, x)  == IF key = "none" THEN <<x>> ELSE <<KeyOf(key, x), x>>
TopN(num, items) == FoldLeft(LAMBDA q, item : Insert(q, item, num), <<>>, items)
TakeOrdered(num, key, rdd) ==
    LET one(part) == TopN(num, [i \in 1..Len(part) |-> Item(key, part[i])])
        kept == FoldLeft(LAMBDA a, part : TopN(num, a \o one(part)), one(rdd[1]), Tail(rdd))
    IN SortSeq([i \in 1..Len(kept) |-> Last(kept[i])],
               LAMBDA x, y : KeyOf(key, x) < KeyOf(key, y))

-----------------------------------------------------------------------------
(* take: the partitions one by one, at most num of each, until there are   *)
(* enough; how many were scanned is part of the answer.                    *)
TakeUpToNum(num, part) == SubSeq(part, 1, MinOf(num, Len(part)))
Enough(num, items) == Len(items) >= num
Take(num, rdd) ==
    LET scan(a, part) == IF a.scanned > 0 /\ Enough(num, a.items) THEN a
                         ELSE [items |-> a.items \o TakeUpToNum(num, part),
                               scanned |-> a.scanned + 1]
        end == FoldLeft(scan, [items |-> <<>>, scanned |-> 0], rdd)
    IN [end EXCEPT !.items = TakeUpToNum(num, @)]
=============================================================================
