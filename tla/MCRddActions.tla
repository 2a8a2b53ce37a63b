--------------------------- MODULE MCRddActions ----------------------------
(* One state per question about RddActions: a case, then its answer.       *)
EXTENDS RddActions, FiniteSetsExt

CONSTANTS MaxLen,    \* bound: elements of an RDD
          MaxParts,  \* bound: partitions
          MaxElem,   \* elements are 1..MaxElem
          Ops        \* operations asked about

VARIABLES case, answer

Pending == <<>>    \* an answer is the only element of a sequence
Elems   == 1..MaxElem
Datas   == UNION {[1..n -> Elems] : n \in 0..MaxLen}
(* Where partitions end: a non-decreasing sequence of cuts.                *)
Cuts(n) == UNION {{c \in [1..k -> 0..n] : \A i \in 1..(k - 1) : c[i] <= c[i + 1]} :
                  k \in 0..(MaxParts - 1)}
Parts(data, cuts) ==
    LET b == <<0>> \o cuts \o <<Len(data)>>
    IN [p \in 1..(Len(b) - 1) |-> SubSeq(data, b[p] + 1, b[p + 1])]

(* takeOrdered without and with key functions, the last with equal keys.   *)
KeyNamed == [ordered |-> "none", orderedNeg |-> "neg", orderedParity |-> "parity"]

Init == /\ \E data \in Datas : \E cuts \in Cuts(Len(data)), op \in Ops, n \in 0..3 :
              /\ op \in DOMAIN KeyNamed \cup {"top", "take"} \/ n = 0
              /\ op \in DOMAIN KeyNamed => n > 0
              /\ case = [op |-> op, data |-> data, rdd |-> Parts(data, cuts), n |-> n]
        /\ answer = Pending

Singles(rdd) == [p \in 1..Len(rdd) |-> [i \in 1..Len(rdd[p]) |-> <<rdd[p][i]>>]]
Keyed(rdd)   == [p \in 1..Len(rdd) |->
                    [i \in 1..Len(rdd[p]) |-> <<rdd[p][i] % 2, rdd[p][i]>>]]

Answer ==
    LET rdd == case.rdd  n == case.n
    IN CASE case.op = "max"       -> Reduce("max", rdd)
         [] case.op = "fold"      -> Fold(0, "add", rdd)
         [] case.op = "aggregate" -> Aggregate(<<>>, "concat", "concat", Singles(rdd))
         [] case.op = "count"     -> Count(rdd)
         [] case.op = "counts"    -> CountByValue(rdd)
         [] case.op = "locally"   -> ReduceByKeyLocally("add", Keyed(rdd))
         [] case.op = "top"       -> Top(n, rdd)
         [] case.op \in DOMAIN KeyNamed -> TakeOrdered(n, KeyNamed[case.op], rdd)
         [] case.op = "take"      -> Take(n, rdd)

Next == answer = Pending /\ answer' = <<Answer>> /\ UNCHANGED case
Spec == Init /\ [][Next]_<<case, answer>>

Answered(op) == case.op = op /\ answer # Pending
Occurs(x, s) == Cardinality({i \in DOMAIN s : s[i] = x})

-----------------------------------------------------------------------------
(* reduce() and fold() with a commutative and associative operator are the *)
(* operator over all elements, whatever the partitions; reduce() of the    *)
(* empty RDD raises.                                                       *)
ReduceRight ==
    /\ Answered("max") =>
          answer[1] = IF case.data = <<>> THEN <<>> ELSE <<Max(ToSet(case.data))>>
    /\ Answered("fold") => answer[1] = MapThenSumSet(LAMBDA i : case.data[i], DOMAIN case.data)

(* aggregate() sees the elements in order, every one once.                 *)
AggregateRight == Answered("aggregate") => answer[1] = case.data

(* count(), countByValue(), reduceByKeyLocally(): empty partitions do not  *)
(* hide or add anything.                                                   *)
CountsRight ==
    /\ Answered("count") => answer[1] = Len(case.data)
    /\ Answered("counts") =>
          /\ DOMAIN answer[1] = ToSet(case.data)
          /\ \A x \in DOMAIN answer[1] : answer[1][x] = Occurs(x, case.data)
    /\ Answered("locally") =>
          /\ DOMAIN answer[1] = {x % 2 : x \in ToSet(case.data)}
          /\ \A k \in DOMAIN answer[1] :
              answer[1][k] = MapThenSumSet(LAMBDA i : case.data[i],
                              {i \in DOMAIN case.data : case.data[i] % 2 = k})

(* top() and takeOrdered() are the ends of the sorted data, with           *)
(* duplicates, whatever the partitions and the order of insertion; of      *)
(* elements with the same key takeOrdered() prefers the smaller, and gives *)
(* them in no particular order.                                            *)
EndsSorted ==
    LET up == Sorted(case.data)
        n  == MinOf(case.n, Len(up))
    IN /\ Answered("top") => answer[1] = SubSeq(Reverse(up), 1, n)
       /\ case.op \in DOMAIN KeyNamed /\ answer # Pending =>
             LET key   == KeyNamed[case.op]
                 items == [i \in DOMAIN up |-> Item(key, up[i])]
                 first == SubSeq(SortSeq(items, Less), 1, n)
             IN /\ Len(answer[1]) = n
                /\ \A i \in 1..n : /\ KeyOf(key, answer[1][i]) = KeyOf(key, Last(first[i]))
                                   /\ Occurs(answer[1][i], answer[1]) =
                                        Occurs(Item(key, answer[1][i]), first)

(* take() gives the first elements and scans no partition it need not.     *)
TakeRight == Answered("take") =>
    /\ answer[1].items = SubSeq(case.data, 1, MinOf(case.n, Len(case.data)))
    /\ \A p \in 1..(answer[1].scanned - 1) : Len(Collect(SubSeq(case.rdd, 1, p))) < case.n

(* The actions as a whole.                                                 *)
ActionsRight == ReduceRight /\ AggregateRight /\ CountsRight /\ EndsSorted /\ TakeRight
=============================================================================
