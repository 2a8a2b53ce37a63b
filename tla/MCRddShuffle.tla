--------------------------- MODULE MCRddShuffle ----------------------------
(* One state per question about RddShuffle: a case, then its answer.       *)
EXTENDS RddShuffle, FiniteSets, FiniteSetsExt

CONSTANTS MaxLen,     \* bound: pairs in each RDD
          Keysets,    \* keys asked about
          NumParts,   \* partitions after the shuffle
          Ops,        \* operations asked about
          KeyFuncs,   \* key functions of sortByKey
          Directions  \* values of ascending

VARIABLES case, answer

Pending  == <<>>    \* an answer is the only element of a sequence
Datas(s) == UNION {[1..n -> s] : n \in 0..MaxLen}
Orders(n) == {o \in [1..n -> 1..n] : \A i, j \in 1..n : o[i] = o[j] => i = j}
(* The data in two partitions.                                             *)
Halves(s, c) == <<SubSeq(s, 1, c), SubSeq(s, c + 1, Len(s))>>
(* A value is the place its pair came from.                                *)
Pairs(keys, base) == [i \in 1..Len(keys) |-> <<keys[i], base + i>>]
KeyFunc(name, keys) == [k \in keys |-> CASE name = "neg" -> 2 - k [] name = "turn" -> (k + 1) % 3
                                       [] name = "id" -> k]

Two == {"join", "left", "right", "cogroup", "subtract", "minus", "intersection"}
Init ==
    /\ \E op \in Ops, one \in Datas(Keysets), two \in Datas(Keysets),
          c \in 0..MaxLen, n \in NumParts,
          none \in 0..1, kf \in KeyFuncs, up \in Directions :
         /\ c <= Len(one) /\ (op \notin Two => two = <<>>)
         /\ None \notin Keysets => none = 0
         /\ op # "sort" => kf = "id" /\ up
         /\ \E order \in Orders(IF op \in Two THEN 4 ELSE 2) :
              case = [op |-> op, one |-> one, two |-> two, c |-> c, n |-> n,
                      order |-> order, none |-> none, kf |-> kf, up |-> up]
    /\ answer = Pending

Hashes == [m \in 1..4 |-> [k \in Keysets |-> Hash(k, case.none)]]
One    == Halves(Pairs(case.one, 0), case.c)
Other  == Halves(Pairs(case.two, 10), Len(case.two) \div 2)
Plain(rdd) == Keys(rdd)

Answer(samples) ==
    LET c == case
    IN CASE c.op = "group"    -> GroupByKey(One, Hashes, c.n, c.order)
         [] c.op = "fold"     -> FoldByKey(0, "add", One, Hashes, c.n, c.order)
         [] c.op = "distinct" -> Distinct(Plain(One), Hashes, c.n, c.order)
         [] c.op = "cogroup"  -> Cogroup(One, Other, Hashes, c.n, c.order)
         [] c.op \in {"join", "left", "right"} ->
               Join(c.op, One, Other, Hashes, c.n, c.order)
         [] c.op = "subtract" -> SubtractByKey(One, Other, Hashes, c.n, c.order)
         [] c.op = "minus" -> Subtract(Plain(One), Plain(Other), Hashes, c.n, c.order)
         [] c.op = "intersection" ->
               Intersection(Plain(One), Plain(Other), Hashes, c.n, c.order)
         [] c.op = "sort" -> SortByKey(One, samples, KeyFunc(c.kf, Keysets), c.up, c.n, c.order)

(* sortByKey samples any of the keys, all of them when they are few.       *)
Next == /\ answer = Pending
        /\ IF case.op # "sort" THEN answer' = <<Answer(<<>>)>>
           ELSE \E s \in SUBSET (1..Len(case.one)) :
                   /\ s = {} => case.one = <<>>
                   /\ answer' = <<Answer([i \in 1..Cardinality(s) |->
                                 case.one[SortSeq(SetToSeq(s), <)[i]]])>>
        /\ UNCHANGED case
Spec == Init /\ [][Next]_<<case, answer>>

Answered(op) == case.op = op /\ answer # Pending
Out  == FlattenSeq(answer[1])
Left(k)  == {v \in 1..Len(case.one) : case.one[v] = k}
Right(k) == {10 + v : v \in {v \in 1..Len(case.two) : case.two[v] = k}}
KeysOf(s) == {s[i][1] : i \in 1..Len(s)}
NoTwice(s) == \A i, j \in 1..Len(s) : s[i] = s[j] => i = j

-----------------------------------------------------------------------------
(* groupByKey, foldByKey and distinct: every key comes out once, with all  *)
(* its values once, however the pairs lay in partitions and the buckets    *)
(* arrived; None too, on workers that agree on hash(None).                 *)
KeysCombined ==
    /\ Answered("group") =>
          /\ KeysOf(Out) = ToSet(case.one) /\ Len(Out) = Cardinality(KeysOf(Out))
          /\ \A i \in 1..Len(Out) :
                NoTwice(Out[i][2]) /\ ToSet(Out[i][2]) = Left(Out[i][1])
    /\ Answered("fold") =>
          {Out[i] : i \in 1..Len(Out)} =
              {<<k, MapThenSumSet(LAMBDA v : v, Left(k))>> : k \in ToSet(case.one)}
    /\ Answered("distinct") => NoTwice(Out) /\ ToSet(Out) = ToSet(case.one)

(* The joins against their definition: all matching pairs, each once; the  *)
(* outer joins add None for what has no match on the other side.           *)
JoinsRight ==
    \A kind \in {"join", "left", "right"} : Answered(kind) =>
        LET fill(s, when) == IF s = {} /\ kind = when THEN {None} ELSE s
        IN /\ NoTwice(Out)
           /\ ToSet(Out) = UNION {{<<k, <<v, w>>>> : v \in fill(Left(k), "right"),
                                                     w \in fill(Right(k), "left")} :
                                  k \in {k \in Keysets : Left(k) \cup Right(k) # {}}}

(* cogroup, subtractByKey and intersection.                                *)
SetOpsRight ==
    /\ Answered("cogroup") =>
          /\ Len(Out) = Cardinality(KeysOf(Out))
          /\ KeysOf(Out) = ToSet(case.one) \cup ToSet(case.two)
          /\ \A i \in 1..Len(Out) : /\ ToSet(Out[i][2][1]) = Left(Out[i][1])
                                    /\ ToSet(Out[i][2][2]) = Right(Out[i][1])
    /\ Answered("subtract") =>
          /\ NoTwice(Out)
          /\ ToSet(Out) = {<<k, v>> : k \in Keysets, v \in 1..Len(case.one)}
                          \cap {<<case.one[v], v>> :
                                v \in {v \in 1..Len(case.one) : Right(case.one[v]) = {}}}
    /\ Answered("minus") =>
          /\ ToSet(Out) = ToSet(case.one) \ ToSet(case.two)
          /\ Len(Out) = Cardinality({v \in 1..Len(case.one) : Right(case.one[v]) = {}})
    /\ Answered("intersection") =>
          /\ NoTwice(Out) /\ ToSet(Out) = ToSet(case.one) \cap ToSet(case.two)

(* sortByKey: "Sorts this RDD": the partitions one after the other are     *)
(* sorted and lose nothing, whatever was sampled, in both directions and   *)
(* with a key function, whose values are compared with bounds that are     *)
(* plain keys.                                                             *)
SortRight ==
    Answered("sort") /\ case.one # <<>> =>
        LET kf == KeyFunc(case.kf, Keysets)
        IN /\ {Out[i][2] : i \in 1..Len(Out)} = 1..Len(case.one)
           /\ Len(Out) = Len(case.one)
           /\ \A i \in 1..(Len(Out) - 1) : ~ By(kf, case.up, Out[i + 1][1], Out[i][1])

(* "Partition the key-space into bins such that the bins have roughly the  *)
(* same number of pairs": ascending and without a key function, with all   *)
(* keys different and all sampled, no bin is empty when there are as many  *)
(* keys as bins.                                                           *)
AscendingBinsUsed ==
    Answered("sort") /\ case.up /\ case.kf = "id"
                     /\ NoTwice(case.one) /\ Len(case.one) >= case.n =>
        \/ \A b \in 1..case.n : answer[1][b] # <<>>
        \/ answer[1] # Answer(case.one)

(* The shuffles as a whole, sorting included.                              *)
ShuffleRight == /\ KeysCombined /\ JoinsRight /\ SetOpsRight
                /\ SortRight /\ AscendingBinsUsed
=============================================================================
