--------------------------- MODULE MCStatCounter ---------------------------
(* One state per question about StatCounter: the data in its partitions,   *)
(* then the statistics.  A partition is a few values and a run of one more.*)
EXTENDS StatCounter, FiniteSets, FiniteSetsExt

CONSTANTS Values,   \* elements of the RDD
          Runs,     \* lengths of the run at the end of the first partition
          MaxParts  \* bound: partitions

VARIABLES rdd, answer

Few == UNION {[1..n -> Values] : n \in 0..2}
Init == /\ \E head \in Few, v \in Values, r \in Runs,
              rest \in UNION {[1..n -> Few] : n \in 0..(MaxParts - 1)}, first \in BOOLEAN :
             LET long == head \o [i \in 1..r |-> v]
             IN rdd = IF first THEN <<long>> \o rest ELSE rest \o <<long>>
        /\ answer = <<>>
Next == answer = <<>> /\ answer' = <<Stats(rdd)>> /\ UNCHANGED rdd
Spec == Init /\ [][Next]_<<rdd, answer>>

Data  == FlattenSeq(rdd)
Total(f(_)) == FoldLeft(LAMBDA a, x : a + f(x), 0, Data)
Id(x)  == x
Square(x) == x * x
Answered == answer # <<>>

-----------------------------------------------------------------------------
(* Count, mean, variance and sample variance are those of all the data,    *)
(* however it is partitioned and whichever formula merges the means:       *)
(* n * (sum of squares) - (sum)^2 is n times the squared deviation.        *)
MomentsRight ==
    Answered =>
        LET c == answer[1]  n == Len(Data)  s == Total(Id)
            m2 == Frac(n * Total(Square) - s * s, MaxOf(n, 1))
        IN /\ c.n = n /\ SumOf(c) = Whole(s)
           /\ n > 0 => c.mu = Frac(s, n) /\ Variance(c) = Over(m2, n)
           /\ SampleVariance(c) = IF n < 2 THEN <<>> ELSE Over(m2, n - 1)

(* "Merge another StatCounter into this one, adding up the internal        *)
(* statistics": the largest and the smallest element are kept, as long as  *)
(* no two counters differ in size by more than ten times.                  *)
ExtremaKeptWhenEven ==
    Answered /\ Data # <<>> /\ (\A p \in 1..Len(rdd) : Len(rdd[p]) <= 5) =>
        /\ answer[1].maxValue = Max(ToSet(Data))
        /\ answer[1].minValue = Min(ToSet(Data))

(* The statistics as a whole.                                              *)
StatsRight == MomentsRight /\ ExtremaKeptWhenEven
=============================================================================
