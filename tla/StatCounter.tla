---------------------------- MODULE StatCounter ----------------------------
(***************************************************************************)
(* pyspark/statcounter.py and RDD.stats(): running count, mean, squared    *)
(* deviation and extrema, merged over partitions.  The numbers are exact   *)
(* fractions <<p, q>> in lowest terms: rounding is left out.               *)
(***************************************************************************)
EXTENDS Integers, Sequences, SequencesExt

RECURSIVE Gcd(_, _)
Gcd(a, b) == IF b = 0 THEN a ELSE Gcd(b, a % b)
Abs(a) == IF a < 0 THEN -a ELSE a
Frac(p, q) == LET g == Gcd(Abs(p), q) IN <<p \div g, q \div g>>
Plus(x, y)  == Frac(x[1] * y[2] + y[1] * x[2], x[2] * y[2])
Minus(x, y) == Frac(x[1] * y[2] - y[1] * x[2], x[2] * y[2])
Times(x, y) == Frac(x[1] * y[1], x[2] * y[2])
Over(x, n)  == Frac(x[1], x[2] * n)
Whole(n)    == <<n, 1>>

PosInf == 1000
NegInf == -1000
MaxOf(a, b) == IF b > a THEN b ELSE a
MinOf(a, b) == IF b < a THEN b ELSE a

New == [n |-> 0, mu |-> Whole(0), m2 |-> Whole(0), maxValue |-> NegInf, minValue |-> PosInf]

(* merge: the deviation uses the mean before and the mean after.           *)
MutDeviation(delta, value, mu) == Times(delta, delta)
Deviation(delta, value, mu) == Times(delta, Minus(Whole(value), mu))
Merge(c, value) ==
    LET delta == Minus(Whole(value), c.mu)
        n     == c.n + 1
        mu    == Plus(c.mu, Over(delta, n))
    IN [n |-> n, mu |-> mu, m2 |-> Plus(c.m2, Deviation(delta, value, mu)),
        maxValue |-> MaxOf(c.maxValue, value), minValue |-> MinOf(c.minValue, value)]
Of(values) == FoldLeft(Merge, New, values)

(* mergeStats: three ways to the mean by the ratio of the counts; only the *)
(* last one merges the extrema.                                            *)
MergedMean(c, o, delta) ==
    CASE o.n * 10 < c.n -> Plus(c.mu, Over(Times(delta, Whole(o.n)), c.n + o.n))
      [] c.n * 10 < o.n -> Minus(o.mu, Over(Times(delta, Whole(c.n)), c.n + o.n))
      [] OTHER -> Over(Plus(Times(c.mu, Whole(c.n)), Times(o.mu, Whole(o.n))), c.n + o.n)
Even(c, o) == o.n * 10 >= c.n /\ c.n * 10 >= o.n
MergedMax(c, o) == IF Even(c, o) THEN MaxOf(c.maxValue, o.maxValue) ELSE c.maxValue
MergedMin(c, o) == IF Even(c, o) THEN MinOf(c.minValue, o.minValue) ELSE c.minValue
MergeStats(c, o) ==
    IF c.n = 0 THEN o
    ELSE IF o.n = 0 THEN c
    ELSE LET delta == Minus(o.mu, c.mu)
         IN [n |-> c.n + o.n, mu |-> MergedMean(c, o, delta),
             m2 |-> Plus(Plus(c.m2, o.m2),
                         Over(Times(Times(delta, delta), Whole(c.n * o.n)), c.n + o.n)),
             maxValue |-> MergedMax(c, o), minValue |-> MergedMin(c, o)]

(* stats(): a counter for each partition, merged from the left.            *)
Stats(rdd) == LET cs == [p \in 1..Len(rdd) |-> Of(rdd[p])]
              IN FoldLeft(MergeStats, cs[1], Tail(cs))

(* mean, sum, variance and sampleVariance; nan as an empty sequence.       *)
SumOf(c)          == Times(c.mu, Whole(c.n))
Variance(c)       == IF c.n = 0 THEN <<>> ELSE Over(c.m2, c.n)
SampleVariance(c) == IF c.n <= 1 THEN <<>> ELSE Over(c.m2, c.n - 1)
=============================================================================
