---------------------------- MODULE RddSampling ----------------------------
(***************************************************************************)
(* pyspark/rddsampler.py and RDD.takeSample: samples are drawn again until *)
(* one is large enough, shuffled and cut to size.  A seed stands for the   *)
(* stream of random draws it starts; a split discards as many draws as its *)
(* number and uses the rest, one for each element.  A draw is how many     *)
(* times the element is taken.                                             *)
(***************************************************************************)
EXTENDS RddSample, Integers

CONSTANTS Elements,   \* what RDDs hold
          Rdds,       \* RDDs: sequences of partitions of distinct elements
          MAXINT,     \* sys.maxint, which no RDD reaches
          MaxNum,     \* bound: elements asked for
          MaxCopies,  \* bound: copies of one element, with replacement
          MaxReplaced \* bound: elements of an RDD sampled with replacement

VARIABLE samples

vars == <<rdd, withReplacement, num, at, samples, result>>

(* No element twice in an RDD, and fewer than sys.maxint.                  *)
DistinctElements ==
    /\ MAXINT \in Nat /\ MaxNum \in Nat /\ MaxCopies \in Nat
    /\ \A r \in Rdds :
         /\ r \in Seq(Seq(Elements)) /\ Len(FlattenSeq(r)) < MAXINT
         /\ \A i, k \in DOMAIN r : \A j \in DOMAIN r[i], l \in DOMAIN r[k] :
              r[i][j] = r[k][l] => i = k /\ j = l

maxSelected == IF initialCount > MAXINT - 1 THEN MAXINT - 1 ELSE initialCount
MutTotal == num
total == IF num > initialCount /\ ~withReplacement THEN maxSelected ELSE num
(* fraction >= 1: 3 * (num + 1) / initialCount, with maxSelected for num   *)
(* when there are not as many.                                             *)
TakesAll == 3 * (total + 1) >= initialCount

Init == /\ rdd \in Rdds /\ withReplacement \in BOOLEAN /\ num \in (-1)..MaxNum
        /\ withReplacement => initialCount <= MaxReplaced
        /\ at = "count" /\ samples = <<>> /\ result = <<>>

(* A negative number raises, an empty RDD gives an empty list.             *)
takeSample == /\ at = "count"
              /\ at' = CASE num < 0 -> "raised"
                         [] num >= 0 /\ initialCount = 0 -> "done"
                         [] OTHER -> "sample"
              /\ UNCHANGED <<rdd, withReplacement, num, samples, result>>

(* The draws of one seed.  Without replacement a draw below the fraction   *)
(* takes the element; with it, a Poisson number of copies.                 *)
Draws == [1..(initialCount + Len(rdd)) -> 0..(IF withReplacement THEN MaxCopies ELSE 1)]
Draw(draws, split, j) ==
    IF ~withReplacement /\ TakesAll THEN 1 ELSE draws[(split - 1) + j]
func(draws, split) ==
    FlattenSeq([j \in 1..Len(rdd[split]) |->
        [c \in 1..Draw(draws, split, j) |-> rdd[split][j]]])
sample(draws) == FlattenSeq([split \in 1..Len(rdd) |-> func(draws, split)])

MutShort(s) == Len(s) + 1 < total
Short(s) == Len(s) < total
Resample == /\ at = "sample"
            /\ \E draws \in Draws : samples' = sample(draws)
            /\ at' = IF Short(samples') THEN "sample" ELSE "shuffle"
            /\ UNCHANGED <<rdd, withReplacement, num, result>>

(* Shuffled and cut: any of them in any order.                             *)
Arrangements(s, n) ==
    {[i \in 1..n |-> s[o[i]]] :
        o \in {o \in [1..n -> 1..Len(s)] : Cardinality(ToSet(o)) = n}}
Cut == IF total < Len(samples) THEN total ELSE Len(samples)
shuffle == /\ at = "shuffle"
           /\ result' \in Arrangements(samples, Cut)
           /\ at' = "done"
           /\ UNCHANGED <<rdd, withReplacement, num, samples>>

Next == takeSample \/ Resample \/ shuffle
Spec == Init /\ [][Next]_vars
(* The generator is fair: a sample that is large enough comes up in the    *)
(* end when it can.                                                        *)
LargeEnough == Resample /\ at' = "shuffle"
FairSpec == Spec /\ WF_vars(takeSample \/ shuffle) /\ SF_vars(LargeEnough)

-----------------------------------------------------------------------------
(* takeSample does not go on sampling for ever.                            *)
SampleEnds == <>(at \in {"done", "raised"})
=============================================================================
