----------------------------- MODULE RddSample -----------------------------
(***************************************************************************)
(* What RDD.takeSample is given and gives, and what it promises.           *)
(* RddSampling has the steps.                                              *)
(***************************************************************************)
EXTENDS SequencesExt

VARIABLES rdd,              \* the partitions of the RDD
          withReplacement,  \* an element may be taken more than once
          num,              \* how many elements are asked for
          at,               \* where the call stands
          result            \* what it returns

initialCount == Len(FlattenSeq(rdd))

(* rdd.py, "Return a fixed-size sampled subset": exactly num elements of   *)
(* the RDD, all there are when that is fewer; none twice without           *)
(* replacement.                                                            *)
FixedSize ==
    at = "done" /\ initialCount > 0 =>
        /\ Len(result) = IF withReplacement \/ num < initialCount THEN num
                         ELSE initialCount
        /\ ToSet(result) \subseteq ToSet(FlattenSeq(rdd))
        /\ ~withReplacement => Cardinality(ToSet(result)) = Len(result)
=============================================================================
