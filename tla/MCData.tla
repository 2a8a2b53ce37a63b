------------------------------- MODULE MCData -------------------------------
(* What PySpark computes, on bounded inputs: the streams of serializers,   *)
(* the actions, shuffles and sorts of RDDs, statistics, and the vectors of *)
(* MLlib.  A behaviour asks one question: a case of one part, then its     *)
(* answer.                                                                 *)
EXTENDS Integers

VARIABLES part, case, answer

Streams == INSTANCE MCSerializers WITH MaxLen <- 5, Sizes <- {2, 3, 4}
Actions == INSTANCE MCRddActions WITH
             MaxLen <- 5, MaxParts <- 2, MaxElem <- 4,
             Ops <- {"max", "fold", "aggregate", "count", "counts", "locally",
                     "top", "ordered", "orderedNeg", "orderedParity", "take"}
Shuffle == INSTANCE MCRddShuffle WITH
             MaxLen <- 2, Keysets <- {-1, 0, 2}, NumParts <- {2},
             Ops <- {"group", "fold", "distinct", "cogroup", "join", "left", "right",
                     "subtract", "minus", "intersection"},
             KeyFuncs <- {"id"}, Directions <- {TRUE}
Sort    == INSTANCE MCRddShuffle WITH
             MaxLen <- 3, Keysets <- 0..2, NumParts <- {1, 2, 3}, Ops <- {"sort"},
             KeyFuncs <- {"id", "neg", "turn"}, Directions <- BOOLEAN
Stats   == INSTANCE MCStatCounter WITH
             Values <- {0, 1, 3}, Runs <- {0, 3, 12, 20}, MaxParts <- 3, rdd <- case
Vectors == INSTANCE MCMllibVectors WITH MaxSize <- 2, Values <- {-1, 0, 2}, ExpMax <- 100
-----------------------------------------------------------------------------
Init == \/ part = "streams" /\ Streams!Init
        \/ part = "actions" /\ Actions!Init
        \/ part = "shuffle" /\ Shuffle!Init
        \/ part = "sort"    /\ Sort!Init
        \/ part = "stats"   /\ Stats!Init
        \/ part = "vectors" /\ Vectors!Init

Next == /\ \/ part = "streams" /\ Streams!Next
           \/ part = "actions" /\ Actions!Next
           \/ part = "shuffle" /\ Shuffle!Next
           \/ part = "sort"    /\ Sort!Next
           \/ part = "stats"   /\ Stats!Next
           \/ part = "vectors" /\ Vectors!Next
        /\ UNCHANGED part

Spec == Init /\ [][Next]_<<part, case, answer>>
-----------------------------------------------------------------------------
(* serializers.py, context.py: what was written is read back, in order and *)
(* whole: through every framing and batch size, from streams cut anywhere, *)
(* zipped and multiplied, by an equal serializer, out of a union, and      *)
(* sliced by parallelize.                                                  *)
StreamsRight == part = "streams" => Streams!StreamsRight

(* rdd.py: reduce, fold, aggregate, the counts, top, takeOrdered and take  *)
(* give on every split into partitions, empty ones among them, what they   *)
(* are defined to give on the whole data.                                  *)
ActionsRight == part = "actions" => Actions!ActionsRight

(* rdd.py, join.py: combineByKey and what is built on it, the joins and    *)
(* the set operations agree with their definitions in whatever order the   *)
(* buckets arrive; sortByKey sorts and loses nothing, whatever was         *)
(* sampled, and ascending leaves no bin empty without need.                *)
ShuffleRight == /\ part = "shuffle" => Shuffle!ShuffleRight
                /\ part = "sort"    => Sort!ShuffleRight

(* statcounter.py: count, mean, variance and sample variance are those of  *)
(* all the data, whichever formula merges the means; the extrema are kept  *)
(* while no counter is ten times larger than another.                      *)
StatsRight == part = "stats" => Stats!StatsRight

(* mllib: a vector or matrix goes to bytes and back, cut bytes are         *)
(* refused; products, distances and predictions do not depend on the form  *)
(* of a vector; k-means picks a nearest center; LIBSVM text is read as it  *)
(* was written.                                                            *)
VectorsRight == part = "vectors" => Vectors!VectorsRight
=============================================================================
