-------------------------- MODULE MCMllibVectors ---------------------------
(* One state per question about MllibVectors: a case, then its answer.     *)
EXTENDS MllibVectors, FiniteSets

CONSTANTS MaxSize,    \* bound: dimensions
          Values,     \* numbers in vectors
          ExpMax      \* bound: the largest number exp takes (709 in Python)

VARIABLES case, answer

Pending == <<"pending", 0, 0, 0>>
Sorted(S) == SetToSortSeq(S, LAMBDA i, j : i < j)
Over(n, V) ==
    {Dense(v) : v \in [1..n -> V]}
    \cup UNION {{Sparse(n, Sorted(S), vs) : vs \in [1..Cardinality(S) -> V]} :
                   S \in SUBSET (0..(n - 1))}
VectorsOf(n) == Over(n, Values)
PairsOf(n) == {ps \in BoundedSeq((0..(n - 1)) \X Values, 2) :
                 \A i, j \in 1..Len(ps) : ps[i][1] = ps[j][1] => i = j}

(* The dense form of a vector, the reference for what is computed on it.   *)
ToDense(x) ==
    IF x.kind = "dense" THEN x.v
    ELSE [i \in 1..x.size |->
            Add([k \in 1..Len(x.indices) |-> IF x.indices[k] = i - 1 THEN x.values[k] ELSE 0])]
Points(n) == [label : {-1, 0, 2}, features : Over(n, {0, -1, 123})]

Cases ==
    UNION {[op : {"bytes"}, v : VectorsOf(n), cut : 0..(9 + 12 * n)] : n \in 0..MaxSize}
    \cup UNION {[op : {"pairs"}, n : {n}, ps : PairsOf(n)] : n \in 1..MaxSize}
    \cup [op : {"matrix"}, rows : 1..2, cols : 1..2]
    \cup UNION {[op : {"dot"}, a : VectorsOf(n), b : VectorsOf(n)] : n \in 0..MaxSize}
    \cup [op : {"near"}, a : VectorsOf(2), cs : BoundedSeq([1..2 -> Values], 2) \ {<<>>}]
    \cup UNION {[op : {"model"}, a : VectorsOf(n), w : [1..2 -> Values], c : Values] : n \in 1..2}
    \cup [op : {"svm"}, ps : {<<p>> : p \in Points(2)}
                             \cup {<<p, q>> : p \in Points(2), q \in {r \in Points(2) : r.label = 0}},
          multiclass : BOOLEAN, n : {-1, 2}]

Init == case \in Cases /\ answer = Pending

Short(s, n) == SubSeq(s, 1, IF n < Len(s) THEN n ELSE Len(s))
Bytes  == case.op = "bytes"
          /\ answer' = DeserializeVector(Short(SerializeVector(case.v), case.cut))
Pairs  == case.op = "pairs"
          /\ answer' = DeserializeVector(SerializeVector(FromPairs(case.n, case.ps)[1]))
Matrix == case.op = "matrix"
          /\ LET ba == SerializeMatrix(case.rows, case.cols,
                                       [i \in 1..(case.rows * case.cols) |-> i])
             IN answer' = IF ba = Raises THEN Raises ELSE DeserializeMatrix(ba[1])
DotOp  == case.op = "dot" /\ ~(case.a.kind = "dense" /\ case.b.kind = "sparse")
          /\ answer' = Dot(case.a, case.b)
Near   == case.op = "near" /\ answer' = <<PredictCluster(case.cs, case.a)>>
Dist   == case.op = "dot" /\ answer' = <<"distance", SquaredDistance(case.a, case.b)>>
Model  == case.op = "model"
          /\ answer' = <<PredictLogistic(case.a, case.w, case.c, ExpMax),
                         PredictSVM(case.a, case.w, case.c)>>
Svm    == case.op = "svm"
          /\ answer' = LoadLibSVMFile([i \in 1..Len(case.ps) |-> ConvertToLibsvm(case.ps[i])],
                                      case.multiclass, case.n)

Next == answer = Pending /\ UNCHANGED case
        /\ (Bytes \/ Pairs \/ Matrix \/ DotOp \/ Dist \/ Near \/ Model \/ Svm)
Spec == Init /\ [][Next]_<<case, answer>>

Answered(op) == case.op = op /\ answer # Pending

-----------------------------------------------------------------------------
(* A vector or matrix goes to bytes and back unchanged, a sparse vector    *)
(* built from pairs (the doctest of _deserialize_double_vector) too; bytes *)
(* cut anywhere are refused, never read as another vector.                 *)
BytesRoundTrip ==
    /\ Answered("bytes") =>
         answer = IF case.cut >= Len(SerializeVector(case.v)) THEN <<case.v>> ELSE Raises
    /\ Answered("pairs") => answer = FromPairs(case.n, case.ps)
    /\ Answered("matrix") =>
         answer = <<<<case.rows, case.cols, [i \in 1..(case.rows * case.cols) |-> i]>>>>

(* dot and squared_distance give what they give on the dense forms, for    *)
(* every mix of dense and sparse operands.                                 *)
ArithmeticRight ==
    Answered("dot") =>
        LET u == ToDense(case.a)  w == ToDense(case.b)  n == Len(u)
        IN answer \in {<<Add([i \in 1..n |-> u[i] * w[i]])>>,
                       <<"distance", <<Add([i \in 1..n |-> (u[i] - w[i]) * (u[i] - w[i])])>>>>}

(* predict of k-means picks a center nearest to the point, the same one    *)
(* for a sparse and a dense form of it.                                    *)
NearestCenter ==
    Answered("near") =>
        LET dist(i) == SquaredDistance(Dense(ToDense(case.a)), Dense(case.cs[i]))[1]
        IN /\ \A i \in 1..Len(case.cs) : dist(answer[1]) <= dist(i)
           /\ answer[1] = PredictCluster(case.cs, Dense(ToDense(case.a)))

(* What saveAsLibSVMFile writes, loadLibSVMFile reads: the same features   *)
(* as far as their digits were printed, all of one size that holds every   *)
(* index, and the labels as asked for.                                     *)
LibsvmRoundTrip ==
    Answered("svm") =>
        \A i \in 1..Len(case.ps) :
            LET p == case.ps[i]  q == answer[i]
                padded(v) == [k \in 1..2 |-> IF k <= Len(v) THEN v[k] ELSE 0]
            IN /\ q.features # Raises
               /\ LET f == q.features[1]
                  IN /\ f.size = answer[1].features[1].size
                     /\ \A k \in 1..Len(f.indices) : f.indices[k] < f.size
                     /\ padded(ToDense(f)) = [k \in 1..2 |-> Str(ToDense(p.features)[k])]
               /\ q.label = IF case.multiclass THEN p.label
                            ELSE IF p.label > 0 THEN 1 ELSE 0

(* The linear models answer 0 or 1, the same for a sparse and a dense form *)
(* of the vector, and differ at most where the margin is 0; a vector of    *)
(* another size is refused.                                                *)
PredictsAlike ==
    Answered("model") =>
        LET x == Dense(ToDense(case.a))
        IN /\ answer = <<PredictLogistic(x, case.w, case.c, ExpMax),
                         PredictSVM(x, case.w, case.c)>>
           /\ IF TypeChecks(case.a, case.w)
              THEN /\ {answer[1], answer[2]} \subseteq {<<0>>, <<1>>}
                   /\ answer[1] # answer[2] => Margin(x, case.w, case.c) = 0
              ELSE answer = <<Raises, Raises>>

(* Vectors and models as a whole.                                          *)
VectorsRight == /\ BytesRoundTrip /\ ArithmeticRight /\ NearestCenter
                /\ LibsvmRoundTrip /\ PredictsAlike
=============================================================================
