--------------------------- MODULE MllibVectors ----------------------------
(***************************************************************************)
(* pyspark/mllib: vectors, the bytes in which they go to the JVM, the      *)
(* arithmetic on them, prediction and the LIBSVM text format.  A dense     *)
(* vector is a sequence of numbers (NumPy's array or a list); indices of a *)
(* sparse one count from 0.  A computation that raises answers <<>>, one   *)
(* that returns x answers <<x>>.  Floats are exact numbers here.           *)
(***************************************************************************)
EXTENDS Integers, Sequences, SequencesExt

Raises    == <<>>
Dense(v)  == [kind |-> "dense", v |-> v]
Sparse(n, is, vs) == [kind |-> "sparse", size |-> n, indices |-> is, values |-> vs]
Add(s)    == FoldLeft(LAMBDA a, x : a + x, 0, s)

(* SparseVector(size, pairs), which sorts, and SparseVector(size, indices, *)
(* values), which wants them sorted.                                       *)
FromPairs(size, pairs) ==
    LET ps == SortSeq(pairs, LAMBDA p, q : p[1] < q[1] \/ (p[1] = q[1] /\ p[2] < q[2]))
    IN <<Sparse(size, [i \in 1..Len(ps) |-> ps[i][1]], [i \in 1..Len(ps) |-> ps[i][2]])>>
FromArrays(size, is, vs) ==
    IF Len(is) # Len(vs) \/ \E i \in 1..(Len(is) - 1) : is[i] >= is[i + 1]
    THEN Raises ELSE <<Sparse(size, is, vs)>>

-----------------------------------------------------------------------------
(* The bytes: a magic byte, 4 for an int32, 8 for a float64.               *)
Magic(m)   == <<<<"magic", m, 1>>>>
Int32(n)   == [k \in 1..4 |-> <<"int", n, k>>]
Float64(x) == [k \in 1..8 |-> <<"float", x, k>>]
Int32s(s)   == FlattenSeq([i \in 1..Len(s) |-> Int32(s[i])])
Float64s(s) == FlattenSeq([i \in 1..Len(s) |-> Float64(s[i])])
IntAt(ba, offset) == ba[offset + 1][2]
ArrayAt(ba, n, offset, width) == [i \in 1..n |-> ba[offset + width * (i - 1) + 1][2]]

SerializeVector(v) ==
    IF v.kind = "dense" THEN Magic(1) \o Int32(Len(v.v)) \o Float64s(v.v)
    ELSE Magic(2) \o Int32(v.size) \o Int32(Len(v.indices))
         \o Int32s(v.indices) \o Float64s(v.values)

ValuesOffset(n)     == 9 + 4 * n
DenseLength(ba, n)  == Len(ba) # 8 * n + 5
SparseLength(ba, n) == Len(ba) # 9 + 12 * n
DeserializeVector(ba) ==
    CASE Len(ba) < 5 -> Raises
      [] Len(ba) >= 5 /\ IntAt(ba, 0) = 1 ->
           LET n == IntAt(ba, 1)
           IN IF DenseLength(ba, n) THEN Raises ELSE <<Dense(ArrayAt(ba, n, 5, 8))>>
      [] Len(ba) >= 5 /\ IntAt(ba, 0) = 2 ->
           IF Len(ba) < 9 THEN Raises
           ELSE LET n == IntAt(ba, 5)
                IN IF SparseLength(ba, n) THEN Raises
                   ELSE FromArrays(IntAt(ba, 1), ArrayAt(ba, n, 9, 4),
                                   ArrayAt(ba, n, ValuesOffset(n), 8))
      [] OTHER -> Raises

(* The view of the two lengths is three integers wide: NumPy raises when   *)
(* the bytes end before it does.                                           *)
SerializeMatrix(rows, cols, data) ==
    LET ba == Magic(3) \o Int32(rows) \o Int32(cols) \o Float64s(data)
    IN IF Len(ba) < 1 + 3 * 4 THEN Raises ELSE <<ba>>
DeserializeMatrix(ba) ==
    IF Len(ba) < 9 \/ IntAt(ba, 0) # 3
       \/ Len(ba) # 8 * IntAt(ba, 1) * IntAt(ba, 5) + 9
    THEN Raises
    ELSE <<<<IntAt(ba, 1), IntAt(ba, 5),
             ArrayAt(ba, IntAt(ba, 1) * IntAt(ba, 5), 9, 8)>>>>

-----------------------------------------------------------------------------
(* SparseVector.dot and squared_distance: against a dense vector by        *)
(* position, against a sparse one by merging the indices.                  *)
DotDense(s, v) ==
    IF \E i \in 1..Len(s.indices) : s.indices[i] >= Len(v) THEN Raises
    ELSE <<Add([i \in 1..Len(s.indices) |-> s.values[i] * v[s.indices[i] + 1]])>>
DotSparse(s, o) ==
    LET n == Len(s.indices)  k == Len(o.indices)
        from[i \in 1..(n + 1), j \in 1..(k + 1)] ==
            IF i > n \/ j > k THEN 0
            ELSE IF s.indices[i] = o.indices[j]
                 THEN s.values[i] * o.values[j] + from[i + 1, j + 1]
            ELSE IF s.indices[i] < o.indices[j] THEN from[i + 1, j] ELSE from[i, j + 1]
    IN <<from[1, 1]>>
Dot(a, b) ==
    CASE a.kind = "dense" /\ b.kind = "dense" -> <<Add([i \in 1..Len(a.v) |-> a.v[i] * b.v[i]])>>
      [] a.kind = "sparse" /\ b.kind = "dense" -> DotDense(a, b.v)
      [] OTHER -> DotSparse(a, b)

DistanceDense(s, v) ==
    LET step(a, i) ==
            IF a.j <= Len(s.indices) /\ s.indices[a.j] = i - 1
            THEN [sum |-> a.sum + (s.values[a.j] - v[i]) * (s.values[a.j] - v[i]), j |-> a.j + 1]
            ELSE [a EXCEPT !.sum = @ + v[i] * v[i]]
    IN <<FoldLeft(step, [sum |-> 0, j |-> 1], [i \in 1..Len(v) |-> i]).sum>>
MutTails(s, i, o, j) == Add([m \in 1..(Len(s.values) - i + 1) |-> s.values[i + m - 1] * s.values[i + m - 1]])
Tails(s, i, o, j) ==
    Add([m \in 1..(Len(s.values) - i + 1) |-> s.values[i + m - 1] * s.values[i + m - 1]])
    + Add([m \in 1..(Len(o.values) - j + 1) |-> o.values[j + m - 1] * o.values[j + m - 1]])
DistanceSparse(s, o) ==
    LET n == Len(s.indices)  k == Len(o.indices)
        from[i \in 1..(n + 1), j \in 1..(k + 1)] ==
            IF i > n \/ j > k THEN Tails(s, i, o, j)
            ELSE IF s.indices[i] = o.indices[j]
                 THEN (s.values[i] - o.values[j]) * (s.values[i] - o.values[j]) + from[i + 1, j + 1]
            ELSE IF s.indices[i] < o.indices[j]
                 THEN s.values[i] * s.values[i] + from[i + 1, j]
                 ELSE o.values[j] * o.values[j] + from[i, j + 1]
    IN <<from[1, 1]>>
SquaredDistance(a, b) ==
    CASE a.kind = "dense" /\ b.kind = "dense" ->
             <<Add([i \in 1..Len(a.v) |-> (a.v[i] - b.v[i]) * (a.v[i] - b.v[i])])>>
      [] a.kind = "dense" /\ b.kind = "sparse" -> DistanceDense(b, a.v)
      [] a.kind = "sparse" /\ b.kind = "dense" -> DistanceDense(a, b.v)
      [] OTHER -> DistanceSparse(a, b)

-----------------------------------------------------------------------------
(* KMeansModel.predict: the first of the nearest centers.                  *)
Closer(a, i, d)    == [best |-> i, dist |-> <<d>>]
PredictCluster(centers, x) ==
    LET step(a, i) == LET d == SquaredDistance(x, Dense(centers[i]))[1]
                      IN IF a.dist = <<>> \/ d < a.dist[1] THEN Closer(a, i, d) ELSE a
    IN FoldLeft(step, [best |-> 1, dist |-> <<>>], [i \in 1..Len(centers) |-> i]).best

(* The linear models: the size is checked, then the margin decides.  exp   *)
(* of more than ExpMax overflows, and Python raises.                       *)
TypeChecks(x, coeffs) == (IF x.kind = "dense" THEN Len(x.v) ELSE x.size) = Len(coeffs)
Margin(x, coeffs, intercept) == Dot(x, Dense(coeffs))[1] + intercept
PredictLogistic(x, coeffs, intercept, ExpMax) ==
    IF ~TypeChecks(x, coeffs) \/ -Margin(x, coeffs, intercept) > ExpMax THEN Raises
    ELSE <<IF Margin(x, coeffs, intercept) > 0 THEN 1 ELSE 0>>
PredictSVM(x, coeffs, intercept) ==
    IF ~TypeChecks(x, coeffs) THEN Raises
    ELSE <<IF Margin(x, coeffs, intercept) >= 0 THEN 1 ELSE 0>>

-----------------------------------------------------------------------------
(* The LIBSVM text: a label and items index:value, counted from 1.         *)
(* str of a float keeps the first digits only: two here for Python's       *)
(* twelve, of numbers below a thousand.                                    *)
Str(x) == LET unit == IF x \in -99..99 THEN 1 ELSE 10 IN unit * ((x + unit \div 2) \div unit)
ConvertToLibsvm(p) ==
    [label |-> Str(p.label),
     items |-> IF p.features.kind = "dense"
               THEN [i \in 1..Len(p.features.v) |-> <<i, Str(p.features.v[i])>>]
               ELSE [i \in 1..Len(p.features.indices) |->
                       <<p.features.indices[i] + 1, Str(p.features.values[i])>>]]
ParseLibsvm(line, multiclass) ==
    [label |-> IF multiclass THEN line.label ELSE IF 2 * line.label > 1 THEN 1 ELSE 0,
     indices |-> [i \in 1..Len(line.items) |-> line.items[i][1] - 1],
     values  |-> [i \in 1..Len(line.items) |-> line.items[i][2]]]

NumFeatures(parsed) ==
    1 + FoldLeft(LAMBDA a, p : IF p.indices # <<>> /\ Last(p.indices) > a
                               THEN Last(p.indices) ELSE a, 0, parsed)
LoadLibSVMFile(lines, multiclass, numFeatures) ==
    LET parsed == [i \in 1..Len(lines) |-> ParseLibsvm(lines[i], multiclass)]
        n == IF numFeatures <= 0 THEN NumFeatures(parsed) ELSE numFeatures
    IN [i \in 1..Len(lines) |->
          [label |-> parsed[i].label,
           features |-> FromArrays(n, parsed[i].indices, parsed[i].values)]]
=============================================================================
