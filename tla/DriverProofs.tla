---------------------------- MODULE DriverProofs ----------------------------
(***************************************************************************)
(* Proofs about the driver program: RddPipeline for any functions and      *)
(* broadcast variables and any number of RDDs, DriverContext for any set   *)
(* of threads, with and without steps that raise, and RddSampling for any  *)
(* RDDs of distinct elements, however they are partitioned, and any draws  *)
(* (DistinctElements).                                                     *)
(***************************************************************************)
EXTENDS RddPipeline, ActiveContext, RddSample, FiniteSetTheorems, NaturalsInduction,
        WellFoundedInduction, TLAPS

CONSTANTS None, Faults
VARIABLES gateway, files, phase, stop, held
Context == INSTANCE DriverContext

CONSTANTS Elements, Rdds, MAXINT, MaxNum, MaxCopies, MaxReplaced
VARIABLE samples
Sampling == INSTANCE RddSampling

-----------------------------------------------------------------------------
(* A nonempty set of numbers has a least element.                          *)
LEMMA Least ==
    ASSUME NEW T \in SUBSET Nat, T # {} PROVE \E k \in T : \A i \in T : k <= i
<1>1. PICK k \in T : \A i \in T : ~ (<<i, k>> \in OpToRel(<, Nat))
  BY NatLessThanWellFounded, WFMin
<1>2. ASSUME NEW i \in T PROVE k <= i
  <2>1. ~ (<<i, k>> \in OpToRel(<, Nat)) /\ i \in Nat /\ k \in Nat
    BY <1>1
  <2> QED BY <2>1 DEF OpToRel
<1> QED BY <1>1, <1>2

LEMMA ConcatType == \A S : \A s, t \in Seq(S) : s \o t \in Seq(S)
OBVIOUS

(* Every RDD comes after the one it was made from.                         *)
Ordered(parent, n) == \A i \in 1..n : parent[i] \in 0..(i - 1)

(* The recursive definition of Along is met: by a function up to any       *)
(* length, since the least length without one cannot exist.                *)
Meets(f, parent, piece, n) ==
    f = [i \in 0..n |-> IF i = 0 THEN <<>> ELSE f[parent[i]] \o piece[i]]

LEMMA AlongExists ==
    ASSUME NEW n \in Nat, NEW parent, NEW piece, Ordered(parent, n)
    PROVE  \E f : Meets(f, parent, piece, n)
<1> USE DEF Meets
<1> DEFINE Met(f, m) == Meets(f, parent, piece, m)
           Has(m) == \E f : Met(f, m)
           T == {m \in 0..n : ~ Has(m)}
<1> SUFFICES Has(n)
  OBVIOUS
<1> HIDE DEF Has
<1> SUFFICES ASSUME T # {} PROVE FALSE
  OBVIOUS
<1>1. PICK m \in T : \A i \in T : m <= i
  <2>1. T \in SUBSET Nat
    OBVIOUS
  <2> HIDE DEF T
  <2> QED BY <2>1, Least
<1>2. m \in Nat /\ m <= n
  OBVIOUS
<1>3. CASE m = 0
  <2> DEFINE f == [i \in 0..0 |-> <<>>]
  <2>1. \A i \in 0..0 : i = 0
    OBVIOUS
  <2>2. Met(f, 0)
    BY <2>1
  <2>3. Has(0)
    BY <2>2 DEF Has
  <2> QED BY <1>3, <2>3
<1>4. CASE m # 0
  <2>1. m - 1 \in 0..n /\ m - 1 \notin T
    BY <1>1, <1>2, <1>4
  <2>2. PICK f : Met(f, m - 1)
    BY <2>1 DEF Has
  <2> DEFINE g == [i \in 0..m |-> IF i = m THEN f[parent[m]] \o piece[m] ELSE f[i]]
  <2>3. ASSUME NEW i \in 0..m
        PROVE  g[i] = IF i = 0 THEN <<>> ELSE g[parent[i]] \o piece[i]
    <3>1. CASE i = 0
      BY <1>4, <2>2, <3>1
    <3>2. CASE i # 0
      <4>1. i \in 1..n /\ parent[i] \in 0..(i - 1)
        BY <1>2, <3>2 DEF Ordered
      <4>2. parent[i] \in 0..(m - 1) /\ parent[i] \in 0..m /\ parent[i] # m
        BY <1>2, <4>1
      <4>3. g[parent[i]] = f[parent[i]]
        BY <4>2
      <4>4. CASE i = m
        BY <4>3, <4>4, <3>2
      <4>5. CASE i # m
        <5>1. i \in 0..(m - 1)
          BY <1>2, <4>5
        <5>2. f[i] = f[parent[i]] \o piece[i]
          BY <2>2, <5>1, <3>2
        <5> QED BY <4>3, <4>5, <5>2, <3>2
      <4> QED BY <4>4, <4>5
    <3> QED BY <3>1, <3>2
  <2>4. g = [i \in 0..m |-> g[i]]
    OBVIOUS
  <2> HIDE DEF g
  <2>5. Met(g, m)
    BY <2>3, <2>4
  <2>6. Has(m)
    BY <2>5 DEF Has
  <2> QED BY <2>6
<1> QED BY <1>3, <1>4

LEMMA AlongStep ==
    ASSUME NEW parent, NEW piece, Len(piece) \in Nat, Ordered(parent, Len(piece))
    PROVE  /\ Along(parent, piece)[0] = <<>>
           /\ \A i \in 1..Len(piece) : Along(parent, piece)[i]
                                = Along(parent, piece)[parent[i]] \o piece[i]
<1> DEFINE a == Along(parent, piece)
<1>1. a = CHOOSE f : Meets(f, parent, piece, Len(piece))
  BY DEF Along, Meets
<1>2. \E f : Meets(f, parent, piece, Len(piece))
  BY AlongExists
<1> HIDE DEF a
<1>3. a = [i \in 0..Len(piece) |-> IF i = 0 THEN <<>> ELSE a[parent[i]] \o piece[i]]
  <2>1. Meets(a, parent, piece, Len(piece))
    BY <1>1, <1>2, Zenon
  <2> QED BY <2>1 DEF Meets
<1>4. a[0] = <<>> /\ \A i \in 1..Len(piece) : a[i] = a[parent[i]] \o piece[i]
  <2>1. 0 \in 0..Len(piece) /\ \A i \in 1..Len(piece) : i \in 0..Len(piece) /\ i # 0
    OBVIOUS
  <2> QED BY <1>3, <2>1
<1> QED BY <1>4 DEF a

(* Its values are sequences.                                               *)
LEMMA AlongType ==
    ASSUME NEW S, NEW parent, NEW piece, Len(piece) \in Nat, Ordered(parent, Len(piece)),
           \A i \in 1..Len(piece) : piece[i] \in Seq(S)
    PROVE  \A i \in 0..Len(piece) : Along(parent, piece)[i] \in Seq(S)
<1> DEFINE a == Along(parent, piece)
           T == {i \in 0..Len(piece) : a[i] \notin Seq(S)}
<1> SUFFICES ASSUME T # {} PROVE FALSE
  OBVIOUS
<1>1. PICK m \in T : \A i \in T : m <= i
  <2>1. T \in SUBSET Nat
    OBVIOUS
  <2> HIDE DEF T
  <2> QED BY <2>1, Least
<1>2. a[0] = <<>> /\ \A i \in 1..Len(piece) : a[i] = a[parent[i]] \o piece[i]
  BY AlongStep, Zenon
<1> HIDE DEF a
<1>3. m # 0
  <2>1. <<>> \in Seq(S)
    OBVIOUS
  <2> QED BY <1>2, <2>1
<1>4. m \in 1..Len(piece) /\ parent[m] \in 0..(m - 1)
  BY <1>3 DEF Ordered
<1>5. parent[m] \in 0..Len(piece) /\ parent[m] < m
  BY <1>4
<1>6. parent[m] \notin T
  BY <1>1, <1>5
<1>7. a[parent[m]] \in Seq(S) /\ piece[m] \in Seq(S)
  BY <1>4, <1>5, <1>6
<1>8. a[m] \in Seq(S)
  BY <1>2, <1>4, <1>7, ConcatType, Zenon
<1> QED BY <1>8

(* What is made later does not change what is met on the way to an RDD.    *)
LEMMA AlongSame ==
    ASSUME NEW parent, NEW piece, Len(piece) \in Nat, Ordered(parent, Len(piece)),
           NEW parent2, NEW piece2, Len(piece2) \in Nat, Ordered(parent2, Len(piece2)),
           Len(piece) <= Len(piece2),
           \A i \in 1..Len(piece) : parent2[i] = parent[i] /\ piece2[i] = piece[i]
    PROVE  \A i \in 0..Len(piece) : Along(parent2, piece2)[i] = Along(parent, piece)[i]
<1> DEFINE a == Along(parent, piece)
           b == Along(parent2, piece2)
           T == {i \in 0..Len(piece) : b[i] # a[i]}
<1> SUFFICES ASSUME T # {} PROVE FALSE
  OBVIOUS
<1>1. PICK m \in T : \A i \in T : m <= i
  <2>1. T \in SUBSET Nat
    OBVIOUS
  <2> HIDE DEF T
  <2> QED BY <2>1, Least
<1>2. a[0] = <<>> /\ \A i \in 1..Len(piece) : a[i] = a[parent[i]] \o piece[i]
  BY AlongStep, Zenon
<1>3. b[0] = <<>> /\ \A i \in 1..Len(piece2) : b[i] = b[parent2[i]] \o piece2[i]
  BY AlongStep, Zenon
<1> HIDE DEF a, b
<1>4. m # 0
  BY <1>2, <1>3
<1>5. m \in 1..Len(piece) /\ m \in 1..Len(piece2) /\ parent[m] \in 0..(m - 1)
  BY <1>4 DEF Ordered
<1>6. parent[m] \in 0..Len(piece) /\ parent[m] < m
  BY <1>5
<1>7. b[parent[m]] = a[parent[m]]
  BY <1>1, <1>6
<1>8. b[m] = a[m]
  <2>1. b[m] = b[parent2[m]] \o piece2[m] /\ a[m] = a[parent[m]] \o piece[m]
    BY <1>2, <1>3, <1>5
  <2>2. parent2[m] = parent[m] /\ piece2[m] = piece[m]
    BY <1>5
  <2> QED BY <1>7, <2>1, <2>2
<1> QED BY <1>8

-----------------------------------------------------------------------------
(* Types.                                                                  *)
Vars == UNION {Uses(f) : f \in Fns}
RddSet == [prev : Nat, fns : Seq(Fns), func : Seq(Fns), base : Nat, keeps : BOOLEAN,
           cached : BOOLEAN, checkpointed : BOOLEAN, jrdd : Nat]
JrddSet == [parent : Nat, func : Seq(Fns), keeps : BOOLEAN, bvars : SUBSET Vars,
            persisted : BOOLEAN]
CallSet == [op : {"none", "map", "persist", "unpersist", "checkpoint", "job"}, r : Nat,
            f : Seq(Fns), pc : {"idle", "dumps", "list", "clear", "make", "finish"},
            bvars : SUBSET Vars]
TypeInv == /\ rdds \in Seq(RddSet) /\ jrdds \in Seq(JrddSet) /\ registry \in SUBSET Vars
           /\ call \in [Threads -> CallSet]

(* A thread in the middle of a call works on an RDD that exists, and goes  *)
(* on to the operation only when the RDD has one in the JVM.               *)
CallOK(t) ==
    /\ call[t].pc = "idle" <=> call[t] = Idle
    /\ call[t].pc # "idle" => call[t].r \in 1..Len(rdds)
    /\ call[t].pc = "finish" => rdds[call[t].r].jrdd # 0
    /\ call[t].op = "map" => Len(call[t].f) = 1
CallInv == \A t \in Threads : CallOK(t)

(* RDDs come after the ones they are made from, in the driver and the JVM. *)
ShapeInv ==
    /\ \A r \in 1..Len(rdds) : /\ rdds[r].prev \in 0..(r - 1)
                                /\ rdds[r].base \in 0..Len(jrdds)
                                /\ rdds[r].jrdd \in 0..Len(jrdds)
    /\ \A j \in 1..Len(jrdds) : jrdds[j].parent \in 0..(j - 1)

Base == TypeInv /\ CallInv /\ ShapeInv

LEMMA SeqFacts ==
    ASSUME NEW S, NEW s \in Seq(S)
    PROVE  /\ Len(s) \in Nat /\ \A i \in 1..Len(s) : s[i] \in S
           /\ \A x \in S : /\ Append(s, x) \in Seq(S) /\ Len(Append(s, x)) = Len(s) + 1
                            /\ Append(s, x)[Len(s) + 1] = x
                            /\ \A i \in 1..Len(s) : Append(s, x)[i] = s[i]
           /\ \A k \in 1..Len(s), x \in S : /\ [s EXCEPT ![k] = x] \in Seq(S)
                                            /\ Len([s EXCEPT ![k] = x]) = Len(s)
OBVIOUS

LEMMA SetAt ==
    ASSUME NEW S, NEW s \in Seq(S), NEW k \in 1..Len(s), NEW x, NEW u,
           u = [s EXCEPT ![k] = x]
    PROVE  u[k] = x /\ \A i \in 1..Len(s) : i # k => u[i] = s[i]
OBVIOUS

LEMMA OneType == ASSUME NEW S, NEW x \in S PROVE <<x>> \in Seq(S) /\ Len(<<x>>) = 1
OBVIOUS

LEMMA EmptyType == ASSUME NEW S PROVE <<>> \in Seq(S) /\ Len(<<>>) = 0
OBVIOUS

LEMMA IdleType == Idle \in CallSet /\ Idle.pc = "idle" /\ Idle.op = "none"
BY EmptyType DEF Idle, CallSet

LEMMA InitBase == ASSUME Init PROVE Base
<1>1. Root \in RddSet /\ JRoot \in JrddSet
  BY EmptyType DEF Root, JRoot, RddSet, JrddSet
<1>2. TypeInv
  BY <1>1, OneType, IdleType DEF Init, TypeInv
<1>3. CallInv
  BY IdleType DEF Init, CallInv, CallOK
<1>4. ShapeInv
  <2>1. Len(rdds) = 1 /\ Len(jrdds) = 1 /\ rdds[1] = Root /\ jrdds[1] = JRoot
    BY DEF Init
  <2>2. \A i \in 1..1 : i = 1
    OBVIOUS
  <2> QED BY <2>1, <2>2 DEF ShapeInv, Root, JRoot
<1> QED BY <1>2, <1>3, <1>4 DEF Base

(* The new RDD of map.                                                     *)
LEMMA StageType ==
    ASSUME FlagsOK, TypeInv, NEW r \in 1..Len(rdds), NEW f \in Fns, NEW fused \in BOOLEAN
    PROVE  Stage(r, f, fused) \in RddSet
<1>1. rdds[r] \in RddSet
  BY SeqFacts DEF TypeInv
<1>2. <<f>> \in Seq(Fns) /\ FusedFunc(r, f) \in Seq(Fns)
  BY <1>1, OneType, SeqFacts DEF FusedFunc, RddSet
<1>3. Keeps(f) \in BOOLEAN /\ BothKeep(r, f) \in BOOLEAN
  BY DEF FlagsOK, BothKeep
<1>4. r \in Nat
  BY SeqFacts DEF TypeInv
<1> QED BY <1>1, <1>2, <1>3, <1>4 DEF Stage, RddSet

(* What a step does to the RDDs: nothing that matters to the lineage,      *)
(* a new RDD in the driver, or a new one in the JVM.                       *)
SameRdds  == /\ Len(rdds') = Len(rdds)
             /\ \A i \in 1..Len(rdds) :
                  /\ rdds'[i].prev = rdds[i].prev /\ rdds'[i].fns = rdds[i].fns
                  /\ rdds'[i].func = rdds[i].func /\ rdds'[i].base = rdds[i].base
                  /\ rdds'[i].keeps = rdds[i].keeps /\ rdds'[i].jrdd = rdds[i].jrdd
SameJrdds == /\ Len(jrdds') = Len(jrdds)
             /\ \A i \in 1..Len(jrdds) :
                  /\ jrdds'[i].parent = jrdds[i].parent /\ jrdds'[i].func = jrdds[i].func
                  /\ jrdds'[i].keeps = jrdds[i].keeps /\ jrdds'[i].bvars = jrdds[i].bvars
Staged(r, f, fused) == /\ rdds' = Append(rdds, Stage(r, f, fused)) /\ jrdds' = jrdds
                       /\ ~ fused => rdds[r].jrdd # 0
Command(r, bvars) == [parent |-> rdds[r].base, func |-> rdds[r].func,
                      keeps |-> rdds[r].keeps, bvars |-> bvars, persisted |-> FALSE]
Made(r, bvars) == /\ jrdds' = Append(jrdds, Command(r, bvars))
                  /\ rdds' = [rdds EXCEPT ![r].jrdd = Len(jrdds) + 1]
Effect == \/ SameRdds /\ SameJrdds
          \/ \E r \in 1..Len(rdds), f \in Fns, fused \in BOOLEAN : Staged(r, f, fused)
          \/ \E r \in 1..Len(rdds), bvars \in SUBSET Vars : Made(r, bvars)

LEMMA FlagUpdate ==
    ASSUME TypeInv, NEW r \in 1..Len(rdds), NEW b \in BOOLEAN,
           \/ rdds' = [rdds EXCEPT ![r].cached = b]
           \/ rdds' = [rdds EXCEPT ![r].checkpointed = b]
    PROVE  rdds' \in Seq(RddSet) /\ SameRdds
<1>1. rdds \in Seq(RddSet) /\ rdds[r] \in RddSet
  BY SeqFacts DEF TypeInv
<1>2. /\ [rdds[r] EXCEPT !.cached = b] \in RddSet
      /\ [rdds[r] EXCEPT !.checkpointed = b] \in RddSet
  BY <1>1 DEF RddSet
<1>3. rdds' \in Seq(RddSet) /\ Len(rdds') = Len(rdds)
  BY <1>1, <1>2, SeqFacts
<1>4. \A i \in 1..Len(rdds) : rdds[i] \in RddSet
  BY <1>1, SeqFacts
<1>5. \A i \in 1..Len(rdds) : i # r => rdds'[i] = rdds[i]
  BY <1>1
<1>6. \/ rdds'[r] = [rdds[r] EXCEPT !.cached = b]
      \/ rdds'[r] = [rdds[r] EXCEPT !.checkpointed = b]
  BY <1>1
<1>7. SameRdds
  BY <1>1, <1>3, <1>5, <1>6 DEF SameRdds, RddSet
<1> QED BY <1>3, <1>7

LEMMA MakeUpdate ==
    ASSUME TypeInv, NEW r \in 1..Len(rdds), NEW bvars \in SUBSET Vars, Made(r, bvars)
    PROVE  /\ rdds' \in Seq(RddSet) /\ Len(rdds') = Len(rdds)
           /\ \A i \in 1..Len(rdds) :
                /\ rdds'[i].prev = rdds[i].prev /\ rdds'[i].fns = rdds[i].fns
                /\ rdds'[i].func = rdds[i].func /\ rdds'[i].base = rdds[i].base
                /\ rdds'[i].keeps = rdds[i].keeps /\ rdds'[i].cached = rdds[i].cached
                /\ rdds'[i].jrdd = IF i = r THEN Len(jrdds) + 1 ELSE rdds[i].jrdd
           /\ jrdds' \in Seq(JrddSet) /\ Len(jrdds') = Len(jrdds) + 1
           /\ jrdds'[Len(jrdds) + 1] = Command(r, bvars)
           /\ \A i \in 1..Len(jrdds) : jrdds'[i] = jrdds[i]
<1>1. /\ rdds \in Seq(RddSet) /\ rdds[r] \in RddSet /\ jrdds \in Seq(JrddSet)
      /\ Len(jrdds) \in Nat
  BY SeqFacts DEF TypeInv
<1>2. [rdds[r] EXCEPT !.jrdd = Len(jrdds) + 1] \in RddSet
  <2>1. Len(jrdds) + 1 \in Nat
    BY <1>1
  <2> QED BY <1>1, <2>1 DEF RddSet
<1>3. rdds' = [rdds EXCEPT ![r] = [rdds[r] EXCEPT !.jrdd = Len(jrdds) + 1]]
  BY DEF Made
<1>4. rdds' \in Seq(RddSet) /\ Len(rdds') = Len(rdds)
  BY <1>1, <1>2, <1>3, SeqFacts
<1>5. \A i \in 1..Len(rdds) : i # r => rdds'[i] = rdds[i]
  BY <1>1, <1>3
<1>6. rdds'[r] = [rdds[r] EXCEPT !.jrdd = Len(jrdds) + 1]
  BY <1>1, <1>3
<1>7. /\ rdds'[r].prev = rdds[r].prev /\ rdds'[r].fns = rdds[r].fns
      /\ rdds'[r].func = rdds[r].func /\ rdds'[r].base = rdds[r].base
      /\ rdds'[r].keeps = rdds[r].keeps /\ rdds'[r].cached = rdds[r].cached
      /\ rdds'[r].jrdd = Len(jrdds) + 1
  BY <1>1, <1>6 DEF RddSet
<1>8. Command(r, bvars) \in JrddSet
  BY <1>1 DEF Command, RddSet, JrddSet
<1>9. jrdds' = Append(jrdds, Command(r, bvars))
  BY DEF Made
<1>10. /\ jrdds' \in Seq(JrddSet) /\ Len(jrdds') = Len(jrdds) + 1
       /\ jrdds'[Len(jrdds) + 1] = Command(r, bvars)
       /\ \A i \in 1..Len(jrdds) : jrdds'[i] = jrdds[i]
  BY <1>1, <1>8, <1>9, SeqFacts
<1> QED BY <1>4, <1>5, <1>7, <1>10

LEMMA StageUpdate ==
    ASSUME FlagsOK, TypeInv, NEW r \in 1..Len(rdds), NEW f \in Fns, NEW fused \in BOOLEAN,
           Staged(r, f, fused)
    PROVE  /\ rdds' \in Seq(RddSet) /\ Len(rdds') = Len(rdds) + 1
           /\ rdds'[Len(rdds) + 1] = Stage(r, f, fused)
           /\ \A i \in 1..Len(rdds) : rdds'[i] = rdds[i]
BY StageType, SeqFacts DEF Staged, TypeInv

(* The calls of the other threads are not disturbed.                       *)
Grows == /\ Len(rdds) <= Len(rdds')
         /\ \A i \in 1..Len(rdds) : rdds[i].jrdd # 0 => rdds'[i].jrdd # 0

LEMMA EffectGrows == ASSUME FlagsOK, TypeInv, Effect PROVE Grows
<1>1. Len(rdds) \in Nat /\ Len(jrdds) \in Nat
  BY SeqFacts DEF TypeInv
<1>2. CASE SameRdds
  BY <1>1, <1>2 DEF SameRdds, Grows
<1>3. ASSUME NEW r \in 1..Len(rdds), NEW f \in Fns, NEW fused \in BOOLEAN,
             Staged(r, f, fused)
      PROVE  Grows
  BY <1>1, <1>3, StageUpdate DEF Grows
<1>4. ASSUME NEW r \in 1..Len(rdds), NEW bvars \in SUBSET Vars, Made(r, bvars) PROVE Grows
  <2>1. /\ Len(rdds') = Len(rdds)
        /\ \A i \in 1..Len(rdds) :
             rdds'[i].jrdd = IF i = r THEN Len(jrdds) + 1 ELSE rdds[i].jrdd
    BY <1>4, MakeUpdate
  <2> QED BY <1>1, <2>1 DEF Grows
<1> QED BY <1>2, <1>3, <1>4 DEF Effect

LEMMA OtherCalls ==
    ASSUME TypeInv, Grows, NEW t \in Threads, CallOK(t), call'[t] = call[t]
    PROVE  CallOK(t)'
<1>1. Len(rdds) \in Nat /\ (\A i \in 1..Len(rdds) : i \in 1..Len(rdds'))
  <2>1. Len(rdds) \in Nat
    BY SeqFacts DEF TypeInv
  <2> QED BY <2>1 DEF Grows
<1> QED BY <1>1 DEF CallOK, Grows

-----------------------------------------------------------------------------
(* The steps.                                                              *)
LEMMA AskStep ==
    ASSUME TypeInv, NEW t \in Threads, NEW r \in 1..Len(rdds), NEW f \in Seq(Fns),
           NEW op \in {"map", "persist", "unpersist", "checkpoint", "job"},
           op = "map" => Len(f) = 1, Ask(t, op, r, f), SameRdds
    PROVE  /\ call' \in [Threads -> CallSet] /\ CallOK(t)'
           /\ \A u \in Threads : u # t => call'[u] = call[u]
<1> DEFINE c == [op |-> op, r |-> r, f |-> f, bvars |-> {},
                 pc |-> IF rdds[r].jrdd # 0 THEN "finish" ELSE "dumps"]
<1>1. /\ c \in CallSet /\ c.r = r /\ c.op = op /\ c.f = f
      /\ c.pc = (IF rdds[r].jrdd # 0 THEN "finish" ELSE "dumps")
  <2>1. r \in Nat
    BY SeqFacts DEF TypeInv
  <2> QED BY <2>1 DEF CallSet
<1>2. call' = [call EXCEPT ![t] = c]
  BY DEF Ask
<1> HIDE DEF c
<1>3. /\ call' \in [Threads -> CallSet] /\ call'[t] = c
      /\ \A u \in Threads : u # t => call'[u] = call[u]
  BY <1>1, <1>2 DEF TypeInv
<1>4. c # Idle
  BY <1>1, IdleType
<1>5. CallOK(t)'
  BY <1>1, <1>3, <1>4 DEF CallOK, SameRdds
<1> QED BY <1>3, <1>5

LEMMA BeginStep ==
    ASSUME FlagsOK, Base, NEW t \in Threads, Begin(t) PROVE TypeInv' /\ CallInv' /\ Effect
<1> USE DEF Base
<1>1. PICK r \in 1..Len(rdds) : \/ \E f \in Fns : map(t, r, f)
                                \/ persist(t, r) \/ unpersist(t, r)
                                \/ checkpoint(t, r) \/ job(t, r)
  BY DEF Begin
<1>2. UNCHANGED <<jrdds, registry>> /\ SameJrdds
  BY <1>1 DEF map, persist, unpersist, checkpoint, job, SameJrdds
<1>3. ASSUME rdds' \in Seq(RddSet), Effect, call' \in [Threads -> CallSet],
             \A u \in Threads : CallOK(u)' \/ call'[u] = call[u]
      PROVE  TypeInv' /\ CallInv' /\ Effect
  <2>1. TypeInv'
    BY <1>2, <1>3 DEF TypeInv
  <2>2. Grows
    BY <1>3, EffectGrows
  <2>3. CallInv'
    BY <1>3, <2>2, OtherCalls DEF CallInv
  <2> QED BY <1>3, <2>1, <2>3
<1>4. ASSUME NEW f \in Fns, map(t, r, f) PROVE TypeInv' /\ CallInv' /\ Effect
  <2>1. CASE Fused(r)
    <3>1. Staged(r, f, TRUE) /\ call' = call
      BY <1>4, <2>1, <1>2 DEF map, Staged
    <3>2. Effect
      BY <3>1 DEF Effect
    <3>3. rdds' \in Seq(RddSet)
      BY <3>1, StageUpdate
    <3> QED BY <1>3, <3>1, <3>2, <3>3 DEF TypeInv
  <2>2. CASE ~ Fused(r)
    <3>1. Ask(t, "map", r, <<f>>) /\ rdds' = rdds
      BY <1>4, <2>2 DEF map
    <3>2. SameRdds
      BY <3>1 DEF SameRdds
    <3>3. /\ call' \in [Threads -> CallSet] /\ CallOK(t)'
          /\ \A u \in Threads : u # t => call'[u] = call[u]
      BY <3>1, <3>2, AskStep, OneType
    <3> QED BY <1>2, <1>3, <3>1, <3>2, <3>3 DEF Effect, TypeInv
  <2> QED BY <2>1, <2>2
<1>5. ASSUME NEW op \in {"persist", "unpersist", "checkpoint", "job"}, Ask(t, op, r, <<>>),
             rdds' \in Seq(RddSet), SameRdds
      PROVE  TypeInv' /\ CallInv' /\ Effect
  <2>1. /\ call' \in [Threads -> CallSet] /\ CallOK(t)'
        /\ \A u \in Threads : u # t => call'[u] = call[u]
    BY <1>5, AskStep, EmptyType
  <2> QED BY <1>2, <1>3, <1>5, <2>1 DEF Effect
<1>6. CASE persist(t, r) \/ unpersist(t, r) \/ checkpoint(t, r)
  <2>1. rdds' \in Seq(RddSet) /\ SameRdds
    BY <1>6, FlagUpdate DEF persist, unpersist, Unpersisted, checkpoint
  <2>2. \/ Ask(t, "persist", r, <<>>) \/ Ask(t, "unpersist", r, <<>>)
        \/ Ask(t, "checkpoint", r, <<>>) \/ call' = call
    BY <1>6 DEF persist, unpersist, checkpoint
  <2>3. CASE call' = call
    BY <1>2, <1>3, <2>1, <2>3 DEF Effect, TypeInv
  <2> QED BY <1>5, <2>1, <2>2, <2>3
<1>7. CASE job(t, r)
  <2>1. rdds' = rdds /\ Ask(t, "job", r, <<>>)
    BY <1>7 DEF job
  <2>2. rdds' \in Seq(RddSet) /\ SameRdds
    BY <2>1 DEF TypeInv, SameRdds
  <2> QED BY <1>5, <2>1, <2>2
<1> QED BY <1>1, <1>4, <1>6, <1>7

LEMMA UsedType ==
    ASSUME NEW func \in Seq(Fns) PROVE UsedBy(func) \in SUBSET Vars
<1>1. \A i \in 1..Len(func) : func[i] \in Fns
  BY SeqFacts
<1> QED BY <1>1 DEF UsedBy, Vars

(* A thread moves on in _jrdd.                                             *)
LEMMA MoveOn ==
    ASSUME TypeInv, NEW t \in Threads, CallOK(t), call[t].pc # "idle",
           NEW to \in {"list", "clear", "make", "finish"}, NEW b \in SUBSET Vars,
           \/ call' = [call EXCEPT ![t].pc = to] /\ b = call[t].bvars
           \/ call' = [call EXCEPT ![t].pc = to, ![t].bvars = b]
    PROVE  /\ call' \in [Threads -> CallSet]
           /\ call'[t].pc = to /\ call'[t].r = call[t].r /\ call'[t].op = call[t].op
           /\ call'[t].f = call[t].f /\ call'[t].bvars = b /\ call'[t] # Idle
           /\ \A u \in Threads : u # t => call'[u] = call[u]
<1>1. call[t] \in CallSet
  BY DEF TypeInv
<1> DEFINE c == call'[t]
<1>2. \/ c = [call[t] EXCEPT !.pc = to] /\ b = call[t].bvars
      \/ c = [call[t] EXCEPT !.pc = to, !.bvars = b]
  BY DEF TypeInv
<1>3. /\ c \in CallSet /\ c.pc = to /\ c.r = call[t].r /\ c.op = call[t].op
      /\ c.f = call[t].f /\ c.bvars = b
  <2> HIDE DEF c
  <2> QED BY <1>1, <1>2 DEF CallSet
<1>4. call' = [call EXCEPT ![t] = c]
  BY DEF TypeInv
<1>5. call' \in [Threads -> CallSet] /\ \A u \in Threads : u # t => call'[u] = call[u]
  <2> HIDE DEF c
  <2> QED BY <1>3, <1>4 DEF TypeInv
<1>6. c # Idle
  BY <1>3, IdleType
<1> QED BY <1>3, <1>5, <1>6

LEMMA WalkStep ==
    ASSUME FlagsOK, Base, NEW t \in Threads,
           Dumps(t) \/ DumpsRaises(t) \/ ListVars(t) \/ Clear(t) \/ Refused(t)
    PROVE  TypeInv' /\ CallInv' /\ UNCHANGED <<rdds, jrdds>>
<1> USE DEF Base
<1>1. UNCHANGED <<rdds, jrdds>> /\ call[t].pc # "idle" /\ CallOK(t)
  BY DEF Dumps, DumpsRaises, ListVars, Clear, Refused, Abort, CallInv
<1>2. FuncOf(t) \in Seq(Fns) /\ call[t] \in CallSet
  <2>1. rdds[call[t].r] \in RddSet
    BY <1>1, SeqFacts DEF TypeInv, CallOK
  <2> QED BY <2>1 DEF FuncOf, RddSet, TypeInv
<1>3. registry' \in SUBSET Vars
  <2>1. UsedBy(FuncOf(t)) \in SUBSET Vars
    BY <1>2, UsedType
  <2> QED BY <2>1 DEF Dumps, DumpsRaises, ListVars, Clear, Refused, TypeInv
<1>4. /\ call' \in [Threads -> CallSet] /\ \A u \in Threads : u # t => call'[u] = call[u]
      /\ CallOK(t)'
  <2>1. CASE DumpsRaises(t) \/ Refused(t)
    <3>1. call' = [call EXCEPT ![t] = Idle]
      BY <2>1 DEF DumpsRaises, Refused, Abort
    <3> QED BY <3>1, IdleType DEF TypeInv, CallOK
  <2>2. ASSUME NEW to \in {"list", "clear", "make"}, NEW b \in SUBSET Vars,
               \/ call' = [call EXCEPT ![t].pc = to] /\ b = call[t].bvars
               \/ call' = [call EXCEPT ![t].pc = to, ![t].bvars = b]
        PROVE  /\ call' \in [Threads -> CallSet] /\ CallOK(t)'
               /\ \A u \in Threads : u # t => call'[u] = call[u]
    <3>1. /\ call' \in [Threads -> CallSet]
          /\ call'[t].pc = to /\ call'[t].r = call[t].r /\ call'[t].op = call[t].op
          /\ call'[t].f = call[t].f /\ call'[t] # Idle
          /\ \A u \in Threads : u # t => call'[u] = call[u]
      BY <1>1, <2>2, MoveOn
    <3> QED BY <1>1, <3>1 DEF CallOK
  <2>3. CASE Dumps(t) \/ Clear(t)
    <3>1. call[t].bvars \in SUBSET Vars
      BY <1>2 DEF CallSet
    <3>2. call' = [call EXCEPT ![t].pc = "list"] \/ call' = [call EXCEPT ![t].pc = "make"]
      BY <2>3 DEF Dumps, Clear, Goto
    <3> QED BY <2>2, <3>1, <3>2
  <2>4. CASE ListVars(t)
    <3>1. call' = [call EXCEPT ![t].pc = "clear", ![t].bvars = registry]
      BY <2>4 DEF ListVars, Listed
    <3> QED BY <2>2, <3>1 DEF TypeInv
  <2> QED BY <2>1, <2>3, <2>4
<1>5. CallInv'
  <2>1. Grows
    <3>1. Len(rdds) \in Nat
      BY SeqFacts DEF TypeInv
    <3> QED BY <1>1, <3>1 DEF Grows
  <2> QED BY <1>4, <2>1, OtherCalls DEF CallInv
<1> QED BY <1>1, <1>3, <1>4, <1>5 DEF TypeInv

LEMMA MakeStep ==
    ASSUME FlagsOK, Base, NEW t \in Threads, Make(t)
    PROVE  /\ TypeInv' /\ CallInv' /\ Made(call[t].r, call[t].bvars)
           /\ call[t].r \in 1..Len(rdds) /\ call[t].bvars \in SUBSET Vars
<1> USE DEF Base
<1>1. call[t].pc = "make" /\ CallOK(t) /\ call[t] \in CallSet
  BY DEF Make, CallInv, TypeInv
<1>2. call[t].r \in 1..Len(rdds) /\ call[t].bvars \in SUBSET Vars
  BY <1>1 DEF CallOK, CallSet
<1>3. Made(call[t].r, call[t].bvars) /\ registry' = registry
      /\ call' = [call EXCEPT ![t].pc = "finish"]
  BY DEF Make, Made, Command, Goto
<1>4. /\ call' \in [Threads -> CallSet]
      /\ call'[t].pc = "finish" /\ call'[t].r = call[t].r /\ call'[t].op = call[t].op
      /\ call'[t].f = call[t].f /\ call'[t] # Idle
      /\ \A u \in Threads : u # t => call'[u] = call[u]
  BY <1>1, <1>2, <1>3, MoveOn
<1>5. /\ rdds' \in Seq(RddSet) /\ Len(rdds') = Len(rdds)
      /\ rdds'[call[t].r].jrdd = Len(jrdds) + 1 /\ jrdds' \in Seq(JrddSet)
  BY <1>2, <1>3, MakeUpdate
<1>6. TypeInv'
  BY <1>3, <1>4, <1>5 DEF TypeInv
<1>7. CallOK(t)'
  <2>1. Len(jrdds) + 1 # 0
    <3>1. Len(jrdds) \in Nat
      BY SeqFacts DEF TypeInv
    <3> QED BY <3>1
  <2> QED BY <1>1, <1>2, <1>4, <1>5, <2>1 DEF CallOK
<1>8. Grows
  BY <1>2, <1>3, EffectGrows DEF Effect
<1>9. CallInv'
  BY <1>4, <1>7, <1>8, OtherCalls DEF CallInv
<1> QED BY <1>2, <1>3, <1>6, <1>9

LEMMA FinishStep ==
    ASSUME FlagsOK, Base, NEW t \in Threads, Finish(t)
    PROVE  TypeInv' /\ CallInv' /\ Effect /\ SameJrdds
<1> USE DEF Base
<1> DEFINE c == call[t]
           j == rdds[c.r].jrdd
<1>1. /\ c.pc = "finish" /\ CallOK(t) /\ c \in CallSet /\ c.r \in 1..Len(rdds)
      /\ rdds[c.r].jrdd # 0
  BY DEF Finish, CallInv, CallOK, TypeInv
<1>2. call' = [call EXCEPT ![t] = Idle] /\ registry' = registry
  BY DEF Finish
<1>3. /\ call' \in [Threads -> CallSet] /\ \A u \in Threads : u # t => call'[u] = call[u]
      /\ call'[t] = Idle
  BY <1>2, IdleType DEF TypeInv
<1>4. ASSUME c.op = "map"
      PROVE  rdds' \in Seq(RddSet) /\ jrdds' \in Seq(JrddSet) /\ Effect /\ SameJrdds
  <2>1. rdds' = Append(rdds, Stage(c.r, c.f[1], FALSE)) /\ jrdds' = jrdds
    BY <1>4 DEF Finish, Marking
  <2>2. c.f[1] \in Fns
    <3>1. c.f \in Seq(Fns) /\ Len(c.f) = 1
      BY <1>1, <1>4 DEF CallSet, CallOK
    <3> QED BY <3>1
  <2>3. Staged(c.r, c.f[1], FALSE)
    BY <1>1, <2>1 DEF Staged
  <2>4. rdds' \in Seq(RddSet) /\ jrdds' \in Seq(JrddSet)
    BY <1>1, <2>1, <2>2, <2>3, StageUpdate DEF TypeInv
  <2>5. Effect
    BY <1>1, <2>2, <2>3 DEF Effect
  <2>6. SameJrdds
    BY <2>1 DEF SameJrdds
  <2> QED BY <2>4, <2>5, <2>6
<1>5. ASSUME c.op # "map"
      PROVE  rdds' \in Seq(RddSet) /\ jrdds' \in Seq(JrddSet) /\ Effect /\ SameJrdds
  <2>1. rdds' = rdds
    BY <1>5 DEF Finish
  <2>2. jrdds \in Seq(JrddSet) /\ j \in 1..Len(jrdds) /\ jrdds[j] \in JrddSet
    <3>1. jrdds \in Seq(JrddSet) /\ Len(jrdds) \in Nat
      BY SeqFacts DEF TypeInv
    <3>2. j \in 1..Len(jrdds)
      BY <1>1, <3>1 DEF ShapeInv
    <3> QED BY <3>1, <3>2, SeqFacts
  <2>3. jrdds' \in Seq(JrddSet) /\ SameJrdds
    <3>1. CASE jrdds' = jrdds
      BY <2>2, <3>1 DEF SameJrdds
    <3>2. CASE jrdds' # jrdds
      <4>1. PICK b \in BOOLEAN : jrdds' = [jrdds EXCEPT ![j].persisted = b]
        BY <3>2 DEF Finish, Marking
      <4> HIDE DEF j
      <4>2. [jrdds[j] EXCEPT !.persisted = b] \in JrddSet
        BY <2>2 DEF JrddSet
      <4>3. jrdds' \in Seq(JrddSet) /\ Len(jrdds') = Len(jrdds)
        BY <2>2, <4>1, <4>2, SeqFacts
      <4>4. /\ \A i \in 1..Len(jrdds) : i # j => jrdds'[i] = jrdds[i]
            /\ jrdds'[j] = [jrdds[j] EXCEPT !.persisted = b]
        BY <2>2, <4>1
      <4> QED BY <2>2, <4>3, <4>4 DEF SameJrdds, JrddSet
    <3> QED BY <3>1, <3>2
  <2> QED BY <2>1, <2>3 DEF Effect, SameRdds, TypeInv
<1>6. TypeInv' /\ Effect /\ SameJrdds
  BY <1>2, <1>3, <1>4, <1>5 DEF TypeInv
<1>7. CallInv'
  <2>1. Grows
    BY <1>6, EffectGrows
  <2>2. CallOK(t)'
    BY <1>3, IdleType DEF CallOK
  <2> QED BY <1>3, <2>1, <2>2, OtherCalls DEF CallInv
<1> QED BY <1>6, <1>7

LEMMA StepEffect ==
    ASSUME FlagsOK, Base, [Next]_vars PROVE TypeInv' /\ CallInv' /\ Effect
<1>1. CASE UNCHANGED vars
  BY <1>1 DEF vars, Base, TypeInv, CallInv, CallOK, Effect, SameRdds, SameJrdds
<1>2. ASSUME NEW t \in Threads, Begin(t) PROVE TypeInv' /\ CallInv' /\ Effect
  BY <1>2, BeginStep
<1>3. ASSUME NEW t \in Threads, Step(t) PROVE TypeInv' /\ CallInv' /\ Effect
  <2>1. CASE Dumps(t) \/ DumpsRaises(t) \/ ListVars(t) \/ Clear(t) \/ Refused(t)
    BY <2>1, WalkStep DEF Effect, SameRdds, SameJrdds
  <2>2. CASE Make(t)
    BY <2>2, MakeStep DEF Effect
  <2>3. CASE Finish(t)
    BY <2>3, FinishStep
  <2> QED BY <1>3, <2>1, <2>2, <2>3 DEF Step
<1> QED BY <1>1, <1>2, <1>3 DEF Next

LEMMA ShapeStep == ASSUME FlagsOK, Base, Effect PROVE ShapeInv'
<1> USE DEF Base
<1>1. Len(rdds) \in Nat /\ Len(jrdds) \in Nat
  BY SeqFacts DEF TypeInv
<1>2. CASE SameRdds /\ SameJrdds
  BY <1>2 DEF SameRdds, SameJrdds, ShapeInv
<1>3. ASSUME NEW r \in 1..Len(rdds), NEW f \in Fns, NEW fused \in BOOLEAN,
             Staged(r, f, fused)
      PROVE  ShapeInv'
  <2>1. /\ Len(rdds') = Len(rdds) + 1 /\ rdds'[Len(rdds) + 1] = Stage(r, f, fused)
        /\ \A i \in 1..Len(rdds) : rdds'[i] = rdds[i]
    BY <1>3, StageUpdate
  <2>2. jrdds' = jrdds
    BY <1>3 DEF Staged
  <2>3. /\ rdds'[Len(rdds) + 1].prev \in 0..Len(rdds)
        /\ rdds'[Len(rdds) + 1].base \in 0..Len(jrdds)
        /\ rdds'[Len(rdds) + 1].jrdd \in 0..Len(jrdds)
    <3>1. /\ Stage(r, f, fused).prev = r /\ Stage(r, f, fused).jrdd = 0
          /\ Stage(r, f, fused).base = (IF fused THEN rdds[r].base ELSE rdds[r].jrdd)
      BY DEF Stage
    <3>2. rdds[r].base \in 0..Len(jrdds) /\ rdds[r].jrdd \in 0..Len(jrdds)
      BY DEF ShapeInv
    <3> QED BY <1>1, <2>1, <3>1, <3>2
  <2>4. \A i \in 1..(Len(rdds) + 1) : i \in 1..Len(rdds) \/ i = Len(rdds) + 1
    BY <1>1
  <2>5. (Len(rdds) + 1) - 1 = Len(rdds)
    BY <1>1
  <2> QED BY <2>1, <2>2, <2>3, <2>4, <2>5 DEF ShapeInv
<1>4. ASSUME NEW r \in 1..Len(rdds), NEW bvars \in SUBSET Vars, Made(r, bvars)
      PROVE  ShapeInv'
  <2>1. /\ Len(rdds') = Len(rdds)
        /\ \A i \in 1..Len(rdds) :
             /\ rdds'[i].prev = rdds[i].prev /\ rdds'[i].base = rdds[i].base
             /\ rdds'[i].jrdd = IF i = r THEN Len(jrdds) + 1 ELSE rdds[i].jrdd
        /\ Len(jrdds') = Len(jrdds) + 1 /\ jrdds'[Len(jrdds) + 1] = Command(r, bvars)
        /\ \A i \in 1..Len(jrdds) : jrdds'[i] = jrdds[i]
    BY <1>4, MakeUpdate
  <2>2. jrdds'[Len(jrdds) + 1].parent \in 0..Len(jrdds)
    BY <2>1 DEF Command, ShapeInv
  <2>3. \A i \in 1..(Len(jrdds) + 1) : i \in 1..Len(jrdds) \/ i = Len(jrdds) + 1
    BY <1>1
  <2>4. (Len(jrdds) + 1) - 1 = Len(jrdds)
    BY <1>1
  <2>5. \A i \in 1..Len(jrdds') : jrdds'[i].parent \in 0..(i - 1)
    BY <2>1, <2>2, <2>3, <2>4 DEF ShapeInv
  <2>6. \A i \in 1..Len(rdds) : /\ rdds'[i].prev \in 0..(i - 1)
                                /\ rdds'[i].base \in 0..(Len(jrdds) + 1)
                                /\ rdds'[i].jrdd \in 0..(Len(jrdds) + 1)
    BY <1>1, <2>1 DEF ShapeInv
  <2> QED BY <2>1, <2>5, <2>6 DEF ShapeInv
<1> QED BY <1>2, <1>3, <1>4 DEF Effect

LEMMA StepBase == ASSUME FlagsOK, Base, [Next]_vars PROVE Base' /\ Effect
BY StepEffect, ShapeStep DEF Base

-----------------------------------------------------------------------------
(* The paths, now and after a step.                                        *)
Lin == Along(Prevs, [i \in 1..Len(rdds) |-> rdds[i].fns])
Com == Along(Parents, [i \in 1..Len(jrdds) |-> jrdds[i].func])
Fits(r) == /\ Com[rdds[r].base] \o rdds[r].func = Lin[r]
           /\ rdds[r].jrdd # 0 => Com[rdds[r].jrdd] = Lin[r]
LineInv == \A r \in 1..Len(rdds) : Fits(r)

LEMMA LineageFacts ==
    ASSUME TypeInv, ShapeInv
    PROVE  /\ Lin[0] = <<>>
           /\ \A r \in 0..Len(rdds) : Lin[r] \in Seq(Fns)
           /\ \A r \in 1..Len(rdds) : Lin[r] = Lin[rdds[r].prev] \o rdds[r].fns
<1> DEFINE piece == [i \in 1..Len(rdds) |-> rdds[i].fns]
<1>1. /\ Len(rdds) \in Nat /\ Len(piece) = Len(rdds)
      /\ \A i \in 1..Len(rdds) : piece[i] = rdds[i].fns /\ Prevs[i] = rdds[i].prev
                                /\ piece[i] \in Seq(Fns)
  <2>1. Len(rdds) \in Nat /\ \A i \in 1..Len(rdds) : rdds[i] \in RddSet
    BY SeqFacts DEF TypeInv
  <2>2. \A i \in 1..Len(rdds) : rdds[i].fns \in Seq(Fns)
    BY <2>1 DEF RddSet
  <2> QED BY <2>1, <2>2 DEF Prevs
<1>2. Ordered(Prevs, Len(piece))
  BY <1>1 DEF ShapeInv, Ordered
<1>3. Lin = Along(Prevs, piece)
  BY DEF Lin
<1> HIDE DEF piece
<1>4. /\ Along(Prevs, piece)[0] = <<>>
      /\ \A i \in 1..Len(piece) : Along(Prevs, piece)[i] = Along(Prevs, piece)[Prevs[i]] \o piece[i]
  BY <1>1, <1>2, AlongStep
<1>5. \A i \in 0..Len(piece) : Along(Prevs, piece)[i] \in Seq(Fns)
  BY <1>1, <1>2, AlongType
<1> QED BY <1>1, <1>3, <1>4, <1>5

LEMMA ComputedFacts ==
    ASSUME TypeInv, ShapeInv
    PROVE  /\ Com[0] = <<>>
           /\ \A j \in 0..Len(jrdds) : Com[j] \in Seq(Fns)
           /\ \A j \in 1..Len(jrdds) :
                Com[j] = Com[jrdds[j].parent] \o jrdds[j].func
<1> DEFINE piece == [i \in 1..Len(jrdds) |-> jrdds[i].func]
<1>1. /\ Len(jrdds) \in Nat /\ Len(piece) = Len(jrdds)
      /\ \A i \in 1..Len(jrdds) : piece[i] = jrdds[i].func /\ Parents[i] = jrdds[i].parent
                                 /\ piece[i] \in Seq(Fns)
  <2>1. Len(jrdds) \in Nat /\ \A i \in 1..Len(jrdds) : jrdds[i] \in JrddSet
    BY SeqFacts DEF TypeInv
  <2>2. \A i \in 1..Len(jrdds) : jrdds[i].func \in Seq(Fns)
    BY <2>1 DEF JrddSet
  <2> QED BY <2>1, <2>2 DEF Parents
<1>2. Ordered(Parents, Len(piece))
  BY <1>1 DEF ShapeInv, Ordered
<1>3. Com = Along(Parents, piece)
  BY DEF Com
<1> HIDE DEF piece
<1>4. /\ Along(Parents, piece)[0] = <<>>
      /\ \A i \in 1..Len(piece) :
           Along(Parents, piece)[i] = Along(Parents, piece)[Parents[i]] \o piece[i]
  BY <1>1, <1>2, AlongStep
<1>5. \A i \in 0..Len(piece) : Along(Parents, piece)[i] \in Seq(Fns)
  BY <1>1, <1>2, AlongType
<1> QED BY <1>1, <1>3, <1>4, <1>5

LEMMA LineageSame ==
    ASSUME Base, Base', Len(rdds) <= Len(rdds'),
           \A i \in 1..Len(rdds) : rdds'[i].prev = rdds[i].prev /\ rdds'[i].fns = rdds[i].fns
    PROVE  /\ \A r \in 0..Len(rdds) : Lin'[r] = Lin[r]
           /\ \A r \in 1..Len(rdds') : Lin'[r] = Lin'[rdds'[r].prev] \o rdds'[r].fns
<1> DEFINE piece == [i \in 1..Len(rdds) |-> rdds[i].fns]
           piece2 == [i \in 1..Len(rdds') |-> rdds'[i].fns]
           parent2 == [i \in 1..Len(rdds') |-> rdds'[i].prev]
<1>1. /\ Len(rdds) \in Nat /\ Len(piece) = Len(rdds)
      /\ \A i \in 1..Len(rdds) : piece[i] = rdds[i].fns /\ Prevs[i] = rdds[i].prev
  BY SeqFacts DEF Base, TypeInv, Prevs
<1>2. /\ Len(rdds') \in Nat /\ Len(piece2) = Len(rdds')
      /\ \A i \in 1..Len(rdds') : piece2[i] = rdds'[i].fns /\ parent2[i] = rdds'[i].prev
  BY SeqFacts DEF Base, TypeInv
<1>3. Ordered(Prevs, Len(piece)) /\ Ordered(parent2, Len(piece2))
  BY <1>1, <1>2 DEF Base, ShapeInv, Ordered
<1>4. Lin = Along(Prevs, piece)
  BY DEF Lin
<1>5. Lin' = Along(parent2, piece2)
  BY DEF Lin, Prevs
<1> HIDE DEF piece, piece2, parent2
<1>6. \A i \in 0..Len(piece) : Along(parent2, piece2)[i] = Along(Prevs, piece)[i]
  <2>1. \A i \in 1..Len(piece) : parent2[i] = Prevs[i] /\ piece2[i] = piece[i]
    BY <1>1, <1>2
  <2> QED BY <1>1, <1>2, <1>3, <2>1, AlongSame
<1>7. \A i \in 1..Len(piece2) :
        Along(parent2, piece2)[i] = Along(parent2, piece2)[parent2[i]] \o piece2[i]
  <2>1. Len(piece2) \in Nat
    BY <1>2
  <2> QED BY <1>3, <2>1, AlongStep, Zenon
<1>8. \A r \in 0..Len(rdds) : Lin'[r] = Lin[r]
  BY <1>1, <1>4, <1>5, <1>6
<1>9. ASSUME NEW r \in 1..Len(rdds')
      PROVE  Lin'[r] = Lin'[rdds'[r].prev] \o rdds'[r].fns
  BY <1>2, <1>5, <1>7
<1> QED BY <1>8, <1>9

LEMMA ComputedSame ==
    ASSUME Base, Base', Len(jrdds) <= Len(jrdds'),
           \A i \in 1..Len(jrdds) : /\ jrdds'[i].parent = jrdds[i].parent
                                    /\ jrdds'[i].func = jrdds[i].func
    PROVE  /\ \A j \in 0..Len(jrdds) : Com'[j] = Com[j]
           /\ \A j \in 1..Len(jrdds') :
                Com'[j] = Com'[jrdds'[j].parent] \o jrdds'[j].func
<1> DEFINE piece == [i \in 1..Len(jrdds) |-> jrdds[i].func]
           piece2 == [i \in 1..Len(jrdds') |-> jrdds'[i].func]
           parent2 == [i \in 1..Len(jrdds') |-> jrdds'[i].parent]
<1>1. /\ Len(jrdds) \in Nat /\ Len(piece) = Len(jrdds)
      /\ \A i \in 1..Len(jrdds) : piece[i] = jrdds[i].func /\ Parents[i] = jrdds[i].parent
  BY SeqFacts DEF Base, TypeInv, Parents
<1>2. /\ Len(jrdds') \in Nat /\ Len(piece2) = Len(jrdds')
      /\ \A i \in 1..Len(jrdds') : piece2[i] = jrdds'[i].func /\ parent2[i] = jrdds'[i].parent
  BY SeqFacts DEF Base, TypeInv
<1>3. Ordered(Parents, Len(piece)) /\ Ordered(parent2, Len(piece2))
  BY <1>1, <1>2 DEF Base, ShapeInv, Ordered
<1>4. Com = Along(Parents, piece)
  BY DEF Com
<1>5. Com' = Along(parent2, piece2)
  BY DEF Com, Parents
<1> HIDE DEF piece, piece2, parent2
<1>6. \A i \in 0..Len(piece) : Along(parent2, piece2)[i] = Along(Parents, piece)[i]
  <2>1. \A i \in 1..Len(piece) : parent2[i] = Parents[i] /\ piece2[i] = piece[i]
    BY <1>1, <1>2
  <2> QED BY <1>1, <1>2, <1>3, <2>1, AlongSame
<1>7. \A i \in 1..Len(piece2) :
        Along(parent2, piece2)[i] = Along(parent2, piece2)[parent2[i]] \o piece2[i]
  <2>1. Len(piece2) \in Nat
    BY <1>2
  <2> QED BY <1>3, <2>1, AlongStep, Zenon
<1>8. \A j \in 0..Len(jrdds) : Com'[j] = Com[j]
  BY <1>1, <1>4, <1>5, <1>6
<1>9. ASSUME NEW j \in 1..Len(jrdds')
      PROVE  Com'[j] = Com'[jrdds'[j].parent] \o jrdds'[j].func
  BY <1>2, <1>5, <1>7
<1> QED BY <1>8, <1>9

LEMMA AppendConcat ==
    ASSUME NEW S, NEW s \in Seq(S), NEW t \in Seq(S), NEW x \in S
    PROVE  s \o Append(t, x) = (s \o t) \o <<x>>
OBVIOUS

LEMMA FitsKept ==
    ASSUME NEW i, Fits(i), rdds'[i].func = rdds[i].func, Lin'[i] = Lin[i],
           NEW b, rdds[i].base = b, rdds'[i].base = b, Com'[b] = Com[b],
           NEW j, rdds[i].jrdd = j, rdds'[i].jrdd = j, Com'[j] = Com[j]
    PROVE  Fits(i)'
BY Zenon DEF Fits

LEMMA LineStep == ASSUME FlagsOK, Base, LineInv, Base', Effect PROVE LineInv'
<1>1. Len(rdds) \in Nat /\ Len(jrdds) \in Nat
  BY SeqFacts DEF Base, TypeInv
<1>2. \A r \in 1..Len(rdds) : rdds[r].base \in 0..Len(jrdds) /\ rdds[r].jrdd \in 0..Len(jrdds)
  BY DEF Base, ShapeInv
<1>3. CASE SameRdds /\ SameJrdds
  <2>1. /\ Len(rdds) <= Len(rdds')
        /\ \A i \in 1..Len(rdds) : rdds'[i].prev = rdds[i].prev /\ rdds'[i].fns = rdds[i].fns
    BY <1>1, <1>3 DEF SameRdds
  <2>2. \A i \in 0..Len(rdds) : Lin'[i] = Lin[i]
    BY <2>1, LineageSame
  <2>3. /\ Len(jrdds) <= Len(jrdds')
        /\ \A i \in 1..Len(jrdds) : /\ jrdds'[i].parent = jrdds[i].parent
                                    /\ jrdds'[i].func = jrdds[i].func
    BY <1>1, <1>3 DEF SameJrdds
  <2>4. \A j \in 0..Len(jrdds) : Com'[j] = Com[j]
    BY <2>3, ComputedSame
  <2>5. ASSUME NEW i \in 1..Len(rdds) PROVE Fits(i)'
    <3>1. /\ rdds'[i].base = rdds[i].base /\ rdds'[i].func = rdds[i].func
          /\ rdds'[i].jrdd = rdds[i].jrdd
      BY <1>3 DEF SameRdds
    <3>2. Fits(i)
      BY DEF LineInv
    <3>3. Lin'[i] = Lin[i]
      BY <1>1, <2>2
    <3>4. Com'[rdds[i].base] = Com[rdds[i].base] /\ Com'[rdds[i].jrdd] = Com[rdds[i].jrdd]
      BY <1>2, <2>4
    <3> QED BY <3>1, <3>2, <3>3, <3>4, FitsKept
  <2> QED BY <1>3, <2>5 DEF LineInv, SameRdds
<1>4. ASSUME NEW r \in 1..Len(rdds), NEW f \in Fns, NEW fused \in BOOLEAN,
             Staged(r, f, fused)
      PROVE  LineInv'
  <2> PICK n \in Nat : n = Len(rdds) + 1
    BY <1>1
  <2>1. /\ Len(rdds') = n /\ rdds'[n] = Stage(r, f, fused)
        /\ \A i \in 1..Len(rdds) : rdds'[i] = rdds[i]
    BY <1>4, StageUpdate DEF Base
  <2>2. jrdds' = jrdds
    BY <1>4 DEF Staged
  <2>3. /\ Len(rdds) <= Len(rdds') /\ n \in 1..Len(rdds')
        /\ \A i \in 1..Len(rdds) : rdds'[i].prev = rdds[i].prev /\ rdds'[i].fns = rdds[i].fns
    BY <1>1, <2>1
  <2>4. /\ \A i \in 0..Len(rdds) : Lin'[i] = Lin[i]
        /\ \A i \in 1..Len(rdds') : Lin'[i] = Lin'[rdds'[i].prev] \o rdds'[i].fns
    BY <2>3, LineageSame
  <2>5. \A j \in 0..Len(jrdds) : Com'[j] = Com[j]
    <3>1. Len(jrdds) <= Len(jrdds')
      BY <1>1, <2>2
    <3> QED BY <2>2, <3>1, ComputedSame
  <2>6. ASSUME NEW i \in 1..Len(rdds) PROVE Fits(i)'
    <3>1. Fits(i)
      BY DEF LineInv
    <3>2. rdds'[i] = rdds[i]
      BY <2>1
    <3>3. Lin'[i] = Lin[i]
      BY <1>1, <2>4
    <3>4. Com'[rdds[i].base] = Com[rdds[i].base] /\ Com'[rdds[i].jrdd] = Com[rdds[i].jrdd]
      BY <1>2, <2>5
    <3> QED BY <3>1, <3>2, <3>3, <3>4, FitsKept
  <2>7. Fits(n)'
    <3>1. /\ rdds'[n].prev = r /\ rdds'[n].fns = <<f>> /\ rdds'[n].jrdd = 0
          /\ rdds'[n].func = (IF fused THEN Append(rdds[r].func, f) ELSE <<f>>)
          /\ rdds'[n].base = (IF fused THEN rdds[r].base ELSE rdds[r].jrdd)
      BY <2>1 DEF Stage, FusedFunc
    <3>2. Lin'[r] = Lin[r]
      BY <1>1, <2>4
    <3>3. Lin'[n] = Lin[r] \o <<f>>
      <4>1. Lin'[n] = Lin'[rdds'[n].prev] \o rdds'[n].fns
        BY <2>3, <2>4, Zenon
      <4> QED BY <3>1, <3>2, <4>1, Zenon
    <3>4. Fits(r) /\ rdds[r].func \in Seq(Fns)
      <4>1. rdds[r] \in RddSet
        BY SeqFacts DEF Base, TypeInv
      <4> QED BY <4>1 DEF LineInv, RddSet
    <3>5. CASE fused
      <4> DEFINE c == Com[rdds[r].base]
      <4>1. c \in Seq(Fns) /\ Com'[rdds[r].base] = c
        BY <1>2, <2>5, ComputedFacts DEF Base
      <4>2. c \o rdds[r].func = Lin[r]
        BY <3>4, Zenon DEF Fits
      <4>3. c \o Append(rdds[r].func, f) = (c \o rdds[r].func) \o <<f>>
        <5> HIDE DEF c
        <5> QED BY <3>4, <4>1, AppendConcat
      <4>4. rdds'[n].func = Append(rdds[r].func, f) /\ rdds'[n].base = rdds[r].base
        BY <3>1, <3>5
      <4> QED BY <3>1, <3>3, <4>1, <4>2, <4>3, <4>4, Zenon DEF Fits
    <3>6. CASE ~ fused
      <4>1. rdds[r].jrdd # 0
        BY <1>4, <3>6 DEF Staged
      <4>2. Com[rdds[r].jrdd] = Lin[r] /\ Com'[rdds[r].jrdd] = Com[rdds[r].jrdd]
        BY <1>2, <2>5, <3>4, <4>1 DEF Fits
      <4>3. rdds'[n].func = <<f>> /\ rdds'[n].base = rdds[r].jrdd
        BY <3>1, <3>6
      <4> QED BY <3>1, <3>3, <4>2, <4>3, Zenon DEF Fits
    <3> QED BY <3>5, <3>6
  <2>8. \A i \in 1..n : i \in 1..Len(rdds) \/ i = n
    BY <1>1
  <2> QED BY <2>1, <2>6, <2>7, <2>8 DEF LineInv
<1>5. ASSUME NEW r \in 1..Len(rdds), NEW bvars \in SUBSET Vars, Made(r, bvars)
      PROVE  LineInv'
  <2> DEFINE n == Len(jrdds) + 1
  <2>1. /\ Len(rdds') = Len(rdds)
        /\ \A i \in 1..Len(rdds) :
             /\ rdds'[i].prev = rdds[i].prev /\ rdds'[i].fns = rdds[i].fns
             /\ rdds'[i].func = rdds[i].func /\ rdds'[i].base = rdds[i].base
             /\ rdds'[i].jrdd = IF i = r THEN n ELSE rdds[i].jrdd
        /\ Len(jrdds') = n /\ jrdds'[n] = Command(r, bvars)
        /\ \A i \in 1..Len(jrdds) : jrdds'[i] = jrdds[i]
    BY <1>5, MakeUpdate DEF Base
  <2>2. Len(rdds) <= Len(rdds') /\ Len(jrdds) <= Len(jrdds') /\ n \in 1..Len(jrdds')
    BY <1>1, <2>1
  <2> HIDE DEF n
  <2>3. \A i \in 0..Len(rdds) : Lin'[i] = Lin[i]
    BY <2>1, <2>2, LineageSame
  <2>4. /\ \A j \in 0..Len(jrdds) : Com'[j] = Com[j]
        /\ \A j \in 1..Len(jrdds') : Com'[j] = Com'[jrdds'[j].parent] \o jrdds'[j].func
    <3>1. \A i \in 1..Len(jrdds) : /\ jrdds'[i].parent = jrdds[i].parent
                                  /\ jrdds'[i].func = jrdds[i].func
      BY <2>1
    <3> QED BY <2>2, <3>1, ComputedSame
  <2>5. \A i \in 1..Len(rdds) : /\ Com'[rdds[i].base] = Com[rdds[i].base]
                                /\ Com'[rdds[i].jrdd] = Com[rdds[i].jrdd]
    BY <1>2, <2>4
  <2>6. Com'[n] = Lin[r]
    <3>1. Com'[n] = Com'[jrdds'[n].parent] \o jrdds'[n].func
      BY <2>2, <2>4, Zenon
    <3>2. jrdds'[n].parent = rdds[r].base /\ jrdds'[n].func = rdds[r].func
      BY <2>1 DEF Command
    <3>3. Fits(r)
      BY DEF LineInv
    <3> QED BY <2>5, <3>1, <3>2, <3>3, Zenon DEF Fits
  <2>7. ASSUME NEW i \in 1..Len(rdds) PROVE Fits(i)'
    <3>1. Fits(i) /\ Lin'[i] = Lin[i]
      BY <1>1, <2>3 DEF LineInv
    <3>2. rdds'[i].func = rdds[i].func /\ rdds'[i].base = rdds[i].base
      BY <2>1
    <3>3. CASE i = r
      <4>1. rdds'[i].jrdd = n
        BY <2>1, <3>3
      <4> QED BY <2>5, <2>6, <3>1, <3>2, <3>3, <4>1, Zenon DEF Fits
    <3>4. CASE i # r
      <4>1. rdds'[i].jrdd = rdds[i].jrdd
        BY <2>1, <3>4
      <4> QED BY <2>5, <3>1, <3>2, <4>1, FitsKept
    <3> QED BY <3>3, <3>4
  <2> QED BY <2>1, <2>7 DEF LineInv
<1> QED BY <1>3, <1>4, <1>5 DEF Effect

LEMMA InitLine == ASSUME Init PROVE LineInv
<1>1. Base
  BY InitBase
<1>2. Len(rdds) = 1 /\ Len(jrdds) = 1 /\ rdds[1] = Root /\ jrdds[1] = JRoot
  BY DEF Init
<1>3. Lin[0] = <<>> /\ Com[0] = <<>>
  BY <1>1, LineageFacts, ComputedFacts DEF Base
<1>4. 1 \in 1..Len(rdds) /\ 1 \in 1..Len(jrdds) /\ rdds[1].prev = 0 /\ rdds[1].fns = <<>>
      /\ jrdds[1].parent = 0 /\ jrdds[1].func = <<>>
  BY <1>2 DEF Root, JRoot
<1>5. Lin[1] = Lin[0] \o <<>> /\ Com[1] = Com[0] \o <<>>
  <2>1. \A r \in 1..Len(rdds) : Lin[r] = Lin[rdds[r].prev] \o rdds[r].fns
    BY <1>1, LineageFacts DEF Base
  <2>2. \A j \in 1..Len(jrdds) : Com[j] = Com[jrdds[j].parent] \o jrdds[j].func
    BY <1>1, ComputedFacts DEF Base
  <2> QED BY <1>4, <2>1, <2>2, Zenon
<1>6. <<>> \o <<>> = <<>>
  OBVIOUS
<1>7. rdds[1].base = 0 /\ rdds[1].func = <<>> /\ rdds[1].jrdd = 1
  BY <1>2 DEF Root
<1>8. Fits(1)
  BY <1>3, <1>5, <1>6, <1>7, Zenon DEF Fits
<1>9. \A i \in 1..Len(rdds) : i = 1
  BY <1>2
<1> QED BY <1>8, <1>9 DEF LineInv

(* rdd.py, for any number of threads that share the RDDs: whatever is      *)
(* cached, checkpointed or unpersisted in between, and when, fusing the    *)
(* functions (PipelinedRDD.__init__) loses, repeats and reorders none of   *)
(* them: the JVM computes the lineage the program asked for.               *)
THEOREM LineageSafe == ASSUME FlagsOK PROVE Spec => []LineageKept
<1>1. Init => Base /\ LineInv
  BY InitBase, InitLine
<1>2. Base /\ LineInv /\ [Next]_vars => Base' /\ LineInv'
  BY StepBase, LineStep
<1>3. LineInv => LineageKept
  BY DEF LineInv, Fits, LineageKept, Lineage, Computed, Lin, Com
<1> QED BY <1>1, <1>2, <1>3, PTL DEF Spec

-----------------------------------------------------------------------------
(* The flag of a command says that all its functions keep the partitioning.*)
KeptBy(func) == \A i \in 1..Len(func) : Keeps(func[i])
AllTrue(flags) == \A i \in 1..Len(flags) : flags[i]
KeepInv == /\ \A r \in 1..Len(rdds) : rdds[r].keeps => KeptBy(rdds[r].func)
           /\ \A j \in 1..Len(jrdds) : jrdds[j].keeps => KeptBy(jrdds[j].func)
Flg == Along(Parents, [i \in 1..Len(jrdds) |-> <<jrdds[i].keeps>>])

LEMMA KeptFacts ==
    ASSUME NEW s \in Seq(Fns), KeptBy(s)
    PROVE  /\ \A f \in Fns : Keeps(f) => KeptBy(Append(s, f)) /\ KeptBy(<<f>>)
           /\ \A t \in Seq(Fns) : KeptBy(t) => KeptBy(s \o t)
<1>1. ASSUME NEW f \in Fns, Keeps(f) PROVE KeptBy(Append(s, f)) /\ KeptBy(<<f>>)
  BY <1>1 DEF KeptBy
<1>2. ASSUME NEW t \in Seq(Fns), KeptBy(t) PROVE KeptBy(s \o t)
  <2> SUFFICES ASSUME NEW i \in 1..Len(s \o t) PROVE Keeps((s \o t)[i])
    BY DEF KeptBy
  <2>1. Len(s) \in Nat /\ Len(t) \in Nat /\ Len(s \o t) = Len(s) + Len(t)
    OBVIOUS
  <2>2. CASE i <= Len(s)
    <3>1. i \in 1..Len(s) /\ (s \o t)[i] = s[i]
      BY <2>1, <2>2
    <3> QED BY <3>1 DEF KeptBy
  <2>3. CASE i > Len(s)
    <3>1. i - Len(s) \in 1..Len(t) /\ (s \o t)[i] = t[i - Len(s)]
      BY <2>1, <2>3
    <3> QED BY <1>2, <3>1 DEF KeptBy
  <2> QED BY <2>1, <2>2, <2>3
<1> QED BY <1>1, <1>2

LEMMA TrueFacts ==
    ASSUME NEW s \in Seq(BOOLEAN), NEW b \in BOOLEAN, AllTrue(s \o <<b>>)
    PROVE  AllTrue(s) /\ b
<1>1. Len(s) \in Nat /\ Len(s \o <<b>>) = Len(s) + 1 /\ (s \o <<b>>)[Len(s) + 1] = b
      /\ \A i \in 1..Len(s) : (s \o <<b>>)[i] = s[i]
  OBVIOUS
<1>2. Len(s) + 1 \in 1..Len(s \o <<b>>) /\ \A i \in 1..Len(s) : i \in 1..Len(s \o <<b>>)
  BY <1>1
<1> QED BY <1>1, <1>2 DEF AllTrue

LEMMA FlagsFacts ==
    ASSUME Base
    PROVE  /\ \A j \in 0..Len(jrdds) : Flg[j] \in Seq(BOOLEAN)
           /\ \A j \in 1..Len(jrdds) : Flg[j] = Flg[jrdds[j].parent] \o <<jrdds[j].keeps>>
<1> DEFINE piece == [i \in 1..Len(jrdds) |-> <<jrdds[i].keeps>>]
<1>1. /\ Len(jrdds) \in Nat /\ Len(piece) = Len(jrdds)
      /\ \A i \in 1..Len(jrdds) : piece[i] = <<jrdds[i].keeps>> /\ Parents[i] = jrdds[i].parent
                                 /\ piece[i] \in Seq(BOOLEAN)
  <2>1. Len(jrdds) \in Nat /\ \A i \in 1..Len(jrdds) : jrdds[i] \in JrddSet
    BY SeqFacts DEF Base, TypeInv
  <2>2. \A i \in 1..Len(jrdds) : <<jrdds[i].keeps>> \in Seq(BOOLEAN)
    BY <2>1, OneType DEF JrddSet
  <2> QED BY <2>1, <2>2 DEF Parents
<1>2. Ordered(Parents, Len(piece))
  BY <1>1 DEF Base, ShapeInv, Ordered
<1>3. Flg = Along(Parents, piece)
  BY DEF Flg
<1> HIDE DEF piece
<1>4. \A i \in 1..Len(piece) :
        Along(Parents, piece)[i] = Along(Parents, piece)[Parents[i]] \o piece[i]
  BY <1>1, <1>2, AlongStep
<1>5. \A i \in 0..Len(piece) : Along(Parents, piece)[i] \in Seq(BOOLEAN)
  BY <1>1, <1>2, AlongType
<1> QED BY <1>1, <1>3, <1>4, <1>5

(* From the commands to the paths.                                         *)
LEMMA PathKept ==
    ASSUME Base, KeepInv
    PROVE  \A j \in 0..Len(jrdds) : AllTrue(Flg[j]) => KeptBy(Com[j])
<1> DEFINE T == {j \in 0..Len(jrdds) : AllTrue(Flg[j]) /\ ~ KeptBy(Com[j])}
<1> SUFFICES ASSUME T # {} PROVE FALSE
  OBVIOUS
<1>1. PICK m \in T : \A i \in T : m <= i
  <2>1. T \in SUBSET Nat
    OBVIOUS
  <2> HIDE DEF T
  <2> QED BY <2>1, Least
<1>2. Com[0] = <<>>
  BY ComputedFacts DEF Base
<1>3. KeptBy(<<>>)
  BY DEF KeptBy
<1>4. m \in 1..Len(jrdds)
  BY <1>2, <1>3
<1> DEFINE p == jrdds[m].parent
<1>5. p \in 0..Len(jrdds) /\ p < m
  <2>1. Len(jrdds) \in Nat
    BY SeqFacts DEF Base, TypeInv
  <2> QED BY <1>4, <2>1 DEF Base, ShapeInv
<1>6. Com[m] = Com[p] \o jrdds[m].func /\ Com[p] \in Seq(Fns) /\ jrdds[m].func \in Seq(Fns)
  <2>1. Com[m] = Com[p] \o jrdds[m].func
    BY <1>4, ComputedFacts DEF Base
  <2>2. Com[p] \in Seq(Fns)
    BY <1>5, ComputedFacts DEF Base
  <2>3. jrdds[m] \in JrddSet
    BY <1>4, SeqFacts DEF Base, TypeInv
  <2> QED BY <2>1, <2>2, <2>3 DEF JrddSet
<1>7. Flg[m] = Flg[p] \o <<jrdds[m].keeps>> /\ Flg[p] \in Seq(BOOLEAN) /\ jrdds[m].keeps \in BOOLEAN
  <2>1. Flg[m] = Flg[p] \o <<jrdds[m].keeps>>
    BY <1>4, FlagsFacts
  <2>2. Flg[p] \in Seq(BOOLEAN)
    BY <1>5, FlagsFacts
  <2>3. jrdds[m] \in JrddSet
    BY <1>4, SeqFacts DEF Base, TypeInv
  <2> QED BY <2>1, <2>2, <2>3 DEF JrddSet
<1>8. AllTrue(Flg[p] \o <<jrdds[m].keeps>>)
  <2>1. AllTrue(Flg[m])
    OBVIOUS
  <2> QED BY <1>7, <2>1
<1>9. AllTrue(Flg[p]) /\ jrdds[m].keeps
  BY <1>7, <1>8, TrueFacts
<1>10. KeptBy(Com[p])
  <2>1. p \notin T
    BY <1>1, <1>5
  <2> QED BY <1>5, <1>9, <2>1
<1>11. KeptBy(jrdds[m].func)
  BY <1>4, <1>9 DEF KeepInv
<1>12. KeptBy(Com[p] \o jrdds[m].func)
  BY <1>6, <1>10, <1>11, KeptFacts
<1>13. ~ KeptBy(Com[m])
  OBVIOUS
<1> QED BY <1>6, <1>12, <1>13

LEMMA KeepStep == ASSUME FlagsOK, Base, KeepInv, Effect PROVE KeepInv'
<1>1. Len(rdds) \in Nat /\ Len(jrdds) \in Nat
  BY SeqFacts DEF Base, TypeInv
<1>2. CASE SameRdds /\ SameJrdds
  BY <1>2 DEF SameRdds, SameJrdds, KeepInv
<1>3. ASSUME NEW r \in 1..Len(rdds), NEW f \in Fns, NEW fused \in BOOLEAN,
             Staged(r, f, fused)
      PROVE  KeepInv'
  <2> PICK n \in Nat : n = Len(rdds) + 1
    BY <1>1
  <2>1. /\ Len(rdds') = n /\ rdds'[n] = Stage(r, f, fused) /\ jrdds' = jrdds
        /\ \A i \in 1..Len(rdds) : rdds'[i] = rdds[i]
    BY <1>3, StageUpdate DEF Base, Staged
  <2>2. /\ rdds'[n].func = (IF fused THEN Append(rdds[r].func, f) ELSE <<f>>)
        /\ rdds'[n].keeps = (IF fused THEN rdds[r].keeps /\ Keeps(f) ELSE Keeps(f))
    BY <2>1 DEF Stage, FusedFunc, BothKeep
  <2>3. rdds[r].func \in Seq(Fns)
    <3>1. rdds[r] \in RddSet
      BY SeqFacts DEF Base, TypeInv
    <3> QED BY <3>1 DEF RddSet
  <2>4. rdds'[n].keeps => KeptBy(rdds'[n].func)
    <3>1. CASE fused
      <4>1. rdds[r].keeps /\ Keeps(f) => KeptBy(Append(rdds[r].func, f))
        BY <2>3, KeptFacts DEF KeepInv
      <4> QED BY <2>2, <3>1, <4>1
    <3>2. CASE ~ fused
      <4>1. <<>> \in Seq(Fns) /\ KeptBy(<<>>)
        BY EmptyType DEF KeptBy
      <4>2. Keeps(f) => KeptBy(<<f>>)
        BY <4>1, KeptFacts
      <4> QED BY <2>2, <3>2, <4>2
    <3> QED BY <3>1, <3>2
  <2>5. \A i \in 1..n : i \in 1..Len(rdds) \/ i = n
    BY <1>1
  <2> QED BY <2>1, <2>4, <2>5 DEF KeepInv
<1>4. ASSUME NEW r \in 1..Len(rdds), NEW bvars \in SUBSET Vars, Made(r, bvars)
      PROVE  KeepInv'
  <2> PICK n \in Nat : n = Len(jrdds) + 1
    BY <1>1
  <2>1. /\ Len(rdds') = Len(rdds)
        /\ \A i \in 1..Len(rdds) : rdds'[i].func = rdds[i].func /\ rdds'[i].keeps = rdds[i].keeps
        /\ Len(jrdds') = n /\ jrdds'[n] = Command(r, bvars)
        /\ \A i \in 1..Len(jrdds) : jrdds'[i] = jrdds[i]
    BY <1>4, MakeUpdate DEF Base
  <2>2. jrdds'[n].func = rdds[r].func /\ jrdds'[n].keeps = rdds[r].keeps
    BY <2>1 DEF Command
  <2>3. \A i \in 1..n : i \in 1..Len(jrdds) \/ i = n
    BY <1>1
  <2> QED BY <2>1, <2>2, <2>3 DEF KeepInv
<1> QED BY <1>2, <1>3, <1>4 DEF Effect

(* rdd.py, for any number of threads: when every command on the way from   *)
(* the root is flagged as keeping the partitioning (the JVM then takes     *)
(* the RDD as partitioned like its root), every function of the lineage    *)
(* was passed with preservesPartitioning.                                  *)
THEOREM PartitioningKept == ASSUME FlagsOK PROVE Spec => []PartitioningSound
<1>1. Init => Base /\ LineInv /\ KeepInv
  <2>1. ASSUME Init PROVE KeepInv
    <3>1. Len(rdds) = 1 /\ Len(jrdds) = 1 /\ rdds[1] = Root /\ jrdds[1] = JRoot
      BY <2>1 DEF Init
    <3>2. \A i \in 1..1 : i = 1
      OBVIOUS
    <3>3. KeptBy(<<>>)
      BY DEF KeptBy
    <3> QED BY <3>1, <3>2, <3>3 DEF KeepInv, Root, JRoot
  <2> QED BY <2>1, InitBase, InitLine
<1>2. Base /\ LineInv /\ KeepInv /\ [Next]_vars => Base' /\ LineInv' /\ KeepInv'
  BY StepBase, LineStep, KeepStep
<1>3. ASSUME Base, LineInv, KeepInv PROVE PartitioningSound
  <2> SUFFICES ASSUME NEW r \in 1..Len(rdds), rdds[r].jrdd # 0, AllTrue(Flg[rdds[r].jrdd])
               PROVE  KeptBy(Lin[r])
    BY DEF PartitioningSound, AllKeep, Flags, Flg, Lineage, Lin, AllTrue, KeptBy
  <2>1. rdds[r].jrdd \in 0..Len(jrdds)
    BY <1>3 DEF Base, ShapeInv
  <2>2. Com[rdds[r].jrdd] = Lin[r]
    BY <1>3 DEF LineInv, Fits
  <2> QED BY <1>3, <2>1, <2>2, PathKept
<1> QED BY <1>1, <1>2, <1>3, PTL DEF Spec

-----------------------------------------------------------------------------
(* The number of threads does not change: one from the start or never.     *)
Alone == \E t \in Threads : Threads = {t}

LEMMA ThreadsStay == ASSUME TypeInv PROVE DOMAIN call = Threads /\ (OneThread <=> Alone)
<1>1. DOMAIN call = Threads
  BY DEF TypeInv
<1> QED BY <1>1 DEF OneThread, Alone

(* The broadcast variables of a command, from the moment it is pickled.    *)
Sent(t) == /\ call[t].pc = "list" => UsedBy(FuncOf(t)) \subseteq registry
           /\ call[t].pc \in {"clear", "make"} => UsedBy(FuncOf(t)) \subseteq call[t].bvars
AllSent == \A j \in 1..Len(jrdds) : UsedBy(jrdds[j].func) \subseteq jrdds[j].bvars
SentInv == AllSent /\ \A t \in Threads : Sent(t)

(* A step that leaves the commands in the JVM as they are.                 *)
LEMMA SentSame == ASSUME AllSent, SameJrdds PROVE AllSent'
BY DEF AllSent, SameJrdds

LEMMA SentStep ==
    ASSUME FlagsOK, Alone, Base, SentInv, Base', Next PROVE SentInv'
<1> PICK t \in Threads : Begin(t) \/ Step(t)
  BY DEF Next
<1>1. ASSUME Sent(t)' PROVE \A u \in Threads : Sent(u)'
  BY <1>1 DEF Alone
<1>2. call[t] \in CallSet /\ CallOK(t) /\ Sent(t) /\ call \in [Threads -> CallSet]
  BY DEF Base, TypeInv, CallInv, SentInv
<1>3. CASE Begin(t)
  <2>1. jrdds' = jrdds /\ call[t] = Idle
    BY <1>3 DEF Begin, map, persist, unpersist, checkpoint, job
  <2>2. call'[t].pc \in {"idle", "finish", "dumps"}
    <3>1. \/ call' = call
          \/ \E op, r, f : Ask(t, op, r, f)
      BY <1>3 DEF Begin, map, persist, unpersist, checkpoint, job
    <3>2. ASSUME NEW op, NEW r, NEW f, Ask(t, op, r, f)
          PROVE  call'[t].pc \in {"finish", "dumps"}
      BY <1>2, <3>2 DEF Ask
    <3> QED BY <2>1, <3>1, <3>2, IdleType
  <2>3. Sent(t)'
    BY <2>2 DEF Sent
  <2> QED BY <1>1, <2>1, <2>3 DEF SentInv, AllSent
<1>4. CASE Dumps(t)
  <2>1. /\ jrdds' = jrdds /\ rdds' = rdds /\ registry' = registry \cup UsedBy(FuncOf(t))
        /\ call' = [call EXCEPT ![t].pc = "list"]
    BY <1>4 DEF Dumps, Goto
  <2>2. call'[t].pc = "list" /\ call'[t].r = call[t].r
    BY <1>2, <2>1 DEF CallSet
  <2>3. Sent(t)'
    BY <2>1, <2>2 DEF Sent, FuncOf
  <2> QED BY <1>1, <2>1, <2>3 DEF SentInv, AllSent
<1>5. CASE DumpsRaises(t) \/ Refused(t)
  <2>1. jrdds' = jrdds /\ call'[t] = Idle
    BY <1>2, <1>5 DEF DumpsRaises, Refused, Abort
  <2>2. Sent(t)'
    BY <2>1, IdleType DEF Sent
  <2> QED BY <1>1, <2>1, <2>2 DEF SentInv, AllSent
<1>6. CASE ListVars(t)
  <2>1. /\ jrdds' = jrdds /\ rdds' = rdds /\ call[t].pc = "list"
        /\ call' = [call EXCEPT ![t].pc = "clear", ![t].bvars = registry]
    BY <1>6 DEF ListVars, Listed
  <2>2. call'[t].pc = "clear" /\ call'[t].r = call[t].r /\ call'[t].bvars = registry
    <3>1. call'[t] = [call[t] EXCEPT !.pc = "clear", !.bvars = registry]
      BY <1>2, <2>1
    <3> QED BY <1>2, <3>1 DEF CallSet
  <2>3. Sent(t)'
    BY <1>2, <2>1, <2>2 DEF Sent, FuncOf
  <2> QED BY <1>1, <2>1, <2>3 DEF SentInv, AllSent
<1>7. CASE Clear(t)
  <2>1. /\ jrdds' = jrdds /\ rdds' = rdds /\ call[t].pc = "clear"
        /\ call' = [call EXCEPT ![t].pc = "make"]
    BY <1>7 DEF Clear, Goto
  <2>2. call'[t].pc = "make" /\ call'[t].r = call[t].r /\ call'[t].bvars = call[t].bvars
    BY <1>2, <2>1 DEF CallSet
  <2>3. Sent(t)'
    BY <1>2, <2>1, <2>2 DEF Sent, FuncOf
  <2> QED BY <1>1, <2>1, <2>3 DEF SentInv, AllSent
<1>8. CASE Make(t)
  <2>1. call[t].pc = "make" /\ call' = [call EXCEPT ![t].pc = "finish"]
    BY <1>8 DEF Make, Goto
  <2>2. call'[t].pc = "finish"
    BY <1>2, <2>1 DEF CallSet
  <2>3. Sent(t)'
    BY <2>2 DEF Sent
  <2> PICK n \in Nat : n = Len(jrdds) + 1
    <3>1. Len(jrdds) \in Nat
      BY SeqFacts DEF Base, TypeInv
    <3> QED BY <3>1
  <2>4. /\ Len(jrdds') = n /\ jrdds'[n] = Command(call[t].r, call[t].bvars)
        /\ \A i \in 1..Len(jrdds) : jrdds'[i] = jrdds[i]
    <3>1. /\ Made(call[t].r, call[t].bvars)
          /\ call[t].r \in 1..Len(rdds) /\ call[t].bvars \in SUBSET Vars
      BY <1>8, MakeStep
    <3> QED BY <3>1, MakeUpdate DEF Base
  <2>5. UsedBy(jrdds'[n].func) \subseteq jrdds'[n].bvars
    <3>1. jrdds'[n].func = FuncOf(t) /\ jrdds'[n].bvars = call[t].bvars
      BY <2>4 DEF Command, FuncOf
    <3> QED BY <1>2, <2>1, <3>1 DEF Sent
  <2>6. \A i \in 1..n : i \in 1..Len(jrdds) \/ i = n
    <3>1. Len(jrdds) \in Nat
      BY SeqFacts DEF Base, TypeInv
    <3> QED BY <3>1
  <2>7. AllSent'
    BY <2>4, <2>5, <2>6 DEF AllSent, SentInv
  <2> QED BY <1>1, <2>3, <2>7 DEF SentInv
<1>9. CASE Finish(t)
  <2>1. call'[t] = Idle
    BY <1>2, <1>9 DEF Finish
  <2>2. Sent(t)'
    BY <2>1, IdleType DEF Sent
  <2>3. SameJrdds
    BY <1>9, FinishStep
  <2> QED BY <1>1, <2>2, <2>3, SentSame DEF SentInv
<1> QED BY <1>3, <1>4, <1>5, <1>6, <1>7, <1>8, <1>9 DEF Step

(* rdd.py, broadcast.py, in a program with one thread: every command goes  *)
(* to the JVM with all the broadcast variables it refers to, although they *)
(* are collected in a list of the context that is cleared on the way, and  *)
(* a function that could not be pickled leaves its variables there.        *)
THEOREM VariablesSent == ASSUME FlagsOK PROVE Spec => []BroadcastsSent
<1>1. Init => Base /\ SentInv
  <2>1. ASSUME Init PROVE SentInv
    <3>1. Len(jrdds) = 1 /\ jrdds[1] = JRoot /\ \A t \in Threads : call[t] = Idle
      BY <2>1 DEF Init
    <3>2. \A i \in 1..1 : i = 1
      OBVIOUS
    <3>3. UsedBy(JRoot.func) = {}
      BY DEF UsedBy, JRoot
    <3>4. AllSent
      BY <3>1, <3>2, <3>3 DEF AllSent
    <3>5. ASSUME NEW t \in Threads PROVE Sent(t)
      BY <3>1, IdleType DEF Sent
    <3> QED BY <3>4, <3>5 DEF SentInv
  <2> QED BY <2>1, InitBase
<1>2. Base /\ (Alone => SentInv) /\ [Next]_vars => Base' /\ (Alone => SentInv)'
  <2>1. ASSUME SentInv, UNCHANGED vars PROVE SentInv'
    BY <2>1 DEF vars, SentInv, Sent, AllSent, FuncOf
  <2> QED BY <2>1, StepBase, SentStep
<1>3. Base /\ (Alone => SentInv) => BroadcastsSent
  BY ThreadsStay DEF Base, SentInv, AllSent, BroadcastsSent
<1> QED BY <1>1, <1>2, <1>3, PTL DEF Spec

-----------------------------------------------------------------------------
(* The marks of the driver and of the JVM.  Each RDD has one of its own in *)
(* the JVM; the marks agree unless a call is on its way to make them or    *)
(* the last one failed; so does an RDD marked in the driver only.          *)
OwnJrdd == \A r, s \in 1..Len(rdds) :
               rdds[r].jrdd # 0 /\ rdds[r].jrdd = rdds[s].jrdd => r = s
Alters(t, r) == call[t].op \in {"persist", "unpersist"} /\ call[t].r = r
MarkOK(t, r) ==
    /\ rdds[r].jrdd # 0 /\ ~ Alters(t, r) =>
         r \in failed \/ jrdds[rdds[r].jrdd].persisted = rdds[r].cached
    /\ rdds[r].jrdd = 0 /\ rdds[r].cached => r \in failed \/ Alters(t, r)
AskOK(t) ==
    /\ call[t].pc \in {"dumps", "list", "clear", "make"} => rdds[call[t].r].jrdd = 0
    /\ call[t].op = "persist" => rdds[call[t].r].cached
    /\ call[t].op = "unpersist" => ~ rdds[call[t].r].cached
CacheInv == /\ OwnJrdd
            /\ \A t \in Threads : AskOK(t) /\ \A r \in 1..Len(rdds) : MarkOK(t, r)

(* A new RDD in the driver has none in the JVM and is not marked.          *)
LEMMA StageMarks ==
    ASSUME FlagsOK, Base, CacheInv, NEW t \in Threads, call'[t] = Idle,
           call[t].op \notin {"persist", "unpersist"}, failed' = failed,
           NEW r \in 1..Len(rdds), NEW f \in Fns, NEW fused \in BOOLEAN, Staged(r, f, fused)
    PROVE  OwnJrdd' /\ AskOK(t)' /\ \A i \in 1..Len(rdds') : MarkOK(t, i)'
<1> PICK n \in Nat : n = Len(rdds) + 1
  <2>1. Len(rdds) \in Nat
    BY SeqFacts DEF Base, TypeInv
  <2> QED BY <2>1
<1>1. /\ Len(rdds') = n /\ rdds'[n].jrdd = 0 /\ ~ rdds'[n].cached
      /\ \A i \in 1..Len(rdds) : rdds'[i] = rdds[i]
      /\ jrdds' = jrdds
  <2>1. /\ Len(rdds') = n /\ rdds'[n] = Stage(r, f, fused)
        /\ \A i \in 1..Len(rdds) : rdds'[i] = rdds[i]
    BY StageUpdate DEF Base
  <2>2. Stage(r, f, fused).jrdd = 0 /\ ~ Stage(r, f, fused).cached
    BY DEF Stage
  <2> QED BY <2>1, <2>2 DEF Staged
<1>2. \A i \in 1..n : i \in 1..Len(rdds) \/ i = n
  <2>1. Len(rdds) \in Nat
    BY SeqFacts DEF Base, TypeInv
  <2> QED BY <2>1
<1>3. OwnJrdd'
  BY <1>1, <1>2 DEF OwnJrdd, CacheInv
<1>4. AskOK(t)'
  BY IdleType DEF AskOK
<1>5. ASSUME NEW i \in 1..Len(rdds') PROVE MarkOK(t, i)'
  <2>1. CASE i = n
    BY <1>1, <2>1 DEF MarkOK
  <2>2. CASE i # n
    <3>1. i \in 1..Len(rdds) /\ MarkOK(t, i) /\ ~ Alters(t, i) /\ rdds'[i] = rdds[i]
      BY <1>1, <1>2, <2>2 DEF CacheInv, Alters
    <3> QED BY <1>1, <3>1 DEF MarkOK
  <2> QED BY <2>1, <2>2
<1> QED BY <1>3, <1>4, <1>5

(* An operation that asks for the JVM's RDD sets its mark before.          *)
LEMMA AskMarks ==
    ASSUME Base, CacheInv, NEW t \in Threads, NEW op, NEW r \in 1..Len(rdds), NEW f,
           Ask(t, op, r, f), call[t] = Idle, SameRdds, UNCHANGED <<jrdds, failed>>,
           \A i \in 1..Len(rdds) : i # r \/ op \notin {"persist", "unpersist"} =>
                                       rdds'[i].cached = rdds[i].cached,
           op = "persist" => rdds'[r].cached,
           op = "unpersist" => ~ rdds'[r].cached
    PROVE  OwnJrdd' /\ AskOK(t)' /\ \A i \in 1..Len(rdds') : MarkOK(t, i)'
<1>1. /\ call'[t].op = op /\ call'[t].r = r
      /\ call'[t].pc = (IF rdds[r].jrdd # 0 THEN "finish" ELSE "dumps")
  BY DEF Ask, Base, TypeInv
<1>2. OwnJrdd'
  BY DEF OwnJrdd, CacheInv, SameRdds
<1>3. AskOK(t)'
  BY <1>1 DEF AskOK, SameRdds
<1>4. ASSUME NEW i \in 1..Len(rdds') PROVE MarkOK(t, i)'
  <2>1. /\ i \in 1..Len(rdds) /\ MarkOK(t, i) /\ ~ Alters(t, i)
        /\ rdds'[i].jrdd = rdds[i].jrdd /\ rdds'[i].func = rdds[i].func
    BY IdleType DEF CacheInv, Alters, SameRdds
  <2>2. CASE i = r /\ op \in {"persist", "unpersist"}
    BY <1>1, <2>1, <2>2 DEF MarkOK, Alters
  <2>3. CASE ~ (i = r /\ op \in {"persist", "unpersist"})
    BY <1>1, <2>1, <2>3 DEF MarkOK, Alters
  <2> QED BY <2>2, <2>3
<1> QED BY <1>2, <1>3, <1>4

LEMMA BeginMarks ==
    ASSUME FlagsOK, Base, CacheInv, NEW t \in Threads, Begin(t)
    PROVE  OwnJrdd' /\ AskOK(t)' /\ \A i \in 1..Len(rdds') : MarkOK(t, i)'
<1>1. PICK r \in 1..Len(rdds) : \/ \E f \in Fns : map(t, r, f)
                                \/ persist(t, r) \/ unpersist(t, r)
                                \/ checkpoint(t, r) \/ job(t, r)
  BY DEF Begin
<1>2. jrdds' = jrdds /\ call[t] = Idle /\ (persist(t, r) \/ failed' = failed)
  BY <1>1 DEF Begin, map, persist, unpersist, checkpoint, job
<1>3. rdds \in Seq(RddSet) /\ rdds[r] \in RddSet
  BY SeqFacts DEF Base, TypeInv
<1>4. ASSUME NEW f \in Fns, map(t, r, f), Fused(r)
      PROVE  OwnJrdd' /\ AskOK(t)' /\ \A i \in 1..Len(rdds') : MarkOK(t, i)'
  <2>1. Staged(r, f, TRUE) /\ UNCHANGED <<call, failed>>
    BY <1>2, <1>4 DEF map, Staged
  <2> QED BY <1>2, <2>1, StageMarks, IdleType
<1>5. ASSUME NEW f \in Fns, map(t, r, f), ~ Fused(r)
      PROVE  OwnJrdd' /\ AskOK(t)' /\ \A i \in 1..Len(rdds') : MarkOK(t, i)'
  <2>1. Ask(t, "map", r, <<f>>) /\ UNCHANGED <<rdds, failed>>
    BY <1>5 DEF map
  <2> QED BY <1>2, <2>1, AskMarks DEF SameRdds
<1>6. CASE persist(t, r)
  <2>1. /\ rdds' = [rdds EXCEPT ![r].cached = TRUE]
        /\ \/ Ask(t, "persist", r, <<>>) /\ failed' = failed
           \/ failed' = failed \cup {r} /\ call' = call
    BY <1>6 DEF persist
  <2>2. SameRdds
    BY <2>1, FlagUpdate DEF Base
  <2>3. rdds'[r].cached /\ \A i \in 1..Len(rdds) : i # r => rdds'[i] = rdds[i]
    <3>1. rdds'[r] = [rdds[r] EXCEPT !.cached = TRUE]
      <4> DEFINE x == [rdds[r] EXCEPT !.cached = TRUE]
      <4>1. rdds' = [rdds EXCEPT ![r] = x]
        BY <2>1
      <4>2. rdds \in Seq(RddSet) /\ r \in 1..Len(rdds)
        BY <1>3
      <4> HIDE DEF x
      <4>3. rdds'[r] = x
        BY <4>1, <4>2, SetAt
      <4> QED BY <4>3 DEF x
    <3> QED BY <1>3, <2>1, <3>1 DEF RddSet
  <2>4. CASE Ask(t, "persist", r, <<>>) /\ failed' = failed
    BY <1>2, <2>2, <2>3, <2>4, AskMarks
  <2>5. CASE failed' = failed \cup {r} /\ call' = call
    <3>1. OwnJrdd' /\ AskOK(t)'
      BY <1>2, <2>2, <2>5, IdleType DEF OwnJrdd, CacheInv, SameRdds, AskOK
    <3>2. ASSUME NEW i \in 1..Len(rdds') PROVE MarkOK(t, i)'
      <4>1. i \in 1..Len(rdds) /\ MarkOK(t, i) /\ rdds'[i].jrdd = rdds[i].jrdd
        BY <2>2 DEF SameRdds, CacheInv
      <4>2. CASE i = r
        BY <2>5, <4>2 DEF MarkOK
      <4>3. CASE i # r
        BY <1>2, <2>3, <2>5, <4>1, <4>3 DEF MarkOK, Alters
      <4> QED BY <4>2, <4>3
    <3> QED BY <3>1, <3>2
  <2> QED BY <2>1, <2>4, <2>5
<1>7. CASE unpersist(t, r)
  <2>1. Ask(t, "unpersist", r, <<>>) /\ rdds' = [rdds EXCEPT ![r].cached = FALSE] /\ failed' = failed
    BY <1>7 DEF unpersist, Unpersisted
  <2>2. SameRdds
    BY <2>1, FlagUpdate DEF Base
  <2>3. ~ rdds'[r].cached /\ \A i \in 1..Len(rdds) : i # r => rdds'[i] = rdds[i]
    <3>1. rdds'[r] = [rdds[r] EXCEPT !.cached = FALSE]
      <4> DEFINE x == [rdds[r] EXCEPT !.cached = FALSE]
      <4>1. rdds' = [rdds EXCEPT ![r] = x]
        BY <2>1
      <4>2. rdds \in Seq(RddSet) /\ r \in 1..Len(rdds)
        BY <1>3
      <4> HIDE DEF x
      <4>3. rdds'[r] = x
        BY <4>1, <4>2, SetAt
      <4> QED BY <4>3 DEF x
    <3> QED BY <1>3, <2>1, <3>1 DEF RddSet
  <2> QED BY <1>2, <2>1, <2>2, <2>3, AskMarks
<1>8. CASE checkpoint(t, r)
  <2>1. Ask(t, "checkpoint", r, <<>>) /\ rdds' = [rdds EXCEPT ![r].checkpointed = TRUE] /\ failed' = failed
    BY <1>8 DEF checkpoint
  <2>2. SameRdds
    BY <2>1, FlagUpdate DEF Base
  <2>3. \A i \in 1..Len(rdds) : rdds'[i].cached = rdds[i].cached
    <3>1. rdds'[r] = [rdds[r] EXCEPT !.checkpointed = TRUE]
      <4> DEFINE x == [rdds[r] EXCEPT !.checkpointed = TRUE]
      <4>1. rdds' = [rdds EXCEPT ![r] = x]
        BY <2>1
      <4>2. rdds \in Seq(RddSet) /\ r \in 1..Len(rdds)
        BY <1>3
      <4> HIDE DEF x
      <4>3. rdds'[r] = x
        BY <4>1, <4>2, SetAt
      <4> QED BY <4>3 DEF x
    <3>2. rdds'[r].cached = rdds[r].cached
      BY <1>3, <3>1 DEF RddSet
    <3>3. \A i \in 1..Len(rdds) : i # r => rdds'[i] = rdds[i]
      BY <1>3, <2>1
    <3> QED BY <3>2, <3>3
  <2> QED BY <1>2, <2>1, <2>2, <2>3, AskMarks
<1>9. CASE job(t, r)
  <2>1. Ask(t, "job", r, <<>>) /\ UNCHANGED <<rdds, failed>>
    BY <1>9 DEF job
  <2> QED BY <1>2, <2>1, AskMarks DEF SameRdds
<1> QED BY <1>1, <1>4, <1>5, <1>6, <1>7, <1>8, <1>9

LEMMA MakeMarks ==
    ASSUME FlagsOK, Base, CacheInv, NEW t \in Threads, Make(t)
    PROVE  OwnJrdd' /\ AskOK(t)' /\ \A i \in 1..Len(rdds') : MarkOK(t, i)'
<1>1. Len(jrdds) \in Nat /\ Len(rdds) \in Nat
  BY SeqFacts DEF Base, TypeInv
<1> PICK n \in Nat : n = Len(jrdds) + 1
  BY <1>1
<1> PICK r \in 1..Len(rdds) : r = call[t].r
  BY MakeStep
<1>2. call[t].pc = "make" /\ call[t] \in CallSet /\ CallOK(t) /\ AskOK(t)
  BY DEF Make, Base, TypeInv, CallInv, CacheInv
<1>3. rdds[r].jrdd = 0 /\ failed' = failed
  BY <1>2 DEF AskOK, Make
<1>4. /\ call'[t].pc = "finish" /\ call'[t].r = r /\ call'[t].op = call[t].op
  <2>1. call' = [call EXCEPT ![t].pc = "finish"]
    BY DEF Make, Goto
  <2>2. call'[t] = [call[t] EXCEPT !.pc = "finish"]
    BY <2>1 DEF Base, TypeInv
  <2> QED BY <1>2, <2>2 DEF CallSet
<1>5. /\ Len(rdds') = Len(rdds) /\ rdds'[r].jrdd = n
      /\ \A i \in 1..Len(rdds) :
           /\ i # r => rdds'[i].jrdd = rdds[i].jrdd
           /\ rdds'[i].cached = rdds[i].cached /\ rdds'[i].func = rdds[i].func
      /\ jrdds'[n].persisted = FALSE /\ \A i \in 1..Len(jrdds) : jrdds'[i] = jrdds[i]
  <2>1. Made(r, call[t].bvars) /\ call[t].bvars \in SUBSET Vars
    BY MakeStep
  <2>2. Command(r, call[t].bvars).persisted = FALSE
    BY DEF Command
  <2> QED BY <2>1, <2>2, MakeUpdate DEF Base
<1>6. \A i \in 1..Len(rdds) : rdds[i].jrdd # n /\ rdds[i].jrdd \in 0..Len(jrdds)
  BY <1>1 DEF Base, ShapeInv
<1>7. OwnJrdd'
  BY <1>5, <1>6 DEF OwnJrdd, CacheInv
<1>8. AskOK(t)'
  BY <1>2, <1>4, <1>5 DEF AskOK
<1>9. ASSUME NEW i \in 1..Len(rdds') PROVE MarkOK(t, i)'
  <2>1. i \in 1..Len(rdds) /\ MarkOK(t, i) /\ (Alters(t, i)' <=> Alters(t, i))
    BY <1>4, <1>5 DEF CacheInv, Alters
  <2>2. CASE i = r
    <3>1. ~ Alters(t, r) => r \in failed \/ ~ rdds[r].cached
      BY <1>3, <2>1, <2>2 DEF MarkOK
    <3>2. rdds[r].cached \in BOOLEAN
      <4>1. rdds[r] \in RddSet
        BY SeqFacts DEF Base, TypeInv
      <4> QED BY <4>1 DEF RddSet
    <3>3. ~ Alters(t, i)' => i \in failed \/ jrdds'[rdds'[i].jrdd].persisted = rdds'[i].cached
      BY <1>5, <2>1, <2>2, <3>1, <3>2
    <3>4. rdds'[i].jrdd # 0
      BY <1>1, <1>5, <2>2
    <3> QED BY <1>3, <3>3, <3>4 DEF MarkOK
  <2>3. CASE i # r
    <3>1. rdds[i].jrdd # 0 => rdds[i].jrdd \in 1..Len(jrdds)
      BY <1>1, <1>6, <2>1
    <3>2. rdds[i].jrdd # 0 => jrdds'[rdds[i].jrdd] = jrdds[rdds[i].jrdd]
      BY <1>5, <3>1
    <3> QED BY <1>3, <1>5, <2>1, <2>3, <3>2 DEF MarkOK
  <2> QED BY <2>2, <2>3
<1> QED BY <1>7, <1>8, <1>9

LEMMA FinishMarks ==
    ASSUME FlagsOK, Base, CacheInv, NEW t \in Threads, Finish(t)
    PROVE  OwnJrdd' /\ AskOK(t)' /\ \A i \in 1..Len(rdds') : MarkOK(t, i)'
<1> PICK r \in 1..Len(rdds) : r = call[t].r
  BY DEF Finish, Base, CallInv, CallOK
<1>1. /\ call[t] \in CallSet /\ CallOK(t) /\ AskOK(t) /\ call[t].pc = "finish"
      /\ rdds[r].jrdd # 0
  BY DEF Finish, Base, TypeInv, CallInv, CallOK, CacheInv
<1>2. call'[t] = Idle
  BY DEF Finish, Base, TypeInv
<1>3. CASE call[t].op = "map"
  <2>1. call[t].f[1] \in Fns
    <3>1. call[t].f \in Seq(Fns) /\ Len(call[t].f) = 1
      BY <1>1, <1>3 DEF CallSet, CallOK
    <3> QED BY <3>1
  <2>2. Staged(r, call[t].f[1], FALSE) /\ failed' = failed
    BY <1>1, <1>3 DEF Finish, Staged, Marking
  <2> QED BY <1>2, <1>3, <2>1, <2>2, StageMarks
<1>4. CASE call[t].op # "map"
  <2>1. rdds' = rdds
    BY <1>4 DEF Finish
  <2>2. OwnJrdd'
    BY <2>1 DEF OwnJrdd, CacheInv
  <2>3. AskOK(t)'
    BY <1>2, IdleType DEF AskOK
  <2>4. ASSUME NEW i \in 1..Len(rdds') PROVE MarkOK(t, i)'
    <3>1. i \in 1..Len(rdds) /\ MarkOK(t, i)
      BY <2>1 DEF CacheInv
    <3>2. CASE call[t].op \notin {"persist", "unpersist"}
      <4>1. UNCHANGED <<jrdds, failed>> /\ ~ Alters(t, i)
        BY <3>2 DEF Finish, Marking, Alters
      <4> QED BY <2>1, <3>1, <4>1 DEF MarkOK
    <3>3. CASE call[t].op \in {"persist", "unpersist"}
      <4> PICK j \in 1..Len(jrdds) : j = rdds[r].jrdd
        <5>1. Len(jrdds) \in Nat /\ rdds[r].jrdd \in 0..Len(jrdds)
          BY SeqFacts DEF Base, TypeInv, ShapeInv
        <5> QED BY <1>1, <5>1
      <4>1. /\ jrdds' = [jrdds EXCEPT ![j].persisted = (call[t].op = "persist")]
            /\ failed' = failed \ {r}
        BY <3>3 DEF Finish, Marking
      <4>2. jrdds \in Seq(JrddSet) /\ jrdds[j] \in JrddSet
        BY SeqFacts DEF Base, TypeInv
      <4>3. CASE i = r
        <5>1. jrdds'[j] = [jrdds[j] EXCEPT !.persisted = (call[t].op = "persist")]
          BY <4>1, <4>2
        <5>2. jrdds'[j].persisted = (call[t].op = "persist")
          BY <4>2, <5>1 DEF JrddSet
        <5>3. rdds[r].cached = (call[t].op = "persist")
          <6>1. rdds[r].cached \in BOOLEAN
            <7>1. rdds[r] \in RddSet
              BY SeqFacts DEF Base, TypeInv
            <7> QED BY <7>1 DEF RddSet
          <6> QED BY <1>1, <3>3, <6>1 DEF AskOK
        <5> QED BY <1>1, <2>1, <4>3, <5>2, <5>3 DEF MarkOK
      <4>4. CASE i # r
        <5>1. ~ Alters(t, i)
          BY <4>4 DEF Alters
        <5>2. rdds[i].jrdd # 0 => rdds[i].jrdd \in 1..Len(jrdds) /\ rdds[i].jrdd # j
          <6>1. Len(jrdds) \in Nat /\ rdds[i].jrdd \in 0..Len(jrdds)
            BY <3>1, SeqFacts DEF Base, TypeInv, ShapeInv
          <6>2. rdds[i].jrdd # 0 => rdds[i].jrdd # j
            BY <3>1, <4>4 DEF CacheInv, OwnJrdd
          <6> QED BY <6>1, <6>2
        <5>3. rdds[i].jrdd # 0 => jrdds'[rdds[i].jrdd] = jrdds[rdds[i].jrdd]
          BY <4>1, <4>2, <5>2
        <5> QED BY <2>1, <3>1, <4>1, <4>4, <5>1, <5>3 DEF MarkOK
      <4> QED BY <4>3, <4>4
    <3> QED BY <3>2, <3>3
  <2> QED BY <2>2, <2>3, <2>4
<1> QED BY <1>3, <1>4

LEMMA WalkMarks ==
    ASSUME Base, CacheInv, NEW t \in Threads,
           Dumps(t) \/ DumpsRaises(t) \/ ListVars(t) \/ Clear(t) \/ Refused(t)
    PROVE  OwnJrdd' /\ AskOK(t)' /\ \A i \in 1..Len(rdds') : MarkOK(t, i)'
<1>1. UNCHANGED <<rdds, jrdds>> /\ call[t] \in CallSet /\ CallOK(t) /\ AskOK(t)
  BY DEF Dumps, DumpsRaises, ListVars, Clear, Refused, Abort, Base, TypeInv, CallInv, CacheInv
<1>2. OwnJrdd'
  BY <1>1 DEF OwnJrdd, CacheInv
<1>3. CASE DumpsRaises(t) \/ Refused(t)
  <2>1. call'[t] = Idle
        /\ failed' = IF call[t].op \in Marking THEN failed \cup {call[t].r} ELSE failed
    BY <1>3 DEF DumpsRaises, Refused, Abort, Base, TypeInv
  <2>2. AskOK(t)'
    BY <2>1, IdleType DEF AskOK
  <2>3. ASSUME NEW i \in 1..Len(rdds') PROVE MarkOK(t, i)'
    <3>1. i \in 1..Len(rdds) /\ MarkOK(t, i)
      BY <1>1 DEF CacheInv
    <3>2. (Alters(t, i) => i \in failed') /\ (i \in failed => i \in failed')
      BY <2>1 DEF Alters, Marking
    <3> QED BY <1>1, <3>1, <3>2 DEF MarkOK
  <2> QED BY <1>2, <2>2, <2>3
<1>4. CASE Dumps(t) \/ ListVars(t) \/ Clear(t)
  <2>1. /\ call'[t].r = call[t].r /\ call'[t].op = call[t].op
        /\ call[t].pc \in {"dumps", "list", "clear"} /\ call'[t].pc \in {"list", "clear", "make"}
    <3>1. \/ call'[t] = [call[t] EXCEPT !.pc = "list"]
          \/ call'[t] = [call[t] EXCEPT !.pc = "clear", !.bvars = registry]
          \/ call'[t] = [call[t] EXCEPT !.pc = "make"]
      BY <1>4 DEF Dumps, ListVars, Listed, Clear, Goto, Base, TypeInv
    <3>2. call[t].pc \in {"dumps", "list", "clear"}
      BY <1>4 DEF Dumps, ListVars, Clear
    <3> QED BY <1>1, <3>1, <3>2 DEF CallSet
  <2>2. failed' = failed
    BY <1>4 DEF Dumps, ListVars, Clear
  <2>3. AskOK(t)'
    BY <1>1, <2>1 DEF AskOK
  <2>4. ASSUME NEW i \in 1..Len(rdds') PROVE MarkOK(t, i)'
    BY <1>1, <2>1, <2>2 DEF CacheInv, MarkOK, Alters
  <2> QED BY <1>2, <2>3, <2>4
<1> QED BY <1>3, <1>4

(* rdd.py, in a program with one thread: between two calls, an RDD that    *)
(* has one in the JVM is marked is_cached exactly if that one is           *)
(* persisted, whatever was cached and unpersisted before and whichever     *)
(* calls failed at whichever point, unless the last call that set its own  *)
(* mark ended with an error: a wrong storage level, a function that cannot *)
(* be pickled, or the JVM's refusal.                                       *)
THEOREM CacheKept == ASSUME FlagsOK PROVE Spec => []CacheHeld
<1>1. Init => Base /\ CacheInv
  <2>1. ASSUME Init PROVE CacheInv
    <3>1. /\ Len(rdds) = 1 /\ rdds[1] = Root /\ jrdds[1] = JRoot
          /\ \A t \in Threads : call[t] = Idle
      BY <2>1 DEF Init
    <3>2. \A i \in 1..1 : i = 1
      OBVIOUS
    <3>3. OwnJrdd
      BY <3>1, <3>2 DEF OwnJrdd
    <3>4. ASSUME NEW t \in Threads PROVE AskOK(t) /\ \A r \in 1..Len(rdds) : MarkOK(t, r)
      <4>1. AskOK(t)
        BY <3>1, IdleType DEF AskOK
      <4>2. /\ Root.jrdd = 1 /\ Root.cached = FALSE /\ JRoot.persisted = FALSE
        BY DEF Root, JRoot
      <4>3. \A r \in 1..Len(rdds) : rdds[r] = Root
        BY <3>1, <3>2
      <4>4. \A r \in 1..Len(rdds) : MarkOK(t, r)
        BY <3>1, <4>2, <4>3 DEF MarkOK
      <4> QED BY <4>1, <4>4
    <3> QED BY <3>3, <3>4 DEF CacheInv
  <2> QED BY <2>1, InitBase
<1>2. Base /\ (Alone => CacheInv) /\ [Next]_vars => Base' /\ (Alone => CacheInv)'
  <2>1. ASSUME CacheInv, UNCHANGED vars PROVE CacheInv'
    BY <2>1 DEF vars, CacheInv, OwnJrdd, AskOK, MarkOK, Alters
  <2>2. ASSUME Alone, Base, CacheInv, NEW t \in Threads, Begin(t) \/ Step(t) PROVE CacheInv'
    <3>1. OwnJrdd' /\ AskOK(t)' /\ \A i \in 1..Len(rdds') : MarkOK(t, i)'
      BY <2>2, BeginMarks, WalkMarks, MakeMarks, FinishMarks DEF Step
    <3>2. \A u \in Threads : u = t
      BY <2>2 DEF Alone
    <3> QED BY <3>1, <3>2 DEF CacheInv
  <2> QED BY <2>1, <2>2, StepBase DEF Next
<1>3. Base /\ (Alone => CacheInv) => CacheHeld
  <2>1. ASSUME Alone, Base, CacheInv, \A t \in Threads : call[t] = Idle,
               NEW r \in (1..Len(rdds)) \ failed, rdds[r].jrdd # 0
        PROVE  jrdds[rdds[r].jrdd].persisted = rdds[r].cached
    <3>1. PICK t \in Threads : TRUE
      BY <2>1 DEF Alone
    <3>2. MarkOK(t, r) /\ ~ Alters(t, r)
      BY <2>1, IdleType DEF CacheInv, Alters
    <3> QED BY <2>1, <3>2 DEF MarkOK
  <2> QED BY <2>1, ThreadsStay DEF Base, CacheHeld
<1> QED BY <1>1, <1>2, <1>3, PTL DEF Spec

-----------------------------------------------------------------------------
(* context.py.                                                             *)
(* Until __init__ has returned or raised, nobody has the object, so nobody *)
(* can have called stop on it.                                             *)
Early(t) == phase[t] \in {"new", "refused"} \/ Context!Coming(t)
EarlyOK(t) == Early(t) => stop[t] = "no" /\ ~held[t]

(* What a running stop has passed is down.                                 *)
StopOK(t) == /\ stop[t] \in {"server", "clear"} => jsc[t] # "up"
             /\ stop[t] = "clear" => server[t] # "up"

(* The active context is the only one that is up or coming up.             *)
OwnOK(t) == ~stray /\ (jsc[t] = "up" \/ server[t] = "up" \/ Context!Coming(t)) => active = t

ContextInv == Context!TypeOK /\ \A t \in Threads : EarlyOK(t) /\ StopOK(t) /\ OwnOK(t)

LEMMA ContextInit == ASSUME Context!Init PROVE ContextInv
<1>1. Context!TypeOK
  BY DEF Context!Init, Context!TypeOK, Context!Phases, Context!Attribute
<1> QED BY <1>1 DEF Context!Init, ContextInv, EarlyOK, Early, StopOK, OwnOK, Context!Coming

-----------------------------------------------------------------------------
(* The steps of the constructor.                                           *)
LEMMA ConstructorInv ==
    ASSUME None \notin Threads, ContextInv, NEW t \in Threads,
           Context!InitSteps(t) \/ Context!LaunchFails(t) \/ Context!InitRaises(t)
    PROVE  ContextInv'
<1>1. CASE Context!EnsureInitialized(t)
  <2>1. Context!TypeOK'
    BY <1>1 DEF Context!EnsureInitialized, ContextInv, Context!TypeOK, Context!Phases
  <2>2. ASSUME NEW u \in Threads PROVE EarlyOK(u)' /\ StopOK(u)'
    BY <1>1
    DEF Context!EnsureInitialized, ContextInv, Context!TypeOK, EarlyOK, Early, StopOK,
        Context!Coming
  <2>3. ASSUME NEW u \in Threads PROVE OwnOK(u)'
    BY <1>1
    DEF Context!EnsureInitialized, Context!Admits, ContextInv, Context!TypeOK, OwnOK,
        Context!Coming
  <2> QED BY <2>1, <2>2, <2>3 DEF ContextInv
<1>2. CASE Context!Retry(t) \/ Context!LaunchFails(t) \/ Context!ConfRead(t)
  <2>1. Context!TypeOK'
    BY <1>2
    DEF Context!Retry, Context!LaunchFails, Context!ConfRead, ContextInv, Context!TypeOK,
        Context!Phases
  <2>2. ASSUME NEW u \in Threads PROVE EarlyOK(u)' /\ StopOK(u)' /\ OwnOK(u)'
    BY <1>2
    DEF Context!Retry, Context!LaunchFails, Context!ConfRead, ContextInv, Context!TypeOK,
        EarlyOK, Early, StopOK, OwnOK, Context!Coming
  <2> QED BY <2>1, <2>2 DEF ContextInv
<1>3. CASE Context!InitializeContext(t) \/ Context!StartUpdateServer(t)
  <2>1. Context!TypeOK'
    BY <1>3
    DEF Context!InitializeContext, Context!StartUpdateServer, ContextInv, Context!TypeOK,
        Context!Phases, Context!Attribute
  <2>2. ASSUME NEW u \in Threads PROVE EarlyOK(u)' /\ StopOK(u)' /\ OwnOK(u)'
    BY <1>3
    DEF Context!InitializeContext, Context!StartUpdateServer, ContextInv, Context!TypeOK,
        EarlyOK, Early, StopOK, OwnOK, Context!Coming
  <2> QED BY <2>1, <2>2 DEF ContextInv
<1>4. CASE Context!InitDone(t) \/ Context!InitRaises(t)
  <2>1. Context!TypeOK'
    BY <1>4
    DEF Context!InitDone, Context!InitRaises, ContextInv, Context!TypeOK, Context!Phases
  <2>2. ASSUME NEW u \in Threads PROVE EarlyOK(u)' /\ StopOK(u)' /\ OwnOK(u)'
    BY <1>4
    DEF Context!InitDone, Context!InitRaises, ContextInv, Context!TypeOK, EarlyOK, Early,
        StopOK, OwnOK, Context!Coming
  <2> QED BY <2>1, <2>2 DEF ContextInv
<1> QED BY <1>1, <1>2, <1>3, <1>4 DEF Context!InitSteps

(* The steps of stop, and what calls it.                                   *)
LEMMA StopInv ==
    ASSUME None \notin Threads, ContextInv, NEW t \in Threads,
           \/ Context!StopCall(t) \/ Context!StopSteps(t) \/ Context!StopRaises(t)
           \/ Context!Release(t) \/ Context!Del(t)
    PROVE  ContextInv'
<1>1. CASE Context!StopCall(t) \/ Context!StopRaises(t) \/ Context!Release(t) \/ Context!Del(t)
  <2>1. Context!TypeOK'
    BY <1>1
    DEF Context!StopCall, Context!StopRaises, Context!Release, Context!Del, ContextInv,
        Context!TypeOK, Context!Phases
  <2>2. ASSUME NEW u \in Threads PROVE EarlyOK(u)' /\ StopOK(u)' /\ OwnOK(u)'
    BY <1>1
    DEF Context!StopCall, Context!StopRaises, Context!Release, Context!Del, ContextInv,
        Context!TypeOK, EarlyOK, Early, StopOK, OwnOK, Context!Coming
  <2> QED BY <2>1, <2>2 DEF ContextInv
<1>2. CASE Context!StopJsc(t) \/ Context!StopServer(t)
  <2>1. Context!TypeOK'
    BY <1>2
    DEF Context!StopJsc, Context!StopServer, ContextInv, Context!TypeOK, Context!Attribute
  <2>2. ASSUME NEW u \in Threads PROVE EarlyOK(u)' /\ StopOK(u)' /\ OwnOK(u)'
    BY <1>2
    DEF Context!StopJsc, Context!StopServer, ContextInv, Context!TypeOK, EarlyOK, Early,
        StopOK, OwnOK, Context!Coming
  <2> QED BY <2>1, <2>2 DEF ContextInv
<1>3. CASE Context!StopClear(t)
  <2>1. Context!TypeOK'
    BY <1>3 DEF Context!StopClear, Context!Cleared, ContextInv, Context!TypeOK
  <2>2. ASSUME NEW u \in Threads PROVE EarlyOK(u)' /\ StopOK(u)'
    BY <1>3
    DEF Context!StopClear, ContextInv, Context!TypeOK, EarlyOK, Early, StopOK,
        Context!Coming
  (* The place is given up only by its owner, which is down: OwnOK of t    *)
  (* from StopOK and EarlyOK, that of the others because active is not u.  *)
  <2>3. ASSUME NEW u \in Threads PROVE OwnOK(u)'
    <3>1. CASE u = t
      BY <1>3, <3>1
      DEF Context!StopClear, ContextInv, EarlyOK, Early, StopOK, OwnOK, Context!Coming
    <3>2. CASE u # t
      BY <1>3, <3>2 DEF Context!StopClear, ContextInv, Context!TypeOK, OwnOK, Context!Coming
    <3> QED BY <3>1, <3>2
  <2> QED BY <2>1, <2>2, <2>3 DEF ContextInv
<1> QED BY <1>1, <1>2, <1>3 DEF Context!StopSteps

LEMMA ContextNext ==
    ASSUME None \notin Threads, ContextInv, [Context!Next]_(Context!vars) PROVE ContextInv'
<1>1. CASE Context!SetSystemProperty \/ UNCHANGED Context!vars
  <2>1. UNCHANGED <<active, files, phase, jsc, server, stop, held, stray>> /\ gateway' \in BOOLEAN
    BY <1>1 DEF Context!SetSystemProperty, Context!vars, ContextInv, Context!TypeOK
  <2> QED BY <2>1
  DEF ContextInv, Context!TypeOK, EarlyOK, Early, StopOK, OwnOK, Context!Coming
<1>2. CASE \E t \in Threads : \/ Context!InitSteps(t) \/ Context!LaunchFails(t) \/ Context!InitRaises(t)
                              \/ Context!StopCall(t) \/ Context!StopSteps(t) \/ Context!StopRaises(t)
                              \/ Context!Release(t) \/ Context!Del(t)
  BY <1>2, ConstructorInv, StopInv
<1> QED BY <1>1, <1>2 DEF Context!Next

-----------------------------------------------------------------------------
(* Whatever the threads do and whichever calls raise, as long as no late   *)
(* stop has reset another context's place, everything that runs in the JVM *)
(* or listens for updates belongs to SparkContext._active_spark_context.   *)
THEOREM ActiveOwner ==
    ASSUME None \notin Threads PROVE Context!Spec => []ActiveOwnsAll
<1>1. ContextInv => ActiveOwnsAll
  BY DEF ContextInv, Context!TypeOK, OwnOK, ActiveOwnsAll
<1> QED BY <1>1, ContextInit, ContextNext, PTL DEF Context!Spec

(* Hence until then at most one context runs, as the message "Cannot run   *)
(* multiple SparkContexts at once" has it.                                 *)
THEOREM OneUntilStray ==
    ASSUME None \notin Threads PROVE Context!Spec => [](~stray => Context!OneRunning)
<1>1. ContextInv => (~stray => Context!OneRunning)
  BY DEF ContextInv, OwnOK, Context!OneRunning
<1> QED BY <1>1, ContextInit, ContextNext, PTL DEF Context!Spec

-----------------------------------------------------------------------------
(* FlattenSeq's recursive definition is met, by a function up to any       *)
(* length.                                                                 *)
Joins(f, seqs, n) == f = [i \in 1..n |-> IF i = 1 THEN seqs[i] ELSE f[i - 1] \o seqs[i]]

LEMMA JoinsExists ==
    ASSUME NEW n \in Nat, NEW seqs PROVE \E f : Joins(f, seqs, n)
<1> USE DEF Joins
<1> DEFINE Has(m) == \E f : Joins(f, seqs, m)
           T == {m \in 0..n : ~ Has(m)}
<1> SUFFICES Has(n)
  OBVIOUS
<1> HIDE DEF Has
<1> SUFFICES ASSUME T # {} PROVE FALSE
  OBVIOUS
<1>1. PICK m \in T : \A i \in T : m <= i
  <2>1. T \in SUBSET Nat
    OBVIOUS
  <2> HIDE DEF T
  <2> QED BY <2>1, Least
<1>2. m \in Nat /\ m <= n
  OBVIOUS
<1>3. CASE m = 0
  <2> DEFINE f == [i \in 1..0 |-> <<>>]
  <2>1. Joins(f, seqs, 0)
    OBVIOUS
  <2>2. Has(0)
    BY <2>1 DEF Has
  <2> QED BY <1>3, <2>2
<1>4. CASE m # 0
  <2>1. m - 1 \in 0..n /\ m - 1 \notin T
    BY <1>1, <1>2, <1>4
  <2>2. PICK g : Joins(g, seqs, m - 1)
    BY <2>1 DEF Has
  <2> DEFINE f == [i \in 1..m |-> IF i = m THEN IF m = 1 THEN seqs[m] ELSE g[m - 1] \o seqs[m]
                                  ELSE g[i]]
  <2>3. \A i \in 1..m : f[i] = IF i = 1 THEN seqs[i] ELSE f[i - 1] \o seqs[i]
    <3> SUFFICES ASSUME NEW i \in 1..m
                 PROVE  f[i] = IF i = 1 THEN seqs[i] ELSE f[i - 1] \o seqs[i]
      OBVIOUS
    <3>1. CASE i = m
      BY <1>2, <1>4, <3>1
    <3>2. CASE i # m
      <4>1. i \in 1..(m - 1) /\ i - 1 # m /\ (i # 1 => i - 1 \in 1..(m - 1))
        BY <1>2, <3>2
      <4>2. g[i] = IF i = 1 THEN seqs[i] ELSE g[i - 1] \o seqs[i]
        BY <2>2, <4>1
      <4>3. f[i] = g[i] /\ (i # 1 => f[i - 1] = g[i - 1])
        BY <1>2, <3>2, <4>1
      <4> QED BY <4>2, <4>3
    <3> QED BY <3>1, <3>2
  <2>4. Joins(f, seqs, m)
    BY <2>3
  <2>5. Has(m)
    BY <2>4 DEF Has
  <2> QED BY <2>5
<1> QED BY <1>3, <1>4

(* No element twice.                                                       *)
Apart(seqs) ==
    \A i, k \in 1..Len(seqs) : \A j \in 1..Len(seqs[i]), l \in 1..Len(seqs[k]) :
        seqs[i][j] = seqs[k][l] => i = k /\ j = l
Once(s) == \A p, q \in 1..Len(s) : s[p] = s[q] => p = q

(* What t is when it joins the first n of seqs.                            *)
Joined(t, seqs, n) ==
    /\ \A k \in 1..n : Len(seqs[k]) <= Len(t)
    /\ \A p \in 1..Len(t) : \E k \in 1..n : \E j \in 1..Len(seqs[k]) : t[p] = seqs[k][j]
    /\ \A k \in 1..n : \A j \in 1..Len(seqs[k]) : \E p \in 1..Len(t) : t[p] = seqs[k][j]
    /\ Apart(seqs) => Once(t)

(* One more sequence at the end.                                           *)
LEMMA JoinStep ==
    ASSUME NEW S, NEW seqs \in Seq(Seq(S)), NEW n \in 1..Len(seqs), n # Len(seqs),
           NEW t \in Seq(S), Joined(t, seqs, n)
    PROVE  t \o seqs[n + 1] \in Seq(S) /\ Joined(t \o seqs[n + 1], seqs, n + 1)
<1> DEFINE u == seqs[n + 1]
           v == t \o u
<1>1. /\ n \in Nat /\ n + 1 \in 1..Len(seqs) /\ u \in Seq(S) /\ Len(t) \in Nat /\ Len(u) \in Nat
      /\ \A k \in 1..(n + 1) : k = n + 1 \/ k \in 1..n
      /\ \A k \in 1..n : k # n + 1 /\ k \in 1..Len(seqs)
  OBVIOUS
<1>2. /\ v \in Seq(S) /\ Len(v) = Len(t) + Len(u)
      /\ \A p \in 1..(Len(t) + Len(u)) : v[p] = IF p <= Len(t) THEN t[p] ELSE u[p - Len(t)]
  BY <1>1
<1> HIDE DEF v
<1>3. /\ \A p \in 1..Len(v) : \/ p \in 1..Len(t) /\ v[p] = t[p]
                              \/ p - Len(t) \in 1..Len(u) /\ v[p] = u[p - Len(t)]
      /\ \A p \in 1..Len(t) : p \in 1..Len(v) /\ v[p] = t[p]
      /\ \A j \in 1..Len(u) : Len(t) + j \in 1..Len(v) /\ v[Len(t) + j] = u[j]
  BY <1>1, <1>2
<1>4. \A k \in 1..(n + 1) : Len(seqs[k]) <= Len(v)
  <2>1. \A k \in 1..n : Len(seqs[k]) \in Nat /\ Len(seqs[k]) <= Len(t)
    BY <1>1 DEF Joined
  <2> QED BY <1>1, <1>2, <2>1
<1> HIDE DEF u
<1>5. \A p \in 1..Len(v) : \E k \in 1..(n + 1) : \E j \in 1..Len(seqs[k]) : v[p] = seqs[k][j]
  <2> SUFFICES ASSUME NEW p \in 1..Len(v)
               PROVE  \E k \in 1..(n + 1) : \E j \in 1..Len(seqs[k]) : v[p] = seqs[k][j]
    OBVIOUS
  <2>1. CASE p \in 1..Len(t) /\ v[p] = t[p]
    <3>1. PICK k \in 1..n : \E j \in 1..Len(seqs[k]) : t[p] = seqs[k][j]
      BY <2>1 DEF Joined
    <3>2. k \in 1..(n + 1)
      BY <1>1
    <3> QED BY <2>1, <3>1, <3>2
  <2>2. CASE p - Len(t) \in 1..Len(u) /\ v[p] = u[p - Len(t)]
    <3>1. n + 1 \in 1..(n + 1)
      BY <1>1
    <3> QED BY <2>2, <3>1 DEF u
  <2> QED BY <1>3, <2>1, <2>2
<1>6. \A k \in 1..(n + 1) : \A j \in 1..Len(seqs[k]) : \E p \in 1..Len(v) : v[p] = seqs[k][j]
  <2> SUFFICES ASSUME NEW k \in 1..(n + 1), NEW j \in 1..Len(seqs[k])
               PROVE  \E p \in 1..Len(v) : v[p] = seqs[k][j]
    OBVIOUS
  <2>1. CASE k = n + 1
    BY <1>3, <2>1 DEF u
  <2>2. CASE k \in 1..n
    <3>1. PICK p \in 1..Len(t) : t[p] = seqs[k][j]
      BY <2>2 DEF Joined
    <3> QED BY <1>3, <3>1
  <2> QED BY <1>1, <2>1, <2>2
<1>7. ASSUME Apart(seqs) PROVE Once(v)
  <2>1. Once(t)
    BY <1>7 DEF Joined
  <2>2. Once(u)
    BY <1>1, <1>7 DEF Apart, Once, u
  <2>3. \A p \in 1..Len(t), j \in 1..Len(u) : t[p] # u[j]
    <3> SUFFICES ASSUME NEW p \in 1..Len(t), NEW j \in 1..Len(u), t[p] = u[j] PROVE FALSE
      OBVIOUS
    <3>1. PICK k \in 1..n : \E l \in 1..Len(seqs[k]) : t[p] = seqs[k][l]
      BY DEF Joined
    <3>2. k \in 1..Len(seqs) /\ n + 1 \in 1..Len(seqs) /\ k # n + 1
      BY <1>1
    <3> QED BY <1>7, <3>1, <3>2 DEF Apart, u
  <2> SUFFICES ASSUME NEW p \in 1..Len(v), NEW q \in 1..Len(v), v[p] = v[q] PROVE p = q
    BY DEF Once
  <2>4. CASE p \in 1..Len(t) /\ q \in 1..Len(t)
    BY <1>3, <2>1, <2>4 DEF Once
  <2>5. CASE p \notin 1..Len(t) /\ q \notin 1..Len(t)
    <3>1. /\ p - Len(t) \in 1..Len(u) /\ v[p] = u[p - Len(t)]
          /\ q - Len(t) \in 1..Len(u) /\ v[q] = u[q - Len(t)]
      BY <1>3, <2>5
    <3>2. p - Len(t) = q - Len(t)
      BY <2>2, <3>1 DEF Once
    <3> QED BY <1>1, <3>2
  <2>6. CASE p \in 1..Len(t) /\ q \notin 1..Len(t)
    BY <1>3, <2>3, <2>6
  <2>7. CASE p \notin 1..Len(t) /\ q \in 1..Len(t)
    BY <1>3, <2>3, <2>7
  <2> QED BY <2>4, <2>5, <2>6, <2>7
<1> QED BY <1>2, <1>4, <1>5, <1>6, <1>7 DEF Joined, v, u

(* FlattenSeq has all the elements, no others, and none twice when the     *)
(* parts have none twice.                                                  *)
LEMMA FlattenFacts ==
    ASSUME NEW S, NEW seqs \in Seq(Seq(S))
    PROVE  FlattenSeq(seqs) \in Seq(S) /\ Joined(FlattenSeq(seqs), seqs, Len(seqs))
<1>1. CASE Len(seqs) = 0
  <2>1. FlattenSeq(seqs) = <<>>
    BY <1>1 DEF FlattenSeq
  <2> QED BY <1>1, <2>1 DEF Joined, Once
<1>2. CASE Len(seqs) # 0
  <2> DEFINE n == Len(seqs)
             flatten == CHOOSE f : f = [i \in 1..n |-> IF i = 1 THEN seqs[i]
                                                       ELSE f[i - 1] \o seqs[i]]
  <2>1. FlattenSeq(seqs) = flatten[n]
    BY <1>2 DEF FlattenSeq
  <2>2. n \in Nat /\ n # 0
    BY <1>2
  <2>3. Joins(flatten, seqs, n)
    BY <2>2, JoinsExists DEF Joins
  <2> HIDE DEF flatten
  <2> DEFINE T == {m \in 1..n : ~ (flatten[m] \in Seq(S) /\ Joined(flatten[m], seqs, m))}
  <2>4. ASSUME T # {} PROVE FALSE
    <3>1. PICK m \in T : \A i \in T : m <= i
      <4>1. T \in SUBSET Nat
        OBVIOUS
      <4> HIDE DEF T
      <4> QED BY <2>4, <4>1, Least
    <3>2. m \in 1..n /\ m \in Nat
      OBVIOUS
    <3>3. CASE m = 1
      <4>1. flatten[1] = seqs[1] /\ seqs[1] \in Seq(S) /\ Len(seqs[1]) \in Nat
        BY <2>3, <3>2, <3>3 DEF Joins
      <4>2. \A k \in 1..1 : k = 1
        OBVIOUS
      <4>3. Joined(seqs[1], seqs, 1)
        <5>1. 1 \in 1..n
          BY <3>2, <3>3
        <5> QED BY <4>1, <4>2, <5>1 DEF Joined, Apart, Once
      <4> QED BY <3>3, <4>1, <4>3
    <3>4. CASE m # 1
      <4>1. m - 1 \in 1..n /\ m - 1 # n /\ (m - 1) + 1 = m /\ m - 1 \notin T
        BY <3>1, <3>2, <3>4
      <4>2. flatten[m - 1] \in Seq(S) /\ Joined(flatten[m - 1], seqs, m - 1)
        BY <4>1
      <4>3. flatten[m] = flatten[m - 1] \o seqs[m]
        BY <2>3, <3>2, <3>4 DEF Joins
      <4>4. flatten[m] \in Seq(S) /\ Joined(flatten[m], seqs, m)
        BY <4>1, <4>2, <4>3, JoinStep
      <4> QED BY <4>4
    <3> QED BY <3>3, <3>4
  <2>5. n \in 1..n
    BY <2>2
  <2> QED BY <2>1, <2>4, <2>5
<1> QED BY <1>1, <1>2

(* A sequence has as many values as places exactly when none comes twice.  *)
LEMMA RangeCount ==
    ASSUME NEW n \in Nat, NEW T, NEW f \in [1..n -> T]
    PROVE  Cardinality(ToSet(f)) = n <=> \A p, q \in 1..n : f[p] = f[q] => p = q
<1>1. IsFiniteSet(1..n) /\ Cardinality(1..n) = n
  <2>1. /\ IsFiniteSet(1..n)
        /\ Cardinality(1..n) = IF 1 > n THEN 0 ELSE n - 1 + 1
    BY FS_Interval
  <2> QED BY <2>1
<1>2. f \in Surjection(1..n, ToSet(f))
  BY DEF Surjection, ToSet
<1>3. Cardinality(ToSet(f)) = Cardinality(1..n) <=> f \in Injection(1..n, ToSet(f))
  BY <1>1, <1>2, FS_Surjection
<1>4. f \in [1..n -> ToSet(f)]
  BY DEF ToSet
<1>5. f \in Injection(1..n, ToSet(f)) <=> \A p, q \in 1..n : f[p] = f[q] => p = q
  BY <1>4 DEF Injection, IsInjective
<1> QED BY <1>1, <1>3, <1>5

-----------------------------------------------------------------------------
(* The instance's own copies of the library's operators.                   *)
LEMMA SameOperators ==
    /\ \A s : Sampling!FlattenSeq(s) = FlattenSeq(s)
    /\ \A s : Sampling!ToSet(s) = ToSet(s)
    /\ \A s : Sampling!Cardinality(s) = Cardinality(s)
    /\ Sampling!initialCount = initialCount
<1>1. ASSUME NEW s PROVE Sampling!FlattenSeq(s) = FlattenSeq(s)
  BY Zenon DEF Sampling!FlattenSeq, FlattenSeq
<1>2. ASSUME NEW s PROVE Sampling!ToSet(s) = ToSet(s)
  BY Zenon DEF Sampling!ToSet, ToSet
<1>3. ASSUME NEW s PROVE Sampling!Cardinality(s) = Cardinality(s)
  BY Zenon DEF Sampling!Cardinality, Cardinality
<1>4. Sampling!initialCount = initialCount
  BY <1>1 DEF Sampling!initialCount, initialCount
<1> QED BY <1>1, <1>2, <1>3, <1>4

(* Every element is one of the RDD's, without replacement none twice.      *)
InRdd(x) == \E i \in 1..Len(rdd) : \E j \in 1..Len(rdd[i]) : x = rdd[i][j]
Picked(s) == /\ s \in Seq(Elements) /\ \A p \in 1..Len(s) : InRdd(s[p])
             /\ ~ withReplacement => Once(s)

LEMMA RddFacts ==
    ASSUME Sampling!DistinctElements, rdd \in Rdds
    PROVE  /\ rdd \in Seq(Seq(Elements)) /\ Apart(rdd) /\ Len(rdd) \in Nat
           /\ initialCount \in Nat /\ initialCount < MAXINT
           /\ \A i \in 1..Len(rdd) : Len(rdd[i]) \in Nat /\ Len(rdd[i]) <= initialCount
           /\ \A x : InRdd(x) => x \in ToSet(FlattenSeq(rdd))
<1>1. rdd \in Seq(Seq(Elements)) /\ initialCount < MAXINT
  BY SameOperators DEF Sampling!DistinctElements, initialCount
<1>2. \A i \in 1..Len(rdd) : rdd[i] \in Seq(Elements)
  BY <1>1
<1>3. Apart(rdd)
  <2>1. DOMAIN rdd = 1..Len(rdd) /\ \A i \in 1..Len(rdd) : DOMAIN rdd[i] = 1..Len(rdd[i])
    BY <1>1, <1>2
  <2>2. \A i, k \in DOMAIN rdd : \A j \in DOMAIN rdd[i], l \in DOMAIN rdd[k] :
           rdd[i][j] = rdd[k][l] => i = k /\ j = l
    BY DEF Sampling!DistinctElements
  <2> SUFFICES ASSUME NEW i \in 1..Len(rdd), NEW k \in 1..Len(rdd),
                      NEW j \in 1..Len(rdd[i]), NEW l \in 1..Len(rdd[k]),
                      rdd[i][j] = rdd[k][l]
               PROVE  i = k /\ j = l
    BY DEF Apart
  <2>3. i \in DOMAIN rdd /\ k \in DOMAIN rdd /\ j \in DOMAIN rdd[i] /\ l \in DOMAIN rdd[k]
    BY <2>1
  <2> QED BY <2>2, <2>3, Zenon
<1> DEFINE all == FlattenSeq(rdd)
<1>4. all \in Seq(Elements) /\ Joined(all, rdd, Len(rdd))
  BY <1>1, FlattenFacts
<1> HIDE DEF all
<1>5. ASSUME NEW x, InRdd(x) PROVE x \in ToSet(all)
  <2>1. PICK i \in 1..Len(rdd) : \E j \in 1..Len(rdd[i]) : x = rdd[i][j]
    BY <1>5 DEF InRdd
  <2>2. PICK p \in 1..Len(all) : all[p] = x
    BY <1>4, <2>1 DEF Joined
  <2> QED BY <1>4, <2>2 DEF ToSet
<1> QED BY <1>1, <1>2, <1>3, <1>4, <1>5 DEF Joined, initialCount, all

(* A draw is there for every element (rddsampler.py, func), and without    *)
(* replacement it takes the element once at most.                          *)
LEMMA DrawType ==
    ASSUME Sampling!DistinctElements, rdd \in Rdds, withReplacement \in BOOLEAN,
           NEW draws \in Sampling!Draws,
           NEW split \in 1..Len(rdd), NEW j \in 1..Len(rdd[split])
    PROVE  /\ Sampling!Draw(draws, split, j) \in Nat
           /\ ~ withReplacement => Sampling!Draw(draws, split, j) <= 1
<1>1. /\ Len(rdd) \in Nat /\ initialCount \in Nat
      /\ Len(rdd[split]) \in Nat /\ Len(rdd[split]) <= initialCount
  BY RddFacts
<1>2. (split - 1) + j \in 1..(initialCount + Len(rdd))
  BY <1>1
<1>3. draws[(split - 1) + j] \in 0..(IF withReplacement THEN MaxCopies ELSE 1)
  BY <1>2, SameOperators DEF Sampling!Draws
<1> QED BY <1>3 DEF Sampling!Draw, Sampling!DistinctElements

(* What func keeps of one split, and what all splits give together.        *)
LEMMA FuncPicks ==
    ASSUME Sampling!DistinctElements, rdd \in Rdds, withReplacement \in BOOLEAN,
           NEW draws \in Sampling!Draws,
           NEW split \in 1..Len(rdd)
    PROVE  /\ Sampling!func(draws, split) \in Seq(Elements)
           /\ \A p \in 1..Len(Sampling!func(draws, split)) :
                \E j \in 1..Len(rdd[split]) : Sampling!func(draws, split)[p] = rdd[split][j]
           /\ ~ withReplacement => Once(Sampling!func(draws, split))
<1> DEFINE part == rdd[split]
           d(j) == Sampling!Draw(draws, split, j)
           blocks == [j \in 1..Len(part) |-> [c \in 1..d(j) |-> part[j]]]
<1>1. part \in Seq(Elements) /\ Len(part) \in Nat /\ Once(part)
  BY RddFacts DEF Apart, Once
<1>2. \A j \in 1..Len(part) : d(j) \in Nat /\ (~ withReplacement => d(j) <= 1)
  BY DrawType
<1>3. Sampling!func(draws, split) = FlattenSeq(blocks)
  BY SameOperators DEF Sampling!func
<1> HIDE DEF d, part
<1>4. /\ \A j \in 1..Len(part) : /\ blocks[j] \in Seq(Elements) /\ Len(blocks[j]) = d(j)
                                 /\ \A c \in 1..d(j) : blocks[j][c] = part[j]
      /\ blocks \in Seq(Seq(Elements)) /\ Len(blocks) = Len(part)
  <2>1. ASSUME NEW j \in 1..Len(part)
        PROVE  /\ blocks[j] \in Seq(Elements) /\ Len(blocks[j]) = d(j)
               /\ \A c \in 1..d(j) : blocks[j][c] = part[j]
    <3>1. d(j) \in Nat /\ part[j] \in Elements
      BY <1>1, <1>2
    <3> QED BY <3>1
  <2>2. blocks \in [1..Len(part) -> Seq(Elements)]
    BY <2>1
  <2> HIDE DEF blocks
  <2>3. blocks \in Seq(Seq(Elements)) /\ Len(blocks) = Len(part)
    BY <1>1, <2>2
  <2> QED BY <2>1, <2>3
<1> HIDE DEF blocks
<1> DEFINE all == FlattenSeq(blocks)
<1>5. all \in Seq(Elements) /\ Joined(all, blocks, Len(blocks))
  BY <1>4, FlattenFacts
<1> HIDE DEF all
<1>6. \A p \in 1..Len(all) : \E j \in 1..Len(part) : all[p] = part[j]
  BY <1>4, <1>5 DEF Joined
<1>7. ASSUME ~ withReplacement PROVE Apart(blocks)
  <2> SUFFICES ASSUME NEW i \in 1..Len(part), NEW k \in 1..Len(part),
                      NEW j \in 1..d(i), NEW l \in 1..d(k), blocks[i][j] = blocks[k][l]
               PROVE  i = k /\ j = l
    BY <1>4 DEF Apart
  <2>1. part[i] = part[k]
    BY <1>4
  <2>2. i = k
    BY <1>1, <2>1 DEF Once
  <2>3. d(i) \in Nat /\ d(i) <= 1 /\ d(k) \in Nat /\ d(k) <= 1
    BY <1>2, <1>7
  <2> QED BY <2>2, <2>3
<1> QED BY <1>3, <1>5, <1>6, <1>7 DEF Joined, all, part

LEMMA SamplePicks ==
    ASSUME Sampling!DistinctElements, rdd \in Rdds, withReplacement \in BOOLEAN,
           NEW draws \in Sampling!Draws
    PROVE  Picked(Sampling!sample(draws))
<1> DEFINE f(i) == Sampling!func(draws, i)
           parts == [i \in 1..Len(rdd) |-> f(i)]
<1>1. rdd \in Seq(Seq(Elements)) /\ Apart(rdd) /\ Len(rdd) \in Nat
  BY RddFacts
<1>2. \A i \in 1..Len(rdd) :
         /\ f(i) \in Seq(Elements)
         /\ \A p \in 1..Len(f(i)) : \E j \in 1..Len(rdd[i]) : f(i)[p] = rdd[i][j]
         /\ ~ withReplacement => Once(f(i))
  BY FuncPicks
<1>3. Sampling!sample(draws) = FlattenSeq(parts)
  BY SameOperators DEF Sampling!sample
<1> HIDE DEF f
<1>4. /\ \A i \in 1..Len(rdd) : parts[i] = f(i)
      /\ parts \in Seq(Seq(Elements)) /\ Len(parts) = Len(rdd)
  BY <1>1, <1>2
<1> HIDE DEF parts
<1> DEFINE all == FlattenSeq(parts)
<1>5. all \in Seq(Elements) /\ Joined(all, parts, Len(parts))
  BY <1>4, FlattenFacts
<1> HIDE DEF all
<1>6. ASSUME NEW p \in 1..Len(all) PROVE InRdd(all[p])
  <2>1. PICK i \in 1..Len(rdd) : \E q \in 1..Len(f(i)) : all[p] = f(i)[q]
    <3>1. PICK i \in 1..Len(parts) : \E q \in 1..Len(parts[i]) : all[p] = parts[i][q]
      BY <1>5 DEF Joined
    <3>2. i \in 1..Len(rdd) /\ parts[i] = f(i)
      BY <1>4
    <3> QED BY <3>1, <3>2
  <2> QED BY <1>2, <2>1 DEF InRdd
<1>7. ASSUME ~ withReplacement PROVE Apart(parts)
  <2> SUFFICES ASSUME NEW i \in 1..Len(rdd), NEW k \in 1..Len(rdd),
                      NEW p \in 1..Len(f(i)), NEW q \in 1..Len(f(k)), f(i)[p] = f(k)[q]
               PROVE  i = k /\ p = q
    BY <1>4 DEF Apart
  <2>1. PICK j \in 1..Len(rdd[i]) : f(i)[p] = rdd[i][j]
    BY <1>2
  <2>2. PICK l \in 1..Len(rdd[k]) : f(k)[q] = rdd[k][l]
    BY <1>2
  <2>3. i = k
    BY <1>1, <2>1, <2>2 DEF Apart
  <2> QED BY <1>2, <1>7, <2>3 DEF Once
<1> QED BY <1>3, <1>5, <1>6, <1>7 DEF Picked, Joined, all

-----------------------------------------------------------------------------
(* A sample that ends the loop is large enough to be cut to size.          *)
SampleInv ==
    /\ rdd \in Rdds /\ withReplacement \in BOOLEAN /\ num \in Int
    /\ at \in {"sample", "shuffle"} => num >= 0
    /\ at = "shuffle" => Picked(samples) /\ ~ Sampling!Short(samples)
    /\ FixedSize

(* total is what FixedSize promises, as no RDD has sys.maxint elements.    *)
LEMMA TotalFacts ==
    ASSUME Sampling!DistinctElements, rdd \in Rdds, withReplacement \in BOOLEAN,
           num \in Int, num >= 0
    PROVE  /\ Sampling!total \in Nat
           /\ Sampling!total = IF withReplacement \/ num < initialCount THEN num
                               ELSE initialCount
<1>1. initialCount \in Nat /\ initialCount < MAXINT /\ MAXINT \in Nat
  BY RddFacts DEF Sampling!DistinctElements
<1>2. Sampling!maxSelected = initialCount
  BY <1>1, SameOperators DEF Sampling!maxSelected
<1> QED BY <1>1, <1>2, SameOperators DEF Sampling!total

(* The shuffle picks places, none twice, so it keeps elements apart.       *)
LEMMA ShuffleFixed ==
    ASSUME Sampling!DistinctElements, SampleInv, Sampling!shuffle PROVE FixedSize'
<1>1. /\ rdd \in Rdds /\ withReplacement \in BOOLEAN /\ num \in Int /\ num >= 0
      /\ Picked(samples) /\ ~ Sampling!Short(samples) /\ UNCHANGED <<rdd, withReplacement, num>>
  BY DEF SampleInv, Sampling!shuffle
<1>2. /\ Sampling!total \in Nat
      /\ Sampling!total = IF withReplacement \/ num < initialCount THEN num ELSE initialCount
  BY <1>1, TotalFacts
<1>3. samples \in Seq(Elements) /\ Len(samples) \in Nat /\ Sampling!Cut = Sampling!total
  BY <1>1, <1>2 DEF Picked, Sampling!Short, Sampling!Cut
<1>4. PICK o \in [1..Sampling!total -> 1..Len(samples)] :
         /\ Cardinality(ToSet(o)) = Sampling!total
         /\ result' = [i \in 1..Sampling!total |-> samples[o[i]]]
  BY <1>3, SameOperators DEF Sampling!shuffle, Sampling!Arrangements
<1>5. \A p, q \in 1..Sampling!total : o[p] = o[q] => p = q
  <2> DEFINE T == 1..Len(samples)
  <2>1. o \in [1..Sampling!total -> T] /\ Sampling!total \in Nat
    BY <1>2, <1>4
  <2> HIDE DEF T
  <2>2. Cardinality(ToSet(o)) = Sampling!total
          <=> \A p, q \in 1..Sampling!total : o[p] = o[q] => p = q
    BY <2>1, RangeCount
  <2> QED BY <1>4, <2>2
<1>6. /\ \A i \in 1..Sampling!total : result'[i] = samples[o[i]] /\ o[i] \in 1..Len(samples)
      /\ result' \in [1..Sampling!total -> Elements] /\ Len(result') = Sampling!total
  BY <1>2, <1>3, <1>4
<1>7. ToSet(result') \subseteq ToSet(FlattenSeq(rdd))
  <2>1. \A i \in 1..Sampling!total : InRdd(result'[i])
    BY <1>1, <1>6 DEF Picked
  <2>2. \A i \in 1..Sampling!total : result'[i] \in ToSet(FlattenSeq(rdd))
    BY <1>1, <2>1, RddFacts
  <2>3. ToSet(result') = {result'[i] : i \in 1..Sampling!total}
    BY <1>6 DEF ToSet
  <2> QED BY <2>2, <2>3
<1>8. ASSUME ~ withReplacement PROVE Cardinality(ToSet(result')) = Sampling!total
  <2>1. \A p, q \in 1..Sampling!total : result'[p] = result'[q] => p = q
    BY <1>1, <1>5, <1>6, <1>8 DEF Picked, Once
  <2> QED BY <1>2, <1>6, <2>1, RangeCount
<1> QED BY <1>1, <1>2, <1>6, <1>7, <1>8 DEF FixedSize, initialCount

LEMMA SampleStep ==
    ASSUME Sampling!DistinctElements, SampleInv, [Sampling!Next]_(Sampling!vars) PROVE SampleInv'
<1>1. CASE UNCHANGED Sampling!vars
  BY <1>1
  DEF SampleInv, Sampling!vars, Picked, InRdd, Sampling!Short, Sampling!total,
      Sampling!maxSelected, initialCount, Sampling!initialCount, FixedSize
<1>2. CASE Sampling!takeSample
  <2>1. /\ UNCHANGED <<rdd, withReplacement, num>>
        /\ at' = (IF num < 0 THEN "raised" ELSE IF initialCount = 0 THEN "done" ELSE "sample")
    BY <1>2, RddFacts, SameOperators DEF Sampling!takeSample, SampleInv
  <2> QED BY <2>1, RddFacts DEF SampleInv, FixedSize, initialCount
<1>3. CASE Sampling!Resample
  <2>1. PICK draws \in Sampling!Draws : samples' = Sampling!sample(draws)
    BY <1>3 DEF Sampling!Resample
  <2>2. /\ at = "sample" /\ at' = (IF Sampling!Short(samples') THEN "sample" ELSE "shuffle")
        /\ UNCHANGED <<rdd, withReplacement, num>>
    BY <1>3 DEF Sampling!Resample
  <2>3. Picked(samples')
    BY <2>1, SamplePicks DEF SampleInv
  <2>4. Picked(samples)' /\ (Sampling!Short(samples)' <=> Sampling!Short(samples'))
    BY <2>2, <2>3
    DEF Picked, InRdd, Sampling!Short, Sampling!total, Sampling!maxSelected,
        initialCount, Sampling!initialCount
  <2> QED BY <2>2, <2>4 DEF SampleInv, FixedSize
<1>4. CASE Sampling!shuffle
  <2>1. FixedSize'
    BY <1>4, ShuffleFixed
  <2> QED BY <1>4, <2>1 DEF SampleInv, Sampling!shuffle
<1> QED BY <1>1, <1>2, <1>3, <1>4 DEF Sampling!Next

(* RDD.takeSample, for any RDD of distinct elements in any partitions and  *)
(* whatever the generator draws: it returns num elements, or all when      *)
(* there are fewer, all of the RDD and none twice without replacement.     *)
THEOREM SampleFixed == ASSUME Sampling!DistinctElements PROVE Sampling!Spec => []FixedSize
<1>1. ASSUME Sampling!Init PROVE SampleInv
  BY <1>1 DEF Sampling!Init, SampleInv, FixedSize, Sampling!DistinctElements
<1>2. ASSUME SampleInv PROVE FixedSize
  BY <1>2 DEF SampleInv
<1> QED BY <1>1, <1>2, SampleStep, PTL DEF Sampling!Spec
=============================================================================
