------------------------ MODULE AccumulatorsProofs -------------------------
(***************************************************************************)
(* Proofs about Accumulators for any accumulators, tasks and bounds.  They *)
(* are about programs in which one thread at a time creates accumulators;  *)
(* what is said of the sums holds of the accumulators that the driver      *)
(* program and the server never added to at once, and where no copy        *)
(* arrives with the data.                                                  *)
(***************************************************************************)
EXTENDS Accumulators, FiniteSetTheorems, WellFoundedInduction, TLAPS

-----------------------------------------------------------------------------
(* The inductive invariant.                                                *)
Counters == [driver : Nat, runs : [Tasks -> Nat], reloads : Nat, errors : Nat]
Serving  == [from : Tasks, at : {"read", "between"}, next : Nat, acc : Accs, old : Nat]
Ref      == {[acc |-> a] : a \in Accs}

TypeInv ==
    /\ nextId \in Nat /\ pc \in [Accs -> {"start", "loaded", "stored", "done"}]
    /\ loaded \in [Accs -> Nat] /\ aid \in [Accs -> Int]
    /\ registry \in [Ids -> Ref \cup {None}]
    /\ value \in [Accs -> Nat] /\ due \in [Accs -> Nat]
    /\ adder \in [acc : Accs, old : Nat, term : 1..MaxAdd] \cup {None}
    /\ task \in [Tasks -> {"new", "running", "reported", "over"}]
    /\ copy \in [Tasks -> [Accs -> 0..MaxAdd]]
    /\ found \in [Tasks -> [Ids -> Ref \cup {None}]]
    /\ stale \in [Tasks -> SUBSET Accs]
    /\ batch \in [Tasks -> [Ids -> Nat]]
    /\ server \in Serving \cup {None}
    /\ raced \subseteq Accs /\ cnt \in Counters

Numbered == {a \in Accs : pc[a] \in {"stored", "done"}}

(* Creation by one thread at a time: the counter is the number of ids      *)
(* given, every accumulator has an id of its own and is found under it,    *)
(* and only the id about to be used has no accumulator yet.                *)
OneCreator == \A a, b \in Accs :
    pc[a] \in {"loaded", "stored"} /\ pc[b] \in {"loaded", "stored"} => a = b
CounterRight == /\ nextId = Cardinality(Numbered)
                /\ \A a \in Accs : pc[a] = "loaded" => loaded[a] = nextId
IdsRight ==
    /\ \A a \in Accs : IF pc[a] = "done" THEN aid[a] \in 0..(nextId - 1) ELSE aid[a] = -1
    /\ \A a, b \in Accs : pc[a] = "done" /\ pc[b] = "stored" => aid[a] # nextId - 1
RegistryRight ==
    /\ \A a \in Accs : pc[a] = "done" => aid[a] \in Ids /\ registry[aid[a]] = [acc |-> a]
    /\ \A i \in Ids : registry[i] # None => /\ pc[registry[i].acc] = "done"
                                            /\ aid[registry[i].acc] = i
    /\ \A i \in Ids : i < nextId => \/ registry[i] # None
                                    \/ i = nextId - 1 /\ \E a \in Accs : pc[a] = "stored"
CreationInv == OneCreator /\ CounterRight /\ IdsRight /\ RegistryRight

(* A task runs only when all are created, and has a copy under every id.   *)
TasksInv == \A t \in Tasks :
    /\ task[t] # "new" => Created = Accs
    /\ task[t] = "running" => \A a \in Accs : found[t][aid[a]] = [acc |-> a]

(* What either thread has read still holds when it writes, unless both     *)
(* were at it at once.                                                     *)
AddingInv == adder # None =>
    /\ adder.acc \notin raced => adder.old = value[adder.acc]
    /\ server # None /\ server.at = "read" /\ server.acc = adder.acc => adder.acc \in raced
ServingInv == server # None =>
    /\ task[server.from] = "reported"
    /\ \A i \in Ids : i < server.next => batch[server.from][i] = 0
    /\ server.at = "read" =>
          /\ server.next \in Ids /\ registry[server.next] = [acc |-> server.acc]
          /\ server.acc \notin raced => server.old = value[server.acc]

IInv == TypeInv /\ CreationInv /\ TasksInv /\ AddingInv /\ ServingInv

-----------------------------------------------------------------------------
(* An accumulator is not the value that stands for none.                   *)
LEMMA RefNotNone ==
    /\ \A a : [acc |-> a] # None /\ [acc |-> a].acc = a
    /\ \A r \in Ref : r # None /\ r.acc \in Accs /\ r = [acc |-> r.acc]
<1>1. \A a : [acc |-> a] # None
  <2> TAKE a
  <2>1. DOMAIN [acc |-> a] = {"acc"}
    OBVIOUS
  <2>2. DOMAIN None = {"none"}
    BY DEF None
  <2> QED BY <2>1, <2>2
<1> QED BY <1>1 DEF Ref

(* Counting an addition, a run, a reload or an error.                      *)
LEMMA CountersType ==
    ASSUME NEW c \in Counters
    PROVE  /\ [c EXCEPT !.driver = @ + 1] \in Counters
           /\ \A t \in Tasks : [c EXCEPT !.runs[t] = @ + 1] \in Counters
           /\ [c EXCEPT !.reloads = @ + 1] \in Counters
           /\ [c EXCEPT !.errors = @ + 1] \in Counters
           /\ [c EXCEPT !.driver = @ + 1].errors = c.errors
           /\ \A t \in Tasks : [c EXCEPT !.runs[t] = @ + 1].errors = c.errors
           /\ [c EXCEPT !.reloads = @ + 1].errors = c.errors
           /\ [c EXCEPT !.errors = @ + 1].errors = c.errors + 1
<1>1. c = [driver |-> c.driver, runs |-> c.runs, reloads |-> c.reloads, errors |-> c.errors]
  BY DEF Counters
<1>2. /\ c.driver \in Nat /\ c.runs \in [Tasks -> Nat] /\ c.reloads \in Nat
      /\ c.errors \in Nat
  BY DEF Counters
<1>3. \A t \in Tasks : [c EXCEPT !.runs[t] = @ + 1] =
         [driver |-> c.driver, runs |-> [c.runs EXCEPT ![t] = @ + 1],
          reloads |-> c.reloads, errors |-> c.errors]
  BY <1>1
<1>4. \A t \in Tasks : [c.runs EXCEPT ![t] = @ + 1] \in [Tasks -> Nat]
  BY <1>2
<1>5. [c EXCEPT !.driver = @ + 1] = [driver |-> c.driver + 1, runs |-> c.runs,
                                    reloads |-> c.reloads, errors |-> c.errors]
  BY <1>1
<1>6. [c EXCEPT !.reloads = @ + 1] = [driver |-> c.driver, runs |-> c.runs,
                                    reloads |-> c.reloads + 1, errors |-> c.errors]
  BY <1>1
<1>7. [c EXCEPT !.errors = @ + 1] = [driver |-> c.driver, runs |-> c.runs,
                                    reloads |-> c.reloads, errors |-> c.errors + 1]
  BY <1>1
<1> QED BY <1>2, <1>3, <1>4, <1>5, <1>6, <1>7 DEF Counters

LEMMA CardAccs == Cardinality(Accs) \in Nat
BY BoundsAssumption, FS_CardinalityType

(* Before any accumulator is created, no id is given and nothing is owed.  *)
LEMMA InitInv == Init => IInv
<1> SUFFICES ASSUME Init PROVE IInv
  OBVIOUS
<1> USE DEF Init
<1>0. MaxAdd \in Nat
  BY BoundsAssumption
<1>1. TypeInv
  BY <1>0 DEF TypeInv, No, Counters
<1>2. CreationInv
  <2>1. Numbered = {}
    BY DEF Numbered
  <2>2. CounterRight
    BY <2>1, FS_EmptySet DEF CounterRight
  <2> QED BY <2>2, CardAccs DEF CreationInv, OneCreator, Ids, IdsRight, RegistryRight
<1>3. TasksInv
  BY DEF TasksInv
<1> QED BY <1>1, <1>2, <1>3 DEF IInv, AddingInv, ServingInv

(* What is created is known by its id, and the ids are all in use.         *)
LEMMA AllKnown ==
    ASSUME TypeInv, CreationInv, Created = Accs
    PROVE  /\ \A a \in Accs : aid[a] \in Ids /\ registry[aid[a]] = [acc |-> a]
           /\ \A i \in Ids : /\ registry[i] # None /\ registry[i].acc \in Accs
                             /\ aid[registry[i].acc] = i
<1>1. \A a \in Accs : pc[a] = "done"
  BY DEF Created
<1>2. Numbered = Accs
  BY <1>1 DEF Numbered
<1>3. nextId = Cardinality(Accs) /\ nextId \in Nat
  BY <1>2 DEF CreationInv, CounterRight, TypeInv
<1>4. \A i \in Ids : registry[i] # None
  <2> TAKE i \in Ids
  <2>1. i < nextId
    BY <1>3 DEF Ids
  <2> QED BY <1>1, <2>1 DEF CreationInv, RegistryRight
<1>5. \A i \in Ids : registry[i] \in Ref
  BY <1>4 DEF TypeInv
<1> QED BY <1>1, <1>4, <1>5, RefNotNone DEF CreationInv, RegistryRight

-----------------------------------------------------------------------------
(* Types.                                                                  *)
LEMMA TypeStep == ASSUME IInv, Next PROVE TypeInv'
<1> USE DEF IInv
<1>0. MaxAdd \in Nat /\ Cardinality(Accs) \in Nat
  BY BoundsAssumption, CardAccs
<1>1. ASSUME NEW a \in Accs, AccumulatorLoad(a) \/ AccumulatorStore(a) PROVE TypeInv'
  <2>1. CASE AccumulatorLoad(a)
    BY <2>1 DEF TypeInv, AccumulatorLoad, worker
  <2>2. CASE AccumulatorStore(a)
    BY <2>2 DEF TypeInv, AccumulatorStore, worker
  <2> QED BY <1>1, <2>1, <2>2
<1>2. ASSUME NEW a \in Accs, AccumulatorNew(a) PROVE TypeInv'
  <2>1. registry' \in [Ids -> Ref \cup {None}]
    BY <1>2 DEF TypeInv, AccumulatorNew, Ref
  <2>2. aid' \in [Accs -> Int] /\ pc' \in [Accs -> {"start", "loaded", "stored", "done"}]
    BY <1>2 DEF TypeInv, AccumulatorNew, FreshId
  <2> QED BY <1>2, <2>1, <2>2 DEF TypeInv, AccumulatorNew, worker
<1>3. ASSUME NEW a \in Accs, NEW n \in 1..MaxAdd, DriverRead(a, n) PROVE TypeInv'
  <2>1. adder' \in [acc : Accs, old : Nat, term : 1..MaxAdd] /\ raced' \subseteq Accs
    BY <1>0, <1>3 DEF TypeInv, DriverRead
  <2>2. cnt' \in Counters
    BY <1>3, CountersType DEF TypeInv, DriverRead
  <2> QED BY <1>3, <2>1, <2>2 DEF TypeInv, DriverRead, driver, worker
<1>4. CASE DriverWrite
  <2>1. adder \in [acc : Accs, old : Nat, term : 1..MaxAdd]
    BY <1>4 DEF TypeInv, DriverWrite
  <2>2. value' \in [Accs -> Nat] /\ due' \in [Accs -> Nat]
    BY <1>0, <1>4, <2>1 DEF TypeInv, DriverWrite, AddInPlace
  <2> QED BY <1>4, <2>2 DEF TypeInv, DriverWrite, driver, worker
<1>5. ASSUME NEW t \in Tasks, TaskStart(t) PROVE TypeInv'
  <2>1. found' \in [Tasks -> [Ids -> Ref \cup {None}]]
    BY <1>5 DEF TypeInv, TaskStart, Ref
  <2>2. cnt' \in Counters
    BY <1>5, CountersType DEF TypeInv, TaskStart
  <2>3. copy' \in [Tasks -> [Accs -> 0..MaxAdd]]
    BY <1>0, <1>5 DEF TypeInv, TaskStart, Zero
  <2> QED BY <1>5, <2>1, <2>2, <2>3 DEF TypeInv, TaskStart, driver
<1>6. ASSUME NEW t \in Tasks, TaskSucceed(t) PROVE TypeInv'
  <2>0. batch' = [batch EXCEPT ![t] = Reported(t)]
    BY <1>6 DEF TaskSucceed
  <2>1. Reported(t) \in [Ids -> Nat]
    <3>1. ASSUME NEW i \in Ids, found[t][i] # None PROVE found[t][i].acc \in Accs
      BY <3>1, RefNotNone DEF TypeInv
    <3> QED BY <1>0, <3>1 DEF TypeInv, Reported
  <2>2. due' \in [Accs -> Nat]
    BY <1>0, <1>6 DEF TypeInv, TaskSucceed
  <2>3. batch' \in [Tasks -> [Ids -> Nat]]
    BY <2>0, <2>1 DEF TypeInv
  <2> QED BY <1>6, <2>2, <2>3 DEF TypeInv, TaskSucceed, driver
<1>7. ASSUME NEW t \in Tasks, TaskFail(t) PROVE TypeInv'
  BY <1>7 DEF TypeInv, TaskFail, driver
<1>8. ASSUME NEW t \in Tasks, NEW a \in Accs, Reload(t, a) PROVE TypeInv'
  BY <1>8, CountersType DEF TypeInv, Reload, driver
<1>9. ASSUME NEW t \in Tasks, NEW a \in Accs, NEW n \in 1..MaxAdd, TaskAdd(t, a, n)
      PROVE  TypeInv'
  <2>1. copy' \in [Tasks -> [Accs -> 0..MaxAdd]]
    BY <1>0, <1>9 DEF TypeInv, TaskAdd
  <2> QED BY <1>9, <2>1 DEF TypeInv, TaskAdd, driver
<1>10. ASSUME NEW t \in Tasks, NEW i \in Ids, HandleRead(t, i) PROVE TypeInv'
  <2>1. registry[i].acc \in Accs
    BY <1>10, RefNotNone DEF TypeInv, HandleRead, MoreUpdates
  <2>2. i \in Nat
    BY <1>0 DEF Ids
  <2>3. server' \in Serving /\ raced' \subseteq Accs
    BY <1>10, <2>1, <2>2 DEF TypeInv, HandleRead, Serving
  <2> QED BY <1>10, <2>3 DEF TypeInv, HandleRead, driver, worker
<1>11. ASSUME NEW t \in Tasks, HandleWrite(t) PROVE TypeInv'
  <2>1. server \in Serving
    BY <1>11 DEF TypeInv, HandleWrite
  <2>2. value' \in [Accs -> Nat] /\ batch' \in [Tasks -> [Ids -> Nat]]
    <3>1. server.next \in Ids /\ batch[t][server.next] \in Nat /\ server.old \in Nat
      BY <1>11, <2>1 DEF HandleWrite, ServingInv, TypeInv, Serving
    <3>2. server.old + batch[t][server.next] \in Nat
      BY <3>1
    <3> QED BY <1>11, <3>2 DEF TypeInv, HandleWrite, AddInPlace
  <2>3. server' \in Serving
    <3>1. server' = [from |-> server.from, at |-> "between", next |-> server.next + 1,
                     acc |-> server.acc, old |-> server.old]
      BY <1>11, <2>1 DEF HandleWrite, NextTerm, Serving
    <3> QED BY <2>1, <3>1 DEF Serving
  <2> QED BY <1>11, <2>2, <2>3 DEF TypeInv, HandleWrite, driver, worker
<1>12. ASSUME NEW t \in Tasks, HandleAck(t) PROVE TypeInv'
  BY <1>12 DEF TypeInv, HandleAck, driver
<1>13. ASSUME NEW t \in Tasks, HandleError(t) PROVE TypeInv'
  BY <1>13, CountersType DEF TypeInv, HandleError, driver
<1> QED BY <1>1, <1>2, <1>3, <1>4, <1>5, <1>6, <1>7, <1>8, <1>9, <1>10, <1>11,
           <1>12, <1>13 DEF Next

-----------------------------------------------------------------------------
(* Creation.                                                               *)
LEMMA CreationStep == ASSUME IInv, Next, ~Together PROVE CreationInv'
<1> USE DEF IInv
<1>0. Cardinality(Accs) \in Nat
  BY CardAccs
<1>1. ASSUME NEW a \in Accs, AccumulatorLoad(a) PROVE CreationInv'
  <2>1. pc' = [pc EXCEPT ![a] = "loaded"] /\ pc[a] = "start"
    BY <1>1 DEF AccumulatorLoad
  <2>2. \A b \in Accs : pc[b] \in {"start", "done"}
    BY <1>1 DEF AccumulatorLoad
  <2>3. Numbered' = Numbered
    BY <2>1 DEF Numbered, TypeInv
  <2>4. OneCreator'
    BY <2>1, <2>2 DEF OneCreator, TypeInv
  <2>5. CounterRight'
    BY <1>1, <2>1, <2>2, <2>3 DEF CreationInv, CounterRight, AccumulatorLoad, TypeInv
  <2>6. IdsRight'
    BY <1>1, <2>1, <2>2 DEF CreationInv, IdsRight, AccumulatorLoad, TypeInv
  <2>7. RegistryRight'
    <3>1. \A b \in Accs : pc'[b] = "done" <=> pc[b] = "done"
      BY <2>1 DEF TypeInv
    <3>2. \A b \in Accs : pc[b] # "stored"
      BY <2>2
    <3>3. \A i \in Ids : registry[i] # None => registry[i].acc \in Accs
      BY RefNotNone DEF TypeInv
    <3>4. UNCHANGED <<nextId, aid, registry>>
      BY <1>1 DEF AccumulatorLoad
    <3> QED BY <3>1, <3>2, <3>3, <3>4 DEF CreationInv, RegistryRight
  <2> QED BY <2>4, <2>5, <2>6, <2>7 DEF CreationInv
<1>2. ASSUME NEW a \in Accs, AccumulatorStore(a) PROVE CreationInv'
  <2>1. pc' = [pc EXCEPT ![a] = "stored"] /\ pc[a] = "loaded"
    BY <1>2 DEF AccumulatorStore
  <2>2. \A b \in Accs \ {a} : pc[b] \in {"start", "done"}
    BY <2>1 DEF CreationInv, OneCreator, TypeInv
  <2>3. nextId' = nextId + 1 /\ nextId \in Nat
    BY <1>2, <2>1 DEF AccumulatorStore, CreationInv, CounterRight, TypeInv
  <2>4. UNCHANGED <<loaded, aid, registry>>
    BY <1>2 DEF AccumulatorStore
  <2>5. OneCreator'
    BY <2>1, <2>2 DEF OneCreator, TypeInv
  <2>6. CounterRight'
    <3>1. Numbered' = Numbered \cup {a} /\ a \notin Numbered
      BY <2>1 DEF Numbered, TypeInv
    <3>2. IsFiniteSet(Numbered)
      BY BoundsAssumption, FS_Subset DEF Numbered
    <3>3. Cardinality(Numbered') = Cardinality(Numbered) + 1
      BY <3>1, <3>2, FS_AddElement
    <3>4. \A b \in Accs : pc'[b] # "loaded"
      BY <2>1, <2>2 DEF TypeInv
    <3> QED BY <2>3, <3>3, <3>4 DEF CreationInv, CounterRight
  <2>7. IdsRight'
    BY <2>1, <2>2, <2>3, <2>4 DEF CreationInv, IdsRight, TypeInv
  <2>8. RegistryRight'
    <3>1. \A b \in Accs : pc'[b] = "done" <=> pc[b] = "done"
      BY <2>1 DEF TypeInv
    <3>2. \A b \in Accs : pc[b] # "stored"
      BY <2>1, <2>2
    <3>3. \A i \in Ids : registry[i] # None => registry[i].acc \in Accs
      BY RefNotNone DEF TypeInv
    <3>4. pc'[a] = "stored"
      BY <2>1 DEF TypeInv
    <3>5. \A i \in Ids : i < nextId' => \/ registry[i] # None \/ i = nextId' - 1
      BY <1>0, <2>3, <3>2 DEF CreationInv, RegistryRight, Ids
    <3> QED BY <2>4, <3>1, <3>3, <3>4, <3>5 DEF CreationInv, RegistryRight
  <2> QED BY <2>5, <2>6, <2>7, <2>8 DEF CreationInv
<1>3. ASSUME NEW a \in Accs, AccumulatorNew(a) PROVE CreationInv'
  <2>1. /\ pc' = [pc EXCEPT ![a] = "done"] /\ pc[a] = "stored"
        /\ aid' = [aid EXCEPT ![a] = nextId - 1]
        /\ registry' = [i \in Ids |-> IF i = nextId - 1 THEN [acc |-> a] ELSE registry[i]]
        /\ UNCHANGED <<nextId, loaded>>
    BY <1>3 DEF AccumulatorNew, FreshId
  <2>2. \A b \in Accs \ {a} : pc[b] \in {"start", "done"}
    BY <2>1 DEF CreationInv, OneCreator, TypeInv
  <2>3. Numbered' = Numbered /\ a \in Numbered
    BY <2>1 DEF Numbered, TypeInv
  <2>4. nextId \in 1..Cardinality(Accs)
    <3>1. IsFiniteSet(Numbered) /\ Cardinality(Numbered) <= Cardinality(Accs)
      BY BoundsAssumption, FS_Subset DEF Numbered
    <3>2. Cardinality(Numbered) # 0 /\ Cardinality(Numbered) \in Nat
      BY <2>3, <3>1, FS_EmptySet, FS_CardinalityType
    <3> QED BY <1>0, <3>1, <3>2 DEF CreationInv, CounterRight
  <2>5. nextId - 1 \in Ids
    BY <1>0, <2>4 DEF Ids
  <2>6. OneCreator'
    BY <2>1, <2>2 DEF OneCreator, TypeInv
  <2>7. CounterRight'
    BY <2>1, <2>3 DEF CreationInv, CounterRight, TypeInv
  <2>8. IdsRight'
    BY <2>1, <2>2, <2>4 DEF CreationInv, IdsRight, TypeInv
  <2>9. RegistryRight'
    <3>1. \A b \in Accs \ {a} : pc'[b] = pc[b] /\ aid'[b] = aid[b]
      BY <2>1 DEF TypeInv
    <3>2. pc'[a] = "done" /\ aid'[a] = nextId - 1
      BY <2>1 DEF TypeInv
    <3>3. registry'[nextId - 1] = [acc |-> a]
      BY <2>1, <2>5
    <3>4. \A i \in Ids \ {nextId - 1} : registry'[i] = registry[i]
      BY <2>1
    <3>5. \A b \in Accs \ {a} : pc[b] = "done" => aid[b] # nextId - 1
      BY <2>1 DEF CreationInv, IdsRight
    <3>6. ASSUME NEW b \in Accs, pc'[b] = "done"
          PROVE  aid'[b] \in Ids /\ registry'[aid'[b]] = [acc |-> b]
      BY <2>5, <3>1, <3>2, <3>3, <3>4, <3>5, <3>6 DEF CreationInv, RegistryRight
    <3>7. ASSUME NEW i \in Ids, registry'[i] # None
          PROVE  pc'[registry'[i].acc] = "done" /\ aid'[registry'[i].acc] = i
      <4>1. CASE i = nextId - 1
        BY <3>2, <3>3, <4>1, RefNotNone
      <4>2. CASE i # nextId - 1
        <5>1. registry[i] # None /\ registry'[i] = registry[i]
          BY <3>4, <3>7, <4>2
        <5>2. registry[i].acc \in Accs /\ pc[registry[i].acc] = "done"
          BY <5>1, RefNotNone DEF CreationInv, RegistryRight, TypeInv
        <5>3. registry[i].acc # a
          BY <2>1, <5>2
        <5> QED BY <3>1, <5>1, <5>2, <5>3 DEF CreationInv, RegistryRight
      <4> QED BY <4>1, <4>2
    <3>8. ASSUME NEW i \in Ids, i < nextId' PROVE registry'[i] # None
      <4>1. CASE i = nextId - 1
        BY <3>3, <4>1, RefNotNone
      <4>2. CASE i # nextId - 1
        BY <2>1, <3>4, <3>8, <4>2 DEF CreationInv, RegistryRight
      <4> QED BY <4>1, <4>2
    <3> QED BY <3>6, <3>7, <3>8 DEF RegistryRight
  <2> QED BY <2>6, <2>7, <2>8, <2>9 DEF CreationInv
<1>4. ASSUME UNCHANGED driver PROVE CreationInv'
  BY <1>4 DEF driver, CreationInv, OneCreator, CounterRight, Numbered, IdsRight, RegistryRight
<1> QED BY <1>1, <1>2, <1>3, <1>4 DEF Next, DriverRead, DriverWrite, TaskStart,
           TaskSucceed, TaskFail, Reload, TaskAdd, HandleRead, HandleWrite, HandleAck,
           HandleError

-----------------------------------------------------------------------------
(* Tasks.  While an accumulator is being created no task has started.      *)
LEMMA NoTaskYet ==
    ASSUME IInv, NEW a \in Accs, pc[a] # "done"
    PROVE  server = None /\ \A t \in Tasks : task[t] = "new"
<1>1. a \notin Created
  BY DEF Created
<1>2. \A t \in Tasks : task[t] = "new"
  BY <1>1 DEF IInv, TasksInv
<1> QED BY <1>2 DEF IInv, ServingInv, TypeInv, Serving

LEMMA TasksStep == ASSUME IInv, Next PROVE TasksInv'
<1> USE DEF IInv
<1>1. ASSUME NEW a \in Accs, AccumulatorLoad(a) \/ AccumulatorStore(a) \/ AccumulatorNew(a)
      PROVE  TasksInv'
  <2>1. pc[a] # "done" /\ task' = task
    BY <1>1 DEF AccumulatorLoad, AccumulatorStore, AccumulatorNew, worker
  <2>2. \A t \in Tasks : task'[t] = "new"
    BY <2>1, NoTaskYet
  <2> QED BY <2>2 DEF TasksInv
<1>2. ASSUME NEW t \in Tasks, TaskStart(t) PROVE TasksInv'
  <2>1. Created = Accs /\ Created' = Created /\ UNCHANGED <<aid, registry>>
    BY <1>2 DEF TaskStart, Created, driver
  <2>2. PICK f \in [Ids -> Ref \cup {None}] :
           /\ \A i \in Ids : IF \E a \in Accs : aid[a] = i
                             THEN f[i] # None /\ aid[f[i].acc] = i ELSE f[i] = None
           /\ found' = [found EXCEPT ![t] = f]
    BY <1>2 DEF TaskStart, Ref
  <2>3. \A a \in Accs : f[aid[a]] = [acc |-> a]
    <3> TAKE a \in Accs
    <3>1. /\ aid[a] \in Ids /\ registry[aid[a]] = [acc |-> a]
          /\ \A b \in Accs : registry[aid[b]] = [acc |-> b]
      BY <2>1, AllKnown
    <3>2. f[aid[a]] # None /\ aid[f[aid[a]].acc] = aid[a]
      BY <2>2, <3>1
    <3>3. f[aid[a]] \in Ref
      BY <2>2, <3>1, <3>2
    <3>4. f[aid[a]].acc \in Accs /\ f[aid[a]] = [acc |-> f[aid[a]].acc]
      BY <3>3, RefNotNone
    <3>5. [acc |-> f[aid[a]].acc] = [acc |-> a]
      BY <3>1, <3>2, <3>4
    <3> QED BY <3>4, <3>5
  <2>4. task' = [task EXCEPT ![t] = "running"]
    BY <1>2 DEF TaskStart
  <2>5. ASSUME NEW u \in Tasks
        PROVE  /\ task'[u] # "new" => Created' = Accs
               /\ task'[u] = "running" => \A a \in Accs : found'[u][aid'[a]] = [acc |-> a]
    <3>1. CASE u = t
      BY <2>1, <2>2, <2>3, <3>1 DEF TypeInv
    <3>2. CASE u # t
      BY <2>1, <2>2, <2>4, <3>2 DEF TypeInv, TasksInv
    <3> QED BY <3>1, <3>2
  <2> QED BY <2>5 DEF TasksInv
<1>3. ASSUME NEW t \in Tasks, TaskSucceed(t) \/ TaskFail(t) \/ HandleAck(t) \/ HandleError(t)
      PROVE  TasksInv'
  <2>1. /\ UNCHANGED <<pc, aid, found>> /\ task[t] # "new"
        /\ \E s \in {"reported", "over"} : task' = [task EXCEPT ![t] = s]
    <3>1. HandleAck(t) \/ HandleError(t) => task[t] = "reported"
      BY DEF HandleAck, HandleError, ServingInv
    <3> QED BY <1>3, <3>1 DEF TaskSucceed, TaskFail, HandleAck, HandleError, driver
  <2>2. Created' = Created
    BY <2>1 DEF Created
  <2> QED BY <2>1, <2>2 DEF TasksInv, TypeInv
<1>4. ASSUME UNCHANGED <<driver, task, found>> PROVE TasksInv'
  BY <1>4 DEF TasksInv, driver, Created
<1> QED BY <1>1, <1>2, <1>3, <1>4 DEF Next, DriverRead, DriverWrite, Reload, TaskAdd,
           HandleRead, HandleWrite, worker

-----------------------------------------------------------------------------
(* Additions.                                                              *)
LEMMA AddingStep == ASSUME IInv, Next PROVE AddingInv'
<1> USE DEF IInv
<1>1. ASSUME NEW a \in Accs, NEW n \in 1..MaxAdd, DriverRead(a, n) PROVE AddingInv'
  BY <1>1 DEF AddingInv, DriverRead
<1>2. CASE DriverWrite
  BY <1>2 DEF AddingInv, DriverWrite
<1>3. ASSUME NEW t \in Tasks, NEW i \in Ids, HandleRead(t, i) PROVE AddingInv'
  <2>1. /\ server'.acc = registry[i].acc /\ UNCHANGED <<adder, value>>
        /\ raced' = IF adder # None /\ adder.acc = registry[i].acc
                    THEN raced \cup {registry[i].acc} ELSE raced
    BY <1>3 DEF HandleRead
  <2> QED BY <2>1 DEF AddingInv
<1>4. ASSUME NEW t \in Tasks, HandleWrite(t) PROVE AddingInv'
  <2>1. server \in Serving /\ server # None /\ server.at = "read"
    BY <1>4 DEF HandleWrite, TypeInv
  <2>2. /\ server'.at # "read" /\ UNCHANGED <<adder, raced>>
        /\ \A a \in Accs \ {server.acc} : value'[a] = value[a]
    BY <1>4, <2>1 DEF HandleWrite, Serving, TypeInv
  <2>3. adder # None => adder.acc \in Accs
    BY DEF TypeInv
  <2> QED BY <2>1, <2>2, <2>3 DEF AddingInv
<1>5. ASSUME NEW t \in Tasks, HandleAck(t) \/ HandleError(t) PROVE AddingInv'
  BY <1>5 DEF AddingInv, HandleAck, HandleError
<1>6. ASSUME UNCHANGED <<adder, server, value, raced>> PROVE AddingInv'
  BY <1>6 DEF AddingInv
<1> QED BY <1>1, <1>2, <1>3, <1>4, <1>5, <1>6 DEF Next, AccumulatorLoad, AccumulatorStore,
           AccumulatorNew, TaskStart, TaskSucceed, TaskFail, Reload, TaskAdd

LEMMA ServingStep == ASSUME IInv, Next PROVE ServingInv'
<1> USE DEF IInv
<1>0. Cardinality(Accs) \in Nat
  BY CardAccs
<1>1. ASSUME NEW a \in Accs, AccumulatorLoad(a) \/ AccumulatorStore(a) \/ AccumulatorNew(a)
      PROVE  ServingInv'
  <2>1. pc[a] # "done" /\ server' = server
    BY <1>1 DEF AccumulatorLoad, AccumulatorStore, AccumulatorNew
  <2> QED BY <2>1, NoTaskYet DEF ServingInv
<1>2. CASE DriverWrite
  <2>1. /\ adder # None /\ UNCHANGED <<driver, worker, batch, server, raced>>
        /\ \A a \in Accs \ {adder.acc} : value'[a] = value[a]
    BY <1>2 DEF DriverWrite, TypeInv
  <2>2. server # None => server.acc \in Accs
    BY DEF TypeInv, Serving
  <2>3. server # None /\ server.at = "read" /\ server.acc \notin raced =>
          value'[server.acc] = value[server.acc]
    BY <2>1, <2>2 DEF AddingInv
  <2> QED BY <2>1, <2>3 DEF ServingInv, driver, worker
<1>8. ASSUME NEW a \in Accs, NEW n \in 1..MaxAdd, DriverRead(a, n) PROVE ServingInv'
  <2>1. /\ UNCHANGED <<driver, worker, value, batch, server>> /\ raced \subseteq raced'
    BY <1>8 DEF DriverRead
  <2> QED BY <2>1 DEF ServingInv, driver, worker
<1>3. ASSUME NEW t \in Tasks, TaskStart(t) \/ TaskSucceed(t) \/ TaskFail(t)
      PROVE  ServingInv'
  <2>1. /\ UNCHANGED <<registry, value, server, raced>> /\ task[t] # "reported"
        /\ \A u \in Tasks \ {t} : task'[u] = task[u] /\ batch'[u] = batch[u]
    BY <1>3 DEF TaskStart, TaskSucceed, TaskFail, driver, TypeInv
  <2>2. server # None => server.from \in Tasks \ {t}
    BY <2>1 DEF ServingInv, TypeInv, Serving
  <2> QED BY <2>1, <2>2 DEF ServingInv
<1>4. ASSUME NEW t \in Tasks, NEW i \in Ids, HandleRead(t, i) PROVE ServingInv'
  <2>1. /\ UNCHANGED <<registry, value, batch, task>> /\ task[t] = "reported"
        /\ server' = [from |-> t, at |-> "read", next |-> i, acc |-> registry[i].acc,
                      old |-> value[registry[i].acc]]
        /\ registry[i] # None
    BY <1>4 DEF HandleRead, MoreUpdates, driver, worker
  <2>2. registry[i] = [acc |-> registry[i].acc]
    BY <2>1, RefNotNone DEF TypeInv
  <2>3. \A j \in Ids : j < i => batch[t][j] = 0
    <3>1. CASE server = None
      BY <1>0, <1>4, <3>1 DEF HandleRead, Ids
    <3>2. CASE server # None
      BY <1>4, <3>2 DEF HandleRead, ServingInv
    <3> QED BY <3>1, <3>2
  <2> QED BY <2>1, <2>2, <2>3 DEF ServingInv
<1>5. ASSUME NEW t \in Tasks, HandleWrite(t) PROVE ServingInv'
  <2>1. server \in Serving /\ server.from = t /\ server.at = "read"
    BY <1>5 DEF HandleWrite, TypeInv
  <2>2. /\ server'.from = t /\ server'.at = "between" /\ server'.next = server.next + 1
        /\ UNCHANGED task /\ batch' = [batch EXCEPT ![t][server.next] = 0]
    BY <1>5, <2>1 DEF HandleWrite, Serving, NextTerm, worker
  <2>3. /\ task[t] = "reported" /\ server.next \in Ids /\ server.next \in Nat
        /\ \A i \in Ids : i < server.next => batch[t][i] = 0
    BY <1>5, <2>1 DEF HandleWrite, ServingInv, Serving
  <2>4. \A i \in Ids : i < server.next + 1 => batch'[t][i] = 0
    BY <1>0, <2>2, <2>3 DEF TypeInv, Ids
  <2>5. \A i \in Ids : i < server'.next => batch'[server'.from][i] = 0
    BY <2>2, <2>4
  <2>6. task'[server'.from] = "reported" /\ server'.at # "read"
    BY <2>2, <2>3
  <2> QED BY <2>5, <2>6 DEF ServingInv
<1>6. ASSUME NEW t \in Tasks, HandleAck(t) \/ HandleError(t) PROVE ServingInv'
  BY <1>6 DEF ServingInv, HandleAck, HandleError
<1>7. ASSUME UNCHANGED <<driver, server, value, task, batch, raced>> PROVE ServingInv'
  BY <1>7 DEF ServingInv, driver
<1> QED BY <1>1, <1>2, <1>3, <1>4, <1>5, <1>6, <1>7, <1>8 DEF Next, Reload, TaskAdd, worker

(* The invariant is kept by every step.                                    *)
LEMMA NextInv == ASSUME IInv, [Next]_vars, ~Together PROVE IInv'
<1>1. CASE Next
  BY <1>1, TypeStep, CreationStep, TasksStep, AddingStep, ServingStep DEF IInv
<1>2. CASE UNCHANGED vars
  BY <1>2 DEF vars, IInv, TypeInv, CreationInv, OneCreator, CounterRight, Numbered,
     IdsRight, RegistryRight, TasksInv, Created, AddingInv, ServingInv
<1> QED BY <1>1, <1>2

-----------------------------------------------------------------------------
(* The step of the abstract accumulator that each step is.                 *)
Owed == [t \in Tasks |-> OwedTo(t)]

LEMMA OwedType == /\ IInv => Owed \in [Tasks -> [Accs -> Nat]]
                  /\ IInv' => Owed' \in [Tasks -> [Accs -> Nat]]
<1>1. IInv => Owed \in [Tasks -> [Accs -> Nat]]
  BY DEF IInv, TypeInv, Owed, OwedTo
<1>2. IInv' => Owed' \in [Tasks -> [Accs -> Nat]]
  BY DEF IInv, TypeInv, Owed, OwedTo
<1> QED BY <1>1, <1>2

(* What a task owes is not touched by a step that leaves its report alone. *)
LEMMA OwedSame ==
    ASSUME IInv, NEW t \in Tasks, aid' = aid,
           task[t] = "reported" <=> task'[t] = "reported",
           task[t] = "reported" => batch'[t] = batch[t]
    PROVE  OwedTo(t)' = OwedTo(t)
BY DEF OwedTo

(* The additions of the driver program: to what it has read, which is the  *)
(* value unless the server was at it too.                                  *)
LEMMA DriverWriteStep ==
    ASSUME IInv, DriverWrite
    PROVE  \E n \in 1..MaxAdd :
              /\ adder.acc \in Accs
              /\ value' = [value EXCEPT ![adder.acc] = adder.old + n]
              /\ due' = [due EXCEPT ![adder.acc] = @ + n]
              /\ adder.acc \notin raced => adder.old = value[adder.acc]
              /\ UNCHANGED <<Owed, server, raced, cnt>>
<1>1. adder \in [acc : Accs, old : Nat, term : 1..MaxAdd] /\ adder # None
  BY DEF IInv, TypeInv, DriverWrite
<1>2. value' = [value EXCEPT ![adder.acc] = adder.old + adder.term]
  BY <1>1 DEF DriverWrite, AddInPlace
<1>3. UNCHANGED <<Owed, server, raced, cnt>>
  BY DEF DriverWrite, driver, worker, Owed, OwedTo
<1>4. adder.acc \in Accs /\ adder.term \in 1..MaxAdd
  BY <1>1
<1> QED BY <1>1, <1>2, <1>3, <1>4 DEF DriverWrite, IInv, AddingInv

(* A task that succeeds owes every accumulator what its copy holds, unless *)
(* the copy was replaced.                                                  *)
LEMMA SucceedStep ==
    ASSUME IInv, NEW t \in Tasks, TaskSucceed(t)
    PROVE  /\ Owed[t] = [a \in Accs |-> 0]
           /\ Owed' = [Owed EXCEPT ![t] =
                         [a \in Accs |-> IF a \in stale[t] THEN 0 ELSE copy[t][a]]]
           /\ due' = [a \in Accs |-> due[a] + copy[t][a]]
           /\ UNCHANGED <<value, adder, server, raced, cnt>>
<1> USE DEF IInv
<1>1. task[t] = "running" /\ UNCHANGED <<aid, value, cnt>>
  BY DEF TaskSucceed, driver
<1>2. Owed[t] = [a \in Accs |-> 0]
  BY <1>1 DEF Owed, OwedTo
<1>3. \A a \in Accs : aid[a] \in Ids /\ found[t][aid[a]] = [acc |-> a]
  <2>1. Created = Accs
    BY <1>1 DEF TasksInv
  <2> QED BY <1>1, <2>1, AllKnown DEF TasksInv
<1>4. task'[t] = "reported" /\ batch'[t] = Reported(t)
  BY DEF TaskSucceed, TypeInv
<1>5. \A a \in Accs : batch'[t][aid[a]] = IF a \in stale[t] THEN 0 ELSE copy[t][a]
  <2> TAKE a \in Accs
  <2>1. found[t][aid[a]] # None /\ found[t][aid[a]].acc = a
    BY <1>3, RefNotNone
  <2>2. batch'[t][aid[a]] = Reported(t)[aid[a]] /\ aid[a] \in Ids
    BY <1>3, <1>4
  <2> QED BY <2>1, <2>2 DEF Reported
<1>6. OwedTo(t)' = [a \in Accs |-> IF a \in stale[t] THEN 0 ELSE copy[t][a]]
  BY <1>1, <1>3, <1>4, <1>5 DEF OwedTo
<1>7. ASSUME NEW u \in Tasks \ {t} PROVE OwedTo(u)' = OwedTo(u)
  BY <1>1, OwedSame DEF TaskSucceed, TypeInv
<1> QED BY <1>1, <1>2, <1>6, <1>7 DEF Owed, TaskSucceed

(* The server pays one accumulator what one task owes it.                  *)
LEMMA PayStep ==
    ASSUME IInv, NEW t \in Tasks, HandleWrite(t)
    PROVE  /\ server.acc \in Accs
           /\ value' = [value EXCEPT ![server.acc] = server.old + Owed[t][server.acc]]
           /\ Owed' = [Owed EXCEPT ![t][server.acc] = 0]
           /\ server.acc \notin raced => server.old = value[server.acc]
           /\ server # None /\ server.at = "read"
           /\ server' # None /\ server'.at = "between"
           /\ UNCHANGED <<due, adder, raced, cnt>>
<1> USE DEF IInv
<1> DEFINE a == server.acc
<1>1. server \in Serving /\ server.from = t /\ server.at = "read" /\ server # None
  BY DEF HandleWrite, TypeInv
<1>2. /\ task[t] = "reported" /\ server.next \in Ids
      /\ registry[server.next] = [acc |-> a] /\ a \in Accs
      /\ a \notin raced => server.old = value[a]
  BY <1>1 DEF ServingInv, Serving
<1>3. /\ UNCHANGED <<task, aid, due, adder, raced, cnt>>
      /\ batch' = [batch EXCEPT ![t][server.next] = 0]
  BY DEF HandleWrite, driver, worker
<1>4. /\ aid[a] = server.next
      /\ \A b \in Accs : aid[b] \in Ids /\ (aid[b] = server.next => b = a)
  <2>1. Created = Accs
    BY <1>2 DEF TasksInv
  <2>2. aid[a] = server.next
    BY <1>2, <2>1, AllKnown, RefNotNone
  <2>3. \A b \in Accs : registry[aid[b]] = [acc |-> b] /\ aid[b] \in Ids
    BY <2>1, AllKnown
  <2>4. \A b \in Accs : aid[b] = server.next => [acc |-> b] = [acc |-> a]
    BY <1>2, <2>3
  <2> QED BY <2>2, <2>3, <2>4, RefNotNone
<1>5. Owed[t][a] = batch[t][server.next]
  BY <1>2, <1>4 DEF Owed, OwedTo
<1>6. value' = [value EXCEPT ![a] = server.old + Owed[t][a]]
  BY <1>1, <1>5 DEF HandleWrite, AddInPlace
<1>7. OwedTo(t)' = [OwedTo(t) EXCEPT ![a] = 0]
  BY <1>2, <1>3, <1>4 DEF OwedTo, TypeInv
<1>8. ASSUME NEW u \in Tasks \ {t} PROVE OwedTo(u)' = OwedTo(u)
  BY <1>3, OwedSame DEF TypeInv
<1>9. Owed' = [Owed EXCEPT ![t][a] = 0]
  BY <1>7, <1>8 DEF Owed
<1>10. server' # None /\ server'.at = "between"
  <2>1. server' = [from |-> server.from, at |-> "between", next |-> NextTerm(server.next),
                   acc |-> server.acc, old |-> server.old]
    BY <1>1 DEF HandleWrite, Serving
  <2>2. DOMAIN server' # DOMAIN None
    BY <2>1 DEF None
  <2> QED BY <2>1, <2>2
<1> QED BY <1>1, <1>2, <1>3, <1>6, <1>9, <1>10

(* An acknowledged report was paid in full.                                *)
LEMMA AckStep ==
    ASSUME IInv, NEW t \in Tasks, HandleAck(t)
    PROVE  UNCHANGED <<Owed, Readings, value, due, raced, cnt>>
<1> USE DEF IInv
<1>1. server \in Serving /\ server.from = t /\ server # None
  BY DEF HandleAck, TypeInv
<1>2. task[t] = "reported" /\ \A i \in Ids : i < server.next => batch[t][i] = 0
  BY <1>1 DEF ServingInv
<1>3. \A a \in Accs : aid[a] \in Ids /\ aid[a] < server.next
  <2>1. Created = Accs
    BY <1>2 DEF TasksInv
  <2>2. server.next \notin Ids
    BY <2>1, AllKnown DEF HandleAck, MoreUpdates
  <2>3. \A i \in Ids : i < server.next
    BY <1>1, <2>2, CardAccs DEF Serving, Ids
  <2> QED BY <2>1, <2>3, AllKnown
<1>4. OwedTo(t) = [a \in Accs |-> 0]
  BY <1>2, <1>3 DEF OwedTo
<1>5. OwedTo(t)' = [a \in Accs |-> 0]
  BY DEF OwedTo, HandleAck, TypeInv
<1>6. ASSUME NEW u \in Tasks \ {t} PROVE OwedTo(u)' = OwedTo(u)
  BY OwedSame DEF HandleAck, driver, TypeInv
<1>7. Readings' = Readings
  BY DEF Readings, Reading, HandleAck
<1> QED BY <1>4, <1>5, <1>6, <1>7 DEF Owed, HandleAck

(* An error ends what is left of one report.                               *)
LEMMA ErrorStep ==
    ASSUME IInv, NEW t \in Tasks, HandleError(t)
    PROVE  /\ Owed' = [Owed EXCEPT ![t] = [a \in Accs |-> 0]]
           /\ cnt'.errors = cnt.errors + 1 /\ UNCHANGED <<value, adder>>
           /\ server # None /\ server.at = "read" /\ server' = None
<1> USE DEF IInv
<1>1. OwedTo(t)' = [a \in Accs |-> 0]
  BY DEF OwedTo, HandleError, TypeInv
<1>2. ASSUME NEW u \in Tasks \ {t} PROVE OwedTo(u)' = OwedTo(u)
  BY OwedSame DEF HandleError, driver, TypeInv
<1>3. cnt'.errors = cnt.errors + 1
  BY CountersType DEF HandleError, TypeInv
<1> QED BY <1>1, <1>2, <1>3 DEF Owed, HandleError

(* What the driver program reads, and what the server reads.               *)
LEMMA DriverReadStep ==
    ASSUME IInv, NEW a \in Accs, NEW n \in 1..MaxAdd, DriverRead(a, n)
    PROVE  /\ adder = None /\ adder' # None /\ adder'.acc = a /\ adder'.old = value[a]
           /\ raced \subseteq raced'
           /\ UNCHANGED <<Owed, server, value, due, cnt.errors>>
<1>1. cnt'.errors = cnt.errors
  BY CountersType DEF DriverRead, IInv, TypeInv
<1>2. adder' = [acc |-> a, old |-> value[a], term |-> n]
  BY DEF DriverRead
<1>3. DOMAIN adder' # DOMAIN None
  BY <1>2 DEF None
<1> QED BY <1>1, <1>2, <1>3 DEF DriverRead, driver, worker, Owed, OwedTo

LEMMA HandleReadStep ==
    ASSUME IInv, NEW t \in Tasks, NEW i \in Ids, HandleRead(t, i)
    PROVE  /\ server = None \/ server.at = "between"
           /\ server' # None /\ server'.at = "read" /\ server'.acc \in Accs
           /\ server'.old = value[server'.acc]
           /\ raced \subseteq raced'
           /\ UNCHANGED <<Owed, adder, value, due, cnt>>
<1>1. registry[i].acc \in Accs
  BY RefNotNone DEF IInv, TypeInv, HandleRead, MoreUpdates
<1>2. server' = [from |-> t, at |-> "read", next |-> i, acc |-> registry[i].acc,
                 old |-> value[registry[i].acc]]
  BY DEF HandleRead
<1>3. DOMAIN server' # DOMAIN None
  BY <1>2 DEF None
<1> QED BY <1>1, <1>2, <1>3 DEF HandleRead, driver, worker, Owed, OwedTo

(* Every other step leaves values, debts and errors as they are.           *)
LEMMA QuietStep ==
    ASSUME IInv,
           \/ \E a \in Accs : AccumulatorLoad(a) \/ AccumulatorStore(a) \/ AccumulatorNew(a)
           \/ \E t \in Tasks :
                 \/ TaskStart(t) \/ TaskFail(t)
                 \/ \E a \in Accs : Reload(t, a) \/ \E n \in 1..MaxAdd : TaskAdd(t, a, n)
           \/ UNCHANGED vars
    PROVE  UNCHANGED <<Owed, adder, server, value, due, raced, cnt.errors>>
<1> USE DEF IInv
<1>1. ASSUME NEW a \in Accs, AccumulatorLoad(a) \/ AccumulatorStore(a) \/ AccumulatorNew(a)
      PROVE  UNCHANGED <<Owed, adder, server, value, due, raced, cnt>>
  <2>1. pc[a] # "done" /\ UNCHANGED <<task, adder, server, value, due, raced, cnt>>
    BY <1>1 DEF AccumulatorLoad, AccumulatorStore, AccumulatorNew, worker
  <2>2. \A t \in Tasks : task[t] = "new" /\ task'[t] = "new"
    BY <2>1, NoTaskYet
  <2>3. \A t \in Tasks : OwedTo(t) = [b \in Accs |-> 0] /\ OwedTo(t)' = [b \in Accs |-> 0]
    BY <2>2 DEF OwedTo
  <2> QED BY <2>1, <2>3 DEF Owed
<1>3. ASSUME NEW t \in Tasks, TaskStart(t) \/ TaskFail(t)
      PROVE  UNCHANGED <<Owed, adder, server, value, due, raced, cnt.errors>>
  <2>1. /\ UNCHANGED <<aid, batch, adder, server, value, due, raced>> /\ task[t] # "reported"
        /\ task'[t] # "reported" /\ \A u \in Tasks \ {t} : task'[u] = task[u]
    BY <1>3 DEF TaskStart, TaskFail, driver, TypeInv
  <2>2. cnt'.errors = cnt.errors
    <3>1. CASE TaskStart(t)
      BY <3>1, CountersType DEF TaskStart, TypeInv
    <3>2. CASE TaskFail(t)
      BY <3>2 DEF TaskFail
    <3> QED BY <1>3, <3>1, <3>2
  <2>3. \A u \in Tasks : OwedTo(u)' = OwedTo(u)
    BY <2>1, OwedSame
  <2> QED BY <2>1, <2>2, <2>3 DEF Owed
<1>4. ASSUME NEW t \in Tasks, NEW a \in Accs, Reload(t, a)
      PROVE  UNCHANGED <<Owed, adder, server, value, due, raced, cnt.errors>>
  BY <1>4, CountersType DEF Reload, driver, Owed, OwedTo, TypeInv
<1>5. ASSUME NEW t \in Tasks, NEW a \in Accs, NEW n \in 1..MaxAdd, TaskAdd(t, a, n)
      PROVE  UNCHANGED <<Owed, adder, server, value, due, raced, cnt>>
  BY <1>5 DEF TaskAdd, driver, Owed, OwedTo
<1>7. ASSUME UNCHANGED vars PROVE UNCHANGED <<Owed, adder, server, value, due, raced, cnt>>
  BY <1>7 DEF vars, Owed, OwedTo
<1> QED BY <1>1, <1>3, <1>4, <1>5, <1>7

(* accumulators.py, however the driver program and the server interleave:  *)
(* every change of a value is one whole term of the driver program or of   *)
(* a successful task, added to what was read; every term a task reports is *)
(* paid once, to the accumulator it is for, before the acknowledgement.    *)
(* The code implements the abstract accumulator.                           *)
THEOREM Implements == ASSUME ~Together PROVE Spec => ImplementsSpec
<1>1. Init => A!Init
  BY DEF Init, A!Init, A!Nothing, A!None, None, No, OwedTo, Readings
<1>2. ASSUME IInv, [Next]_vars PROVE [A!Next]_(A!specVars)
  <2> USE DEF A!specVars
  <2>0. /\ Readings.driver = IF adder = None THEN None ELSE Reading(adder)
        /\ Readings.server = IF server = None \/ server.at # "read" THEN None
                             ELSE Reading(server)
        /\ \A x : Reading(x) # None
        /\ A!None = None
    <3>1. ASSUME NEW x PROVE Reading(x) # None
      <4>1. DOMAIN Reading(x) # DOMAIN None
        BY DEF Reading, None
      <4> QED BY <4>1
    <3> QED BY <3>1 DEF Readings, A!None, None
  <2>1. CASE DriverWrite
    <3>1. PICK n \in 1..MaxAdd :
             /\ value' = [value EXCEPT ![adder.acc] = adder.old + n]
             /\ UNCHANGED <<Owed, server, cnt>>
      BY <1>2, <2>1, DriverWriteStep
    <3>2. adder # None /\ adder' = None
      BY <2>1 DEF DriverWrite
    <3>3. Readings' = [Readings EXCEPT !.driver = None]
      BY <3>1, <3>2 DEF Readings
    <3>4. Readings.driver = Reading(adder) /\ Reading(adder) # None
      BY <2>0, <3>2
    <3>7. /\ Readings.driver # A!None /\ Readings.driver.acc = adder.acc
          /\ Readings.driver.old = adder.old
      BY <2>0, <3>4 DEF Reading
    <3>5. A!DriverAdds(n)
      BY <2>0, <3>1, <3>3, <3>7 DEF A!DriverAdds, Owed
    <3>6. n \in 0..MaxAdd
      BY BoundsAssumption
    <3> QED BY <3>5, <3>6 DEF A!Next
  <2>2. ASSUME NEW a \in Accs, NEW n \in 1..MaxAdd, DriverRead(a, n) PROVE A!Next
    <3>1. /\ adder = None /\ adder' # None /\ adder'.acc = a /\ adder'.old = value[a]
          /\ UNCHANGED <<Owed, server, value, cnt.errors>>
      BY <1>2, <2>2, DriverReadStep
    <3>2. Readings' = [Readings EXCEPT !.driver = [acc |-> a, old |-> value[a]]]
      BY <3>1 DEF Readings, Reading
    <3>3. A!DriverReads(a)
      BY <2>0, <3>1, <3>2 DEF A!DriverReads, A!Read, Owed
    <3> QED BY <3>3 DEF A!Next
  <2>3. ASSUME NEW t \in Tasks, NEW i \in Ids, HandleRead(t, i) PROVE A!Next
    <3>1. /\ server = None \/ server.at = "between"
          /\ server' # None /\ server'.at = "read" /\ server'.acc \in Accs
          /\ server'.old = value[server'.acc] /\ UNCHANGED <<Owed, adder, value, cnt>>
      BY <1>2, <2>3, HandleReadStep
    <3>2. Readings' = [Readings EXCEPT !.server =
                         [acc |-> server'.acc, old |-> value[server'.acc]]]
      BY <3>1 DEF Readings, Reading
    <3>3. A!ServerReads(server'.acc)
      BY <2>0, <3>1, <3>2 DEF A!ServerReads, A!Read, Owed
    <3> QED BY <3>1, <3>3 DEF A!Next
  <2>4. ASSUME NEW t \in Tasks, TaskSucceed(t) PROVE A!Next
    <3> DEFINE terms == [a \in Accs |-> IF a \in stale[t] THEN 0 ELSE copy[t][a]]
    <3>1. terms \in [Accs -> 0..MaxAdd]
      BY <1>2, BoundsAssumption DEF IInv, TypeInv
    <3>2. /\ Owed[t] = A!Nothing /\ Owed' = [Owed EXCEPT ![t] = terms]
          /\ UNCHANGED <<value, adder, server, cnt>>
      BY <1>2, <2>4, SucceedStep DEF A!Nothing
    <3>3. A!Succeed(t, terms)
      BY <3>2 DEF A!Succeed, Owed, Readings, Reading
    <3> QED BY <3>1, <3>3 DEF A!Next
  <2>5. ASSUME NEW t \in Tasks, HandleWrite(t) PROVE A!Next
    <3> DEFINE a == server.acc
    <3>1. /\ a \in Accs /\ value' = [value EXCEPT ![a] = server.old + Owed[t][a]]
          /\ Owed' = [Owed EXCEPT ![t][a] = 0]
          /\ server # None /\ server.at = "read" /\ server' # None /\ server'.at = "between"
          /\ UNCHANGED <<adder, cnt>>
      BY <1>2, <2>5, PayStep
    <3>2. Readings' = [Readings EXCEPT !.server = None]
      BY <3>1 DEF Readings
    <3>3. Readings.server = Reading(server)
      BY <2>0, <3>1
    <3>4. A!Pay(t, a)
      BY <2>0, <3>1, <3>2, <3>3 DEF A!Pay, Owed, Reading
    <3> QED BY <3>1, <3>4 DEF A!Next
  <2>6. ASSUME NEW t \in Tasks, HandleError(t) PROVE A!Next
    <3>1. /\ Owed' = [Owed EXCEPT ![t] = A!Nothing] /\ cnt'.errors = cnt.errors + 1
          /\ UNCHANGED <<value, adder>>
          /\ server # None /\ server.at = "read" /\ server' = None
      BY <1>2, <2>6, ErrorStep DEF A!Nothing
    <3>2. Readings' = [Readings EXCEPT !.server = None]
      BY <3>1 DEF Readings
    <3>3. A!GiveUp(t)
      BY <2>0, <3>1, <3>2 DEF A!GiveUp, Owed
    <3> QED BY <3>3 DEF A!Next
  <2>7. ASSUME NEW t \in Tasks, HandleAck(t) PROVE UNCHANGED A!specVars
    BY <1>2, <2>7, AckStep DEF Owed
  <2>8. CASE UNCHANGED <<Owed, adder, server, value, cnt.errors>>
    BY <2>8 DEF Owed, Readings
  <2> QED BY <1>2, <2>1, <2>2, <2>3, <2>4, <2>5, <2>6, <2>7, <2>8, QuietStep DEF Next
<1> QED BY <1>1, <1>2, InitInv, NextInv, PTL DEF Spec, ImplementsSpec, A!Spec

-----------------------------------------------------------------------------
(* Sums over the tasks.  Sums(f, n, s): s is the sum of f[1..n], with the  *)
(* partial sums as the witness, so that no recursive definition is needed. *)
Sums(f, n, s) == \E p \in [0..n -> Int] :
    p[0] = 0 /\ p[n] = s /\ \A k \in 1..n : p[k] = p[k - 1] + f[k]

LEMMA SumOfZeros ==
    ASSUME NEW n \in Nat, NEW f, \A k \in 1..n : f[k] = 0 PROVE Sums(f, n, 0)
<1> DEFINE p == [k \in 0..n |-> 0]
<1>1. p \in [0..n -> Int] /\ p[0] = 0 /\ p[n] = 0
  OBVIOUS
<1>2. \A k \in 1..n : p[k] = p[k - 1] + f[k]
  OBVIOUS
<1> QED BY <1>1, <1>2 DEF Sums

LEMMA SumChanges ==
    ASSUME NEW n \in Nat, NEW f \in [1..n -> Int], NEW g \in [1..n -> Int],
           NEW j \in 1..n, \A k \in (1..n) \ {j} : g[k] = f[k],
           NEW s \in Int, Sums(f, n, s)
    PROVE  Sums(g, n, s + g[j] - f[j])
<1> PICK p \in [0..n -> Int] :
       p[0] = 0 /\ p[n] = s /\ \A k \in 1..n : p[k] = p[k - 1] + f[k]
  BY DEF Sums
<1> DEFINE q == [k \in 0..n |-> IF k < j THEN p[k] ELSE p[k] + g[j] - f[j]]
<1>1. q \in [0..n -> Int] /\ q[0] = 0 /\ q[n] = s + g[j] - f[j]
  <2>1. 0 \in 0..n /\ n \in 0..n /\ 0 < j /\ ~ (n < j) /\ g[j] \in Int /\ f[j] \in Int
    OBVIOUS
  <2>2. \A k \in 0..n : p[k] \in Int /\ p[k] + g[j] - f[j] \in Int
    BY <2>1
  <2>3. q \in [0..n -> Int]
    BY <2>2
  <2> QED BY <2>1, <2>3
<1>2. ASSUME NEW k \in 1..n PROVE q[k] = q[k - 1] + g[k]
  <2>1. k \in 0..n /\ k - 1 \in 0..n /\ p[k] \in Int /\ p[k - 1] \in Int
    OBVIOUS
  <2>2. p[k] = p[k - 1] + f[k]
    OBVIOUS
  <2>3. CASE k < j
    BY <2>1, <2>2, <2>3
  <2>4. CASE k = j
    BY <2>1, <2>2, <2>4
  <2>5. CASE k > j
    BY <2>1, <2>2, <2>5
  <2> QED BY <2>3, <2>4, <2>5
<1> QED BY <1>1, <1>2 DEF Sums

(* The least index whose partial sum is not zero would have a term.        *)
LEMMA ZerosSumToZero ==
    ASSUME NEW n \in Nat, NEW f, \A k \in 1..n : f[k] = 0, NEW s, Sums(f, n, s)
    PROVE  s = 0
<1> PICK p \in [0..n -> Int] :
       p[0] = 0 /\ p[n] = s /\ \A k \in 1..n : p[k] = p[k - 1] + f[k]
  BY DEF Sums
<1> DEFINE T == {k \in 0..n : p[k] # 0}
<1>1. CASE T = {}
  BY <1>1
<1>2. CASE T # {}
  <2>1. T \subseteq Nat
    OBVIOUS
  <2>2. PICK k \in T : \A i \in T : ~ (<<i, k>> \in OpToRel(<, Nat))
    <3> HIDE DEF T
    <3> QED BY <1>2, <2>1, NatLessThanWellFounded, WFMin
  <2>3. k \in 1..n /\ p[k] # 0 /\ p[k] = p[k - 1]
    OBVIOUS
  <2>4. k - 1 \in T
    BY <2>3
  <2>5. <<k - 1, k>> \in OpToRel(<, Nat)
    BY <2>3 DEF OpToRel
  <2> QED BY <2>2, <2>4, <2>5
<1> QED BY <1>1, <1>2

-----------------------------------------------------------------------------
(* The account: what the driver program and the successful tasks added to  *)
(* an accumulator is its value and what the tasks still owe it, if the two *)
(* threads never added to it at once.                                      *)
NumTasks == Cardinality(Tasks)
Order == CHOOSE e : e \in Bijection(1..NumTasks, Tasks)
Debts(a) == [k \in 1..NumTasks |-> Owed[Order[k]][a]]

Balanced ==
    cnt.errors = 0 => \A a \in Accs \ raced : Sums(Debts(a), NumTasks, due[a] - value[a])
NoReload == cnt.reloads = 0 /\ stale = [t \in Tasks |-> {}]
Account  == IInv /\ Balanced /\ NoReload

LEMMA OrderType ==
    ASSUME IsFiniteSet(Tasks)
    PROVE  /\ NumTasks \in Nat /\ Order \in [1..NumTasks -> Tasks]
           /\ \A t \in Tasks : \E j \in 1..NumTasks :
                 Order[j] = t /\ \A k \in (1..NumTasks) \ {j} : Order[k] # t
<1>1. NumTasks \in Nat /\ ExistsBijection(1..NumTasks, Tasks)
  BY FS_CardinalityType DEF NumTasks
<1>2. Order \in Bijection(1..NumTasks, Tasks)
  BY <1>1 DEF ExistsBijection, Order
<1> QED BY <1>1, <1>2 DEF Bijection, Injection, Surjection, IsInjective

(* One debt and the difference of what is due and what is held change      *)
(* together.                                                               *)
LEMMA BalanceStep ==
    ASSUME IsFiniteSet(Tasks), IInv, IInv', Balanced, cnt.errors = 0,
           NEW t \in Tasks, NEW a \in Accs \ raced,
           \A u \in Tasks \ {t} : Owed'[u][a] = Owed[u][a],
           due'[a] - value'[a] = due[a] - value[a] + Owed'[t][a] - Owed[t][a]
    PROVE  Sums(Debts(a)', NumTasks, due'[a] - value'[a])
<1> DEFINE f == Debts(a)
           g == Debts(a)'
<1>1. PICK j \in 1..NumTasks : Order[j] = t /\ \A k \in (1..NumTasks) \ {j} : Order[k] # t
  BY OrderType
<1>2. f \in [1..NumTasks -> Int] /\ g \in [1..NumTasks -> Int] /\ NumTasks \in Nat
  BY OrderType, OwedType DEF Debts
<1>3. \A k \in (1..NumTasks) \ {j} : g[k] = f[k]
  BY <1>1, OrderType DEF Debts
<1>4. g[j] = Owed'[t][a] /\ f[j] = Owed[t][a]
  BY <1>1 DEF Debts
<1>5. due[a] - value[a] \in Int /\ Sums(f, NumTasks, due[a] - value[a])
  BY DEF IInv, TypeInv, Balanced
<1> HIDE DEF f, g
<1>6. Sums(g, NumTasks, due[a] - value[a] + g[j] - f[j])
  BY <1>2, <1>3, <1>5, SumChanges
<1>7. Sums(g, NumTasks, due'[a] - value'[a])
  BY <1>4, <1>6
<1> QED BY <1>7 DEF g

LEMMA AccountInit == ASSUME IsFiniteSet(Tasks), Init PROVE Account
<1>1. IInv
  BY InitInv
<1>2. \A a \in Accs, k \in 1..NumTasks : Debts(a)[k] = 0
  BY OrderType DEF Debts, Owed, OwedTo, Init
<1>3. \A a \in Accs : Sums(Debts(a), NumTasks, 0)
  BY <1>2, OrderType, SumOfZeros
<1>4. \A a \in Accs : due[a] - value[a] = 0
  BY DEF Init, No
<1> QED BY <1>1, <1>3, <1>4 DEF Account, Balanced, NoReload, Init

LEMMA ReloadStep == ASSUME IInv, NoReload, [Next]_vars, MaxReloads = 0 PROVE NoReload'
<1>1. cnt \in Counters
  BY DEF IInv, TypeInv
<1>2. ASSUME NEW t \in Tasks, TaskStart(t) PROVE NoReload'
  <2>1. cnt'.reloads = cnt.reloads
    BY <1>1, <1>2 DEF TaskStart, Counters
  <2> QED BY <1>2, <2>1 DEF NoReload, TaskStart
<1>3. ASSUME NEW t \in Tasks, NEW a \in Accs, Reload(t, a) PROVE FALSE
  BY <1>1, <1>3 DEF NoReload, Reload
<1>4. ASSUME NEW a \in Accs, NEW n \in 1..MaxAdd, DriverRead(a, n) PROVE NoReload'
  BY <1>1, <1>4 DEF NoReload, DriverRead, Counters, worker
<1>5. ASSUME NEW t \in Tasks, HandleError(t) PROVE NoReload'
  BY <1>1, <1>5 DEF NoReload, HandleError, Counters
<1>6. ASSUME UNCHANGED <<stale, cnt>> PROVE NoReload'
  BY <1>6 DEF NoReload
<1> QED BY <1>2, <1>3, <1>4, <1>5, <1>6 DEF Next, vars, worker, AccumulatorLoad,
           AccumulatorStore, AccumulatorNew, DriverWrite, TaskSucceed, TaskFail, TaskAdd,
           HandleRead, HandleWrite, HandleAck

LEMMA AccountStep ==
    ASSUME IsFiniteSet(Tasks), ~Together, MaxReloads = 0, Account, [Next]_vars
    PROVE  Account'
<1>0. IInv /\ IInv' /\ NoReload'
  BY NextInv, ReloadStep DEF Account
<1>1. \A u \in Tasks, a \in Accs : Owed[u][a] \in Nat /\ Owed'[u][a] \in Nat
  BY <1>0, OwedType
<1>2. \A a \in Accs : /\ value[a] \in Nat /\ due[a] \in Nat
                       /\ value'[a] \in Nat /\ due'[a] \in Nat
  BY <1>0 DEF IInv, TypeInv
<1>3. SUFFICES ASSUME cnt'.errors = 0, NEW a \in Accs \ raced'
               PROVE  Sums(Debts(a)', NumTasks, due'[a] - value'[a])
  BY <1>0 DEF Account, Balanced
<1>11. a \in Accs /\ (raced \subseteq raced' => a \notin raced)
  OBVIOUS
<1>4. ASSUME raced \subseteq raced', cnt.errors = 0, Owed' = Owed, due'[a] - value'[a] = due[a] - value[a]
      PROVE  Sums(Debts(a)', NumTasks, due'[a] - value'[a])
  <2>1. Debts(a)' = Debts(a)
    BY <1>4 DEF Debts
  <2> QED BY <1>4, <1>11, <2>1 DEF Account, Balanced
<1>5. CASE DriverWrite
  <2> DEFINE b == adder.acc
  <2>1. PICK n \in 1..MaxAdd :
           /\ b \in Accs /\ value' = [value EXCEPT ![b] = adder.old + n]
           /\ due' = [due EXCEPT ![b] = @ + n] /\ (b \notin raced => adder.old = value[b])
           /\ UNCHANGED <<Owed, raced, cnt>>
    BY <1>0, <1>5, DriverWriteStep
  <2>2. n \in Nat
    BY BoundsAssumption
  <2>3. due'[a] - value'[a] = due[a] - value[a]
    <3>1. value \in [Accs -> Nat] /\ due \in [Accs -> Nat]
      BY <1>0 DEF IInv, TypeInv
    <3>2. CASE a = b
      <4>1. value'[a] = value[a] + n /\ due'[a] = due[a] + n
        BY <1>11, <2>1, <3>1, <3>2
      <4> QED BY <1>2, <1>11, <2>2, <4>1
    <3>3. CASE a # b
      BY <1>11, <2>1, <3>1, <3>3
    <3> QED BY <3>2, <3>3
  <2> QED BY <1>3, <1>4, <2>1, <2>3
<1>6. ASSUME NEW t \in Tasks, TaskSucceed(t)
      PROVE  Sums(Debts(a)', NumTasks, due'[a] - value'[a])
  <2>1. /\ Owed[t][a] = 0 /\ Owed'[t][a] = copy[t][a] /\ due'[a] = due[a] + copy[t][a]
        /\ \A u \in Tasks \ {t} : Owed'[u][a] = Owed[u][a]
        /\ UNCHANGED <<value, raced, cnt>>
    <3>1. stale[t] = {}
      BY DEF Account, NoReload
    <3>2. Owed \in [Tasks -> [Accs -> Nat]]
      BY <1>0, OwedType
    <3> QED BY <1>0, <1>6, <1>11, <3>1, <3>2, SucceedStep
  <2>2. due'[a] - value'[a] = due[a] - value[a] + Owed'[t][a] - Owed[t][a]
    BY <1>1, <1>2, <1>11, <2>1
  <2> QED BY <1>0, <1>3, <1>11, <2>1, <2>2, BalanceStep DEF Account
<1>7. ASSUME NEW t \in Tasks, HandleWrite(t)
      PROVE  Sums(Debts(a)', NumTasks, due'[a] - value'[a])
  <2> DEFINE b == server.acc
  <2>1. /\ b \in Accs /\ value' = [value EXCEPT ![b] = server.old + Owed[t][b]]
        /\ Owed' = [Owed EXCEPT ![t][b] = 0] /\ (b \notin raced => server.old = value[b])
        /\ UNCHANGED <<due, raced, cnt>>
    BY <1>0, <1>7, PayStep
  <2>2. Owed \in [Tasks -> [Accs -> Nat]] /\ value \in [Accs -> Nat]
    BY <1>0, OwedType DEF IInv, TypeInv
  <2>3. \A u \in Tasks \ {t} : Owed'[u][a] = Owed[u][a]
    BY <2>1, <2>2
  <2>4. due'[a] - value'[a] = due[a] - value[a] + Owed'[t][a] - Owed[t][a]
    <3>1. CASE a = b
      <4>1. value'[a] = value[a] + Owed[t][a] /\ Owed'[t][a] = 0 /\ due' = due
        BY <1>11, <2>1, <2>2, <3>1
      <4> QED BY <1>1, <1>2, <1>11, <4>1
    <3>2. CASE a # b
      <4>1. value'[a] = value[a] /\ Owed'[t][a] = Owed[t][a] /\ due' = due
        BY <1>11, <2>1, <2>2, <3>2
      <4> QED BY <1>1, <1>2, <1>11, <4>1
    <3> QED BY <3>1, <3>2
  <2> QED BY <1>0, <1>3, <1>11, <2>1, <2>3, <2>4, BalanceStep DEF Account
<1>8. ASSUME NEW t \in Tasks, HandleAck(t)
      PROVE  Sums(Debts(a)', NumTasks, due'[a] - value'[a])
  BY <1>0, <1>3, <1>4, <1>8, AckStep
<1>9. ASSUME NEW t \in Tasks, HandleError(t) PROVE FALSE
  <2>1. cnt'.errors = cnt.errors + 1 /\ cnt.errors \in Nat
    BY <1>0, <1>9, ErrorStep DEF IInv, TypeInv, Counters
  <2> QED BY <1>3, <2>1
<1>10. ASSUME raced \subseteq raced', UNCHANGED <<Owed, value, due, cnt.errors>>
       PROVE  Sums(Debts(a)', NumTasks, due'[a] - value'[a])
  BY <1>3, <1>4, <1>10
<1> QED BY <1>0, DriverReadStep, HandleReadStep, <1>5, <1>6, <1>7, <1>8, <1>9, <1>10, QuietStep DEF Next

(* accumulators.py: when nothing is on its way, an accumulator holds what  *)
(* the driver program and the successful tasks have added, for any number  *)
(* of accumulators, of tasks and of attempts, unless the driver program    *)
(* and the server once added to it at the same time.                       *)
THEOREM Propagated ==
    ASSUME IsFiniteSet(Tasks), ~Together, MaxReloads = 0
    PROVE  Spec => []UpdatesPropagated
<1>1. ASSUME Account PROVE UpdatesPropagated
  <2> SUFFICES ASSUME Settled, cnt.errors = 0, NEW a \in Accs \ raced
               PROVE  value[a] = due[a]
    BY DEF UpdatesPropagated
  <2>1. \A k \in 1..NumTasks : Debts(a)[k] = 0
    BY OrderType DEF Settled, Debts, Owed, OwedTo
  <2>2. Sums(Debts(a), NumTasks, due[a] - value[a])
    BY <1>1 DEF Account, Balanced
  <2>3. due[a] - value[a] = 0
    BY <2>1, <2>2, OrderType, ZerosSumToZero
  <2>4. value[a] \in Nat /\ due[a] \in Nat
    BY <1>1 DEF Account, IInv, TypeInv
  <2> QED BY <2>3, <2>4
<1>2. Init => Account
  BY AccountInit
<1>3. Account /\ [Next]_vars => Account'
  BY AccountStep
<1> QED BY <1>1, <1>2, <1>3, PTL DEF Spec
=============================================================================
