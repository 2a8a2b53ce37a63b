--------------------------- MODULE Accumulators ----------------------------
(***************************************************************************)
(* pyspark/accumulators.py with its uses in context.py and worker.py:      *)
(* threads of the driver program create accumulators and add to them,      *)
(* tasks add to zero-valued copies, and the update server of the driver    *)
(* applies what successful tasks report, one term after the other, in a    *)
(* thread of its own.  Python gives up the interpreter lock between a      *)
(* read and the write that follows it.  The scheduler that runs the tasks  *)
(* and hands their reports to the server is in the JVM: external.          *)
(***************************************************************************)
EXTENDS Integers, FiniteSets

CONSTANTS Accs,        \* the accumulators, one for each creating thread
          Tasks,
          Together,    \* two threads may be in sc.accumulator() at once
          MaxAdd,      \* bound: a value held by a copy, and one term
          MaxDriver,   \* bound: additions of the driver program
          MaxRuns,     \* bound: attempts of one task, over all its runs
          MaxReloads,  \* bound: copies unpickled again with the data
          MaxErrors    \* bound: errors of addInPlace in the server

ASSUME BoundsAssumption ==
    /\ IsFiniteSet(Accs) /\ Together \in BOOLEAN
    /\ {MaxAdd, MaxDriver, MaxRuns, MaxReloads, MaxErrors} \subseteq Nat

VARIABLES
    nextId,      \* SparkContext._next_accum_id
    pc,          \* pc[a]: where the thread that creates a is
    loaded,      \* loaded[a]: the counter as that thread read it
    aid,         \* aid[a]: Accumulator.aid
    registry,    \* _accumulatorRegistry of the driver: id -> accumulator
    value,       \* value[a]: Accumulator._value in the driver
    adder,       \* the driver thread in add(): what it has read, or None
    task,        \* task[t]: "new", "running", "reported", "over"
    copy,        \* copy[t][a]: _value of the copy the task's function has
    found,       \* found[t]: id -> the accumulator whose copy is registered
    stale,       \* stale[t]: copies replaced in the registry of the worker
    batch,       \* batch[t][id]: terms the server has still to apply
    server,      \* what the server thread has read, or None
    due,         \* due[a]: additions made by the driver and successful runs
    raced,       \* auxiliary: accumulators that both threads added to at once
    cnt          \* counters for the bounds

None == [none |-> TRUE]
Ids  == 0..(Cardinality(Accs) - 1)
No   == [a \in Accs |-> 0]

driver == <<nextId, pc, loaded, aid, registry>>
worker == <<task, copy, found, stale>>
vars   == <<nextId, pc, loaded, aid, registry, value, adder, task, copy,
            found, stale, batch, server, due, raced, cnt>>

Init ==
    /\ nextId = 0 /\ pc = [a \in Accs |-> "start"] /\ loaded = No
    /\ aid = [a \in Accs |-> -1] /\ registry = [i \in Ids |-> None]
    /\ value = No /\ adder = None
    /\ task = [t \in Tasks |-> "new"] /\ copy = [t \in Tasks |-> No]
    /\ found = [t \in Tasks |-> [i \in Ids |-> None]]
    /\ stale = [t \in Tasks |-> {}]
    /\ batch = [t \in Tasks |-> [i \in Ids |-> 0]] /\ server = None
    /\ due = No /\ raced = {}
    /\ cnt = [driver |-> 0, runs |-> [t \in Tasks |-> 0], reloads |-> 0, errors |-> 0]

Created == {a \in Accs : pc[a] = "done"}

-----------------------------------------------------------------------------
(* sc.accumulator: the counter is read, written back plus one, and read    *)
(* again for the id.                                                       *)
AccumulatorLoad(a) ==
    /\ pc[a] = "start" /\ (Together \/ \A b \in Accs : pc[b] \in {"start", "done"})
    /\ loaded' = [loaded EXCEPT ![a] = nextId]
    /\ pc' = [pc EXCEPT ![a] = "loaded"]
    /\ UNCHANGED <<nextId, aid, registry, value, adder, worker, batch, server, due, raced, cnt>>

AccumulatorStore(a) ==
    /\ pc[a] = "loaded"
    /\ nextId' = loaded[a] + 1
    /\ pc' = [pc EXCEPT ![a] = "stored"]
    /\ UNCHANGED <<loaded, aid, registry, value, adder, worker, batch, server, due, raced, cnt>>

FreshId == nextId - 1
(* Accumulator.__init__ registers it under its id.                         *)
AccumulatorNew(a) ==
    /\ pc[a] = "stored"
    /\ aid' = [aid EXCEPT ![a] = FreshId]
    /\ registry' = [i \in Ids |-> IF i = FreshId THEN [acc |-> a] ELSE registry[i]]
    /\ pc' = [pc EXCEPT ![a] = "done"]
    /\ UNCHANGED <<nextId, loaded, value, adder, worker, batch, server, due, raced, cnt>>

(* += in the driver program: add() reads the value and writes the sum,     *)
(* whatever the server has written to it in between.                       *)
AddInPlace(v, term) == v + term

DriverRead(a, n) ==
    /\ a \in Created /\ adder = None /\ cnt.driver < MaxDriver
    /\ adder' = [acc |-> a, old |-> value[a], term |-> n]
    /\ raced' = IF server # None /\ server.at = "read" /\ server.acc = a
                THEN raced \cup {a} ELSE raced
    /\ cnt' = [cnt EXCEPT !.driver = @ + 1]
    /\ UNCHANGED <<driver, value, worker, batch, server, due>>

DriverWrite ==
    /\ adder # None
    /\ value' = [value EXCEPT ![adder.acc] = AddInPlace(adder.old, adder.term)]
    /\ due' = [due EXCEPT ![adder.acc] = @ + adder.term]
    /\ adder' = None
    /\ UNCHANGED <<driver, worker, batch, server, raced, cnt>>

-----------------------------------------------------------------------------
(* __reduce__ pickles the zero value, not the value.                       *)
Zero(a) == 0

(* A task starts when its function is unpickled in a fresh worker: every   *)
(* accumulator becomes a copy, registered under its id; of two with one    *)
(* id the one unpickled last stays.                                        *)
TaskStart(t) ==
    /\ task[t] \in {"new", "over"} /\ cnt.runs[t] < MaxRuns
    /\ Created = Accs
    /\ \E f \in [Ids -> {[acc |-> a] : a \in Accs} \cup {None}] :
          /\ \A i \in Ids : IF \E a \in Accs : aid[a] = i
                            THEN f[i] # None /\ aid[f[i].acc] = i ELSE f[i] = None
          /\ found' = [found EXCEPT ![t] = f]
    /\ copy' = [copy EXCEPT ![t] = [a \in Accs |-> Zero(a)]]
    /\ stale' = [stale EXCEPT ![t] = {}]
    /\ task' = [task EXCEPT ![t] = "running"]
    /\ cnt' = [cnt EXCEPT !.runs[t] = @ + 1]
    /\ UNCHANGED <<driver, value, adder, batch, server, due, raced>>

TaskAdd(t, a, n) ==
    /\ task[t] = "running" /\ copy[t][a] + n <= MaxAdd
    /\ copy' = [copy EXCEPT ![t][a] = @ + n]
    /\ UNCHANGED <<driver, value, adder, task, found, stale, batch, server, due, raced, cnt>>

(* A record of the data, or a broadcast value, holds the accumulator too:  *)
(* unpickling it puts another copy into the registry.                      *)
Reload(t, a) ==
    /\ task[t] = "running" /\ cnt.reloads < MaxReloads
    /\ stale' = [stale EXCEPT ![t] = @ \cup {a}]
    /\ cnt' = [cnt EXCEPT !.reloads = @ + 1]
    /\ UNCHANGED <<driver, value, adder, task, copy, found, batch, server, due, raced>>

(* The end of worker.main: the registry is written behind the data.        *)
Reported(t) ==
    [i \in Ids |-> IF found[t][i] = None \/ found[t][i].acc \in stale[t]
                   THEN 0 ELSE copy[t][found[t][i].acc]]
TaskSucceed(t) ==
    /\ task[t] = "running"
    /\ task' = [task EXCEPT ![t] = "reported"]
    /\ batch' = [batch EXCEPT ![t] = Reported(t)]
    /\ due' = [a \in Accs |-> due[a] + copy[t][a]]
    /\ UNCHANGED <<driver, value, adder, copy, found, stale, server, raced, cnt>>

(* An exception: the worker writes the error and no accumulators; the      *)
(* scheduler may start the task again.                                     *)
MutTaskFail(t) ==
    /\ task[t] = "running"
    /\ task' = [task EXCEPT ![t] = "reported"]
    /\ batch' = [batch EXCEPT ![t] = Reported(t)]
    /\ UNCHANGED <<driver, value, adder, copy, found, stale, server, due, raced, cnt>>
TaskFail(t) ==
    /\ task[t] = "running"
    /\ task' = [task EXCEPT ![t] = "over"]
    /\ UNCHANGED <<driver, value, adder, copy, found, stale, batch, server, due, raced, cnt>>

-----------------------------------------------------------------------------
(* _UpdateRequestHandler: one connection at a time; the terms of a report  *)
(* one by one, in the order of small integers in a dict, each a read and a *)
(* write.  range(num_updates) is over when every id was read.              *)
MutMoreUpdates(i) == i + 1 \in Ids /\ registry[i + 1] # None
MoreUpdates(i) == i \in Ids /\ registry[i] # None

HandleRead(t, i) ==
    /\ task[t] = "reported" /\ MoreUpdates(i)
    /\ IF server = None THEN i = 0
       ELSE server.from = t /\ server.at = "between" /\ i = server.next
    /\ LET a == registry[i].acc IN
       /\ server' = [from |-> t, at |-> "read", next |-> i, acc |-> a, old |-> value[a]]
       /\ raced' = IF adder # None /\ adder.acc = a THEN raced \cup {a} ELSE raced
    /\ UNCHANGED <<driver, value, adder, worker, batch, due, cnt>>

MutNextTerm(i) == i
NextTerm(i) == i + 1
HandleWrite(t) ==
    /\ server # None /\ server.from = t /\ server.at = "read"
    /\ value' = [value EXCEPT ![server.acc] =
                             AddInPlace(server.old, batch[t][server.next])]
    /\ batch' = [batch EXCEPT ![t][server.next] = 0]
    /\ server' = [server EXCEPT !.at = "between", !.next = NextTerm(@)]
    /\ UNCHANGED <<driver, adder, worker, due, raced, cnt>>

(* The acknowledgement, when every id of the report has been applied.      *)
HandleAck(t) ==
    /\ server # None /\ server.from = t /\ server.at = "between"
    /\ ~MoreUpdates(server.next)
    /\ task' = [task EXCEPT ![t] = "over"]
    /\ server' = None
    /\ UNCHANGED <<driver, value, adder, copy, found, stale, batch, due, raced, cnt>>

(* addInPlace raises: what was applied stays, the rest is not read, the    *)
(* connection is closed without an acknowledgement.                        *)
HandleError(t) ==
    /\ server # None /\ server.from = t /\ server.at = "read"
    /\ cnt.errors < MaxErrors
    /\ cnt' = [cnt EXCEPT !.errors = @ + 1]
    /\ task' = [task EXCEPT ![t] = "over"]
    /\ batch' = [batch EXCEPT ![t] = [i \in Ids |-> 0]]
    /\ server' = None
    /\ UNCHANGED <<driver, value, adder, copy, found, stale, due, raced>>

Next ==
    \/ \E a \in Accs : AccumulatorLoad(a) \/ AccumulatorStore(a) \/ AccumulatorNew(a)
    \/ \E a \in Accs, n \in 1..MaxAdd : DriverRead(a, n)
    \/ DriverWrite
    \/ \E t \in Tasks :
          \/ TaskStart(t) \/ TaskSucceed(t) \/ TaskFail(t)
          \/ \E a \in Accs : Reload(t, a) \/ \E n \in 1..MaxAdd : TaskAdd(t, a, n)
          \/ \E i \in Ids : HandleRead(t, i)
          \/ HandleWrite(t) \/ HandleAck(t) \/ HandleError(t)

Spec == Init /\ [][Next]_vars
(* The update server is a thread that always runs, and a thread in add()   *)
(* runs on.                                                                *)
Serve(t) == (\E i \in Ids : HandleRead(t, i)) \/ HandleWrite(t) \/ HandleAck(t)
FairSpec == Spec /\ WF_vars(DriverWrite) /\ \A t \in Tasks : WF_vars(Serve(t))

-----------------------------------------------------------------------------
TypeOK ==
    /\ nextId \in Nat /\ pc \in [Accs -> {"start", "loaded", "stored", "done"}]
    /\ aid \in [Accs -> Int] /\ value \in [Accs -> Nat] /\ due \in [Accs -> Nat]
    /\ \A i \in Ids : registry[i] = None \/ registry[i].acc \in Accs
    /\ task \in [Tasks -> {"new", "running", "reported", "over"}]
    /\ copy \in [Tasks -> [Accs -> 0..MaxAdd]] /\ batch \in [Tasks -> [Ids -> Nat]]

(* "Updates from the workers get propagated automatically to the driver    *)
(* program": when nothing is on its way, an accumulator holds exactly what *)
(* the driver program and the successful runs of tasks have added to it,   *)
(* however attempts failed, were repeated, and reports were interleaved -  *)
(* unless the driver program and the server were once between read and     *)
(* write of it at the same time.                                           *)
Settled == adder = None /\ server = None /\ \A t \in Tasks : task[t] # "reported"
UpdatesPropagated ==
    Settled /\ cnt.errors = 0 => \A a \in Accs \ raced : value[a] = due[a]

(* Every report is eventually acknowledged or ended by an error.           *)
ReportsEnd == \A t \in Tasks : task[t] = "reported" ~> task[t] = "over"

-----------------------------------------------------------------------------
(* Where the additions under way and the reports in flight stand, seen by  *)
(* accumulator.                                                            *)
Reading(adding) == [acc |-> adding.acc, old |-> adding.old]
Readings ==
    [driver |-> IF adder = None THEN None ELSE Reading(adder),
     server |-> IF server = None \/ server.at # "read" THEN None ELSE Reading(server)]
OwedTo(t) == [a \in Accs |-> IF aid[a] \in Ids /\ task[t] = "reported"
                             THEN batch[t][aid[a]] ELSE 0]
A == INSTANCE AccumulatorSpec WITH Terms <- 0..MaxAdd, errors <- cnt.errors,
                                     reading <- Readings,
                                     owed <- [t \in Tasks |-> OwedTo(t)]
(* The code implements the abstract accumulator: what a successful task    *)
(* reports is paid accumulator by accumulator, each term whole, once, to   *)
(* the right one and before the acknowledgement, and an addition is lost   *)
(* only to one that had read the value before.                             *)
ImplementsSpec == A!Spec
=============================================================================
