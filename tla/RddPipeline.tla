---------------------------- MODULE RddPipeline ----------------------------
(***************************************************************************)
(* pyspark/rdd.py: how the driver turns transformations into PythonRDDs of *)
(* the JVM.  Functions that follow each other are fused into one command   *)
(* until an RDD between them is cached or checkpointed; the command is     *)
(* pickled when the JVM's RDD is first asked for, and the broadcast        *)
(* variables met while pickling go with it.  Threads share the RDDs.       *)
(***************************************************************************)
EXTENDS RddGraph, FiniteSets

CONSTANTS Threads,    \* threads of the driver program
          Fns,        \* functions passed to transformations
          Broken,     \* functions that cannot be pickled
          Ops,        \* the operations the program calls beside map
          MaxRdds,    \* bound: RDDs made by the program
          MaxJrdds    \* bound: RDDs made in the JVM

(* A hypothesis of the theorems: preservesPartitioning is a flag.          *)
FlagsOK == \A f \in Fns : Keeps(f) \in BOOLEAN

vars == <<rdds, jrdds, registry, call, failed>>

(* An RDD of the driver: the RDD it was made from and the function; the    *)
(* fused functions, their JVM parent and flag; what is set on it; its      *)
(* _jrdd_val, 0 for None.                                                  *)
Root  == [prev |-> 0, fns |-> <<>>, func |-> <<>>, base |-> 0, keeps |-> TRUE,
          cached |-> FALSE, checkpointed |-> FALSE, jrdd |-> 1]
JRoot == [parent |-> 0, func |-> <<>>, keeps |-> TRUE, bvars |-> {}, persisted |-> FALSE]

Init == /\ rdds = <<Root>> /\ jrdds = <<JRoot>> /\ registry = {} /\ failed = {}
        /\ call = [t \in Threads |-> Idle]

-----------------------------------------------------------------------------
Pipelined(r)    == rdds[r].prev # 0
IsPipelinable(r) == ~(rdds[r].cached \/ rdds[r].checkpointed)
Fused(r)        == Pipelined(r) /\ IsPipelinable(r)

(* PipelinedRDD.__init__.                                                  *)
MutBothKeep(r, f) == rdds[r].keeps \/ Keeps(f)
BothKeep(r, f)    == rdds[r].keeps /\ Keeps(f)
MutFusedFunc(r, f) == <<f>> \o rdds[r].func
FusedFunc(r, f)   == Append(rdds[r].func, f)
Stage(r, f, fused) ==
    [prev |-> r, fns |-> <<f>>,
     func  |-> IF fused THEN FusedFunc(r, f) ELSE <<f>>,
     base  |-> IF fused THEN rdds[r].base ELSE rdds[r].jrdd,
     keeps |-> IF fused THEN BothKeep(r, f) ELSE Keeps(f),
     cached |-> FALSE, checkpointed |-> FALSE, jrdd |-> 0]

(* An operation on r that first asks for r._jrdd; the flags are set before.*)
Ask(t, op, r, f) ==
    call' = [call EXCEPT ![t] =
               [op |-> op, r |-> r, f |-> f, bvars |-> {},
                pc |-> IF rdds[r].jrdd # 0 THEN "finish" ELSE "dumps"]]

map(t, r, f) ==
    /\ Len(rdds) + Cardinality({u \in Threads : call[u].op = "map"}) < MaxRdds
    /\ IF Fused(r) THEN rdds' = Append(rdds, Stage(r, f, TRUE)) /\ UNCHANGED call
                   ELSE Ask(t, "map", r, <<f>>) /\ UNCHANGED rdds
    /\ UNCHANGED <<jrdds, registry, failed>>

(* cache and persist mark the RDD first; persist may then find that its    *)
(* argument is no StorageLevel, before the JVM hears of it.                *)
persist(t, r) ==
    /\ rdds' = [rdds EXCEPT ![r].cached = TRUE]
    /\ \/ Ask(t, "persist", r, <<>>) /\ UNCHANGED failed
       \/ failed' = failed \cup {r} /\ UNCHANGED call
    /\ UNCHANGED <<jrdds, registry>>
MutUnpersisted(r) == rdds
Unpersisted(r) == [rdds EXCEPT ![r].cached = FALSE]
unpersist(t, r) ==
    /\ rdds' = Unpersisted(r)
    /\ Ask(t, "unpersist", r, <<>>) /\ UNCHANGED <<jrdds, registry, failed>>
checkpoint(t, r) ==
    /\ rdds' = [rdds EXCEPT ![r].checkpointed = TRUE]
    /\ Ask(t, "checkpoint", r, <<>>) /\ UNCHANGED <<jrdds, registry, failed>>
job(t, r) == Ask(t, "job", r, <<>>) /\ UNCHANGED <<rdds, jrdds, registry, failed>>

Begin(t) ==
    /\ call[t] = Idle
    /\ \E r \in 1..Len(rdds) : \/ \E f \in Fns : map(t, r, f)
                               \/ "persist" \in Ops /\ persist(t, r)
                               \/ "unpersist" \in Ops /\ unpersist(t, r)
                               \/ "checkpoint" \in Ops /\ checkpoint(t, r)
                               \/ "job" \in Ops /\ job(t, r)

-----------------------------------------------------------------------------
(* PipelinedRDD._jrdd: pickle the command (Broadcast.__reduce__ enters     *)
(* each variable it meets), list what was entered, clear it, make the RDD. *)
FuncOf(t)    == rdds[call[t].r].func
Spoilt(func) == \E i \in 1..Len(func) : func[i] \in Broken
Goto(t, pc)  == call' = [call EXCEPT ![t].pc = pc]

Dumps(t) ==
    /\ call[t].pc = "dumps" /\ ~Spoilt(FuncOf(t))
    /\ registry' = registry \cup UsedBy(FuncOf(t))
    /\ Goto(t, "list") /\ UNCHANGED <<rdds, jrdds, failed>>

(* The call ends with an error, and what was marked stays marked.          *)
Marking == {"persist", "unpersist"}
Abort(t) ==
    /\ call' = [call EXCEPT ![t] = Idle] /\ UNCHANGED <<rdds, jrdds>>
    /\ failed' = IF call[t].op \in Marking THEN failed \cup {call[t].r} ELSE failed

(* A function cannot be pickled: the variables met before stay entered.    *)
DumpsRaises(t) ==
    /\ call[t].pc = "dumps" /\ Spoilt(FuncOf(t))
    /\ \E met \in SUBSET UsedBy(FuncOf(t)) : registry' = registry \cup met
    /\ Abort(t)

MutListed(t) == {}
Listed(t)    == registry
ListVars(t) ==
    /\ call[t].pc = "list"
    /\ call' = [call EXCEPT ![t].pc = "clear", ![t].bvars = Listed(t)]
    /\ UNCHANGED <<rdds, jrdds, registry, failed>>

Clear(t) ==
    /\ call[t].pc = "clear" /\ registry' = {}
    /\ Goto(t, "make") /\ UNCHANGED <<rdds, jrdds, failed>>

Make(t) ==
    LET r == call[t].r IN
    /\ call[t].pc = "make" /\ Len(jrdds) < MaxJrdds
    /\ jrdds' = Append(jrdds, [parent |-> rdds[r].base, func |-> rdds[r].func,
                               keeps |-> rdds[r].keeps, bvars |-> call[t].bvars,
                               persisted |-> FALSE])
    /\ rdds' = [rdds EXCEPT ![r].jrdd = Len(jrdds) + 1]
    /\ Goto(t, "finish") /\ UNCHANGED <<registry, failed>>

(* The operation itself, on the JVM's RDD.                                 *)
Finish(t) ==
    LET c == call[t]  j == rdds[c.r].jrdd IN
    /\ c.pc = "finish"
    /\ call' = [call EXCEPT ![t] = Idle]
    /\ rdds' = IF c.op = "map" THEN Append(rdds, Stage(c.r, c.f[1], FALSE)) ELSE rdds
    /\ jrdds' = IF c.op \in Marking
                THEN [jrdds EXCEPT ![j].persisted = (c.op = "persist")] ELSE jrdds
    /\ failed' = IF c.op \in Marking THEN failed \ {c.r} ELSE failed
    /\ UNCHANGED registry

(* The JVM refuses, for instance another storage level.  (A checkpoint or  *)
(* job that it refuses changes as little here as one that it does.)        *)
Refused(t) == /\ call[t].pc = "finish" /\ call[t].op \in Marking
              /\ Abort(t) /\ UNCHANGED registry

Step(t) == \/ Dumps(t) \/ DumpsRaises(t) \/ ListVars(t) \/ Clear(t) \/ Make(t)
           \/ Finish(t) \/ Refused(t)
Next == \E t \in Threads : Begin(t) \/ Step(t)
Spec == Init /\ [][Next]_vars
=============================================================================
