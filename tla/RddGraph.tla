------------------------------ MODULE RddGraph ------------------------------
(***************************************************************************)
(* The RDDs of a driver program (pyspark/rdd.py) and those of the JVM that *)
(* they lead to, and what must hold between them.  RddPipeline has the     *)
(* steps.                                                                  *)
(***************************************************************************)
EXTENDS Naturals, Sequences

CONSTANTS Uses(_),    \* the broadcast variables a function refers to
          Keeps(_)    \* whether it is passed with preservesPartitioning

VARIABLES rdds,      \* Python RDDs in the order they were made
          jrdds,     \* RDDs in the JVM in the order they were made
          registry,  \* ctx._pickled_broadcast_vars
          call,      \* call[t]: what thread t is in the middle of
          failed     \* auxiliary: RDDs whose last cache, persist or unpersist
                     \* ended with an error

Idle == [op |-> "none", r |-> 0, f |-> <<>>, pc |-> "idle", bvars |-> {}]

(* The program has one thread: nobody else uses its RDDs.                  *)
OneThread == \E t \in DOMAIN call : DOMAIN call = {t}

UsedBy(func) == UNION {Uses(func[i]) : i \in 1..Len(func)}

(* What is met on the way from the root to each RDD.                       *)
Along(parent, piece) ==
    LET path[i \in 0..Len(piece)] == IF i = 0 THEN <<>> ELSE path[parent[i]] \o piece[i]
    IN  path
Prevs   == [i \in 1..Len(rdds) |-> rdds[i].prev]
Parents == [i \in 1..Len(jrdds) |-> jrdds[i].parent]

(* What the program asked for, and what the JVM would run.                 *)
Lineage(r)  == Along(Prevs, [i \in 1..Len(rdds) |-> rdds[i].fns])[r]
Computed(j) == Along(Parents, [i \in 1..Len(jrdds) |-> jrdds[i].func])[j]
Flags(j)    == Along(Parents, [i \in 1..Len(jrdds) |-> <<jrdds[i].keeps>>])[j]
AllKeep(j)  == LET flags == Flags(j) IN \A i \in 1..Len(flags) : flags[i]

(* rdd.py: whatever was cached, checkpointed or unpersisted in between,    *)
(* and by which thread, an RDD computes the functions of its lineage, each *)
(* once and in order.                                                      *)
LineageKept ==
    \A r \in 1..Len(rdds) : rdds[r].jrdd # 0 => Computed(rdds[r].jrdd) = Lineage(r)

(* rdd.py: the JVM takes an RDD as partitioned like its root only if every *)
(* function on the way was said to keep the partitioning.                  *)
PartitioningSound ==
    \A r \in 1..Len(rdds) :
        rdds[r].jrdd # 0 /\ AllKeep(rdds[r].jrdd) =>
            LET fns == Lineage(r) IN \A i \in 1..Len(fns) : Keeps(fns[i])

(* "This allows other code to determine which Broadcast instances have     *)
(* been pickled, so it can determine which Java broadcast objects to       *)
(* send" (context.py): in a program with one thread every command goes     *)
(* with the variables it refers to, also after a function that could not   *)
(* be pickled.                                                             *)
BroadcastsSent ==
    OneThread => \A j \in 1..Len(jrdds) : UsedBy(jrdds[j].func) \subseteq jrdds[j].bvars

(* rdd.py: in a program with one thread, an RDD marked as cached is        *)
(* persisted in the JVM between two calls, and one not marked is not,      *)
(* whatever calls failed before, unless the last one that changed its mark *)
(* did (persist and unpersist mark it before they do anything that may).   *)
CacheHeld ==
    OneThread /\ (\A t \in DOMAIN call : call[t] = Idle) =>
        \A r \in (1..Len(rdds)) \ failed :
            rdds[r].jrdd # 0 => jrdds[rdds[r].jrdd].persisted = rdds[r].cached
=============================================================================
