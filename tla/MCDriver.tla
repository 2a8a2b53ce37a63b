------------------------------ MODULE MCDriver ------------------------------
(* A driver program: its SparkContexts, and the RDDs it builds in one.     *)
(* RddPipeline stands for four programs: one thread with every operation,  *)
(* one with longer lineages, one with a function that cannot be pickled,   *)
(* and two threads that share the RDDs.  A behaviour belongs to one of the *)
(* five, chosen in the initial state; the variables of the other part keep *)
(* their values.                                                           *)
EXTENDS DriverContext, RddGraph

CONSTANT MaxJrdds
VARIABLE program

contextVars == vars
rddVars     == <<rdds, jrdds, registry, call, failed>>

(* "keep" uses a broadcast variable and keeps the partitioning, "mix" uses *)
(* another and does not, "bad" cannot be pickled.                          *)
MCUses(f)  == CASE f = "keep" -> {"b1"} [] f = "mix" -> {"b2"} [] OTHER -> {"b1", "b2"}
MCKeeps(f) == f = "keep"

One == INSTANCE RddPipeline WITH
         Threads <- {1}, Fns <- {"keep", "mix"}, Broken <- {"bad"},
         Ops <- {"persist", "unpersist", "checkpoint", "job"}, MaxRdds <- 3
Long == INSTANCE RddPipeline WITH
         Threads <- {1}, Fns <- {"keep", "mix"}, Broken <- {"bad"}, Ops <- {"persist"},
         MaxRdds <- 4
Bad == INSTANCE RddPipeline WITH
         Threads <- {1}, Fns <- {"keep", "mix", "bad"}, Broken <- {"bad"},
         Ops <- {"persist", "job"}, MaxRdds <- 3, MaxJrdds <- 3
Two == INSTANCE RddPipeline WITH
         Threads <- {1, 2}, Fns <- {"keep", "mix"}, Broken <- {"bad"},
         Ops <- {"persist", "job"}, MaxRdds <- 3, MaxJrdds <- 3

ASSUME FlagsAssumption == One!FlagsOK /\ Long!FlagsOK /\ Bad!FlagsOK /\ Two!FlagsOK
-----------------------------------------------------------------------------
MCInit == /\ Init
          /\ \/ program \in {"contexts", "one"} /\ One!Init
             \/ program = "long" /\ Long!Init
             \/ program = "bad" /\ Bad!Init
             \/ program = "two" /\ Two!Init

MCNext == /\ \/ program = "contexts" /\ Next /\ UNCHANGED rddVars
             \/ program = "one" /\ One!Next /\ UNCHANGED contextVars
             \/ program = "long" /\ Long!Next /\ UNCHANGED contextVars
             \/ program = "bad" /\ Bad!Next /\ UNCHANGED contextVars
             \/ program = "two" /\ Two!Next /\ UNCHANGED contextVars
          /\ UNCHANGED program

MCSpec == MCInit /\ [][MCNext]_<<program, contextVars, rddVars>>
=============================================================================
